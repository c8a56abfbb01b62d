----------------------------- MODULE RangeTypes -----------------------------
(***************************************************************************)
(* gaussdb.types.range and gaussdb.types.multirange: the Range and the     *)
(* Multirange objects, and their text and binary formats in both           *)
(* directions.                                                             *)
(*                                                                         *)
(* A bound is an element or None.  In text an element is a sequence of     *)
(* characters, a small alphabet with the ones the format gives a meaning   *)
(* to; elsewhere it is a number.                                           *)
(***************************************************************************)
EXTENDS Values

-----------------------------------------------------------------------------
(* Range                                                                    *)

Flags == {"[", "("} \X {"]", ")"}
EmptyRange == [lower |-> None, upper |-> None, bounds |-> <<>>]

\* Range(): an infinite bound is never included.
NewRange(lower, upper, bounds) ==
  [lower |-> lower, upper |-> upper,
   bounds |-> <<IF lower = None THEN "(" ELSE bounds[1],
                IF upper = None THEN ")" ELSE bounds[2]>>]

isempty(r)   == r.bounds = <<>>
lower_inf(r) == ~isempty(r) /\ r.lower = None
upper_inf(r) == ~isempty(r) /\ r.upper = None
lower_inc(r) == ~isempty(r) /\ r.lower # None /\ r.bounds[1] = "["
upper_inc(r) == ~isempty(r) /\ r.upper # None /\ r.bounds[2] = "]"

\* __contains__
RangeHas(r, x) ==
  /\ ~isempty(r)
  /\ r.lower # None => IF r.bounds[1] = "[" THEN x >= r.lower ELSE x > r.lower
  /\ r.upper # None => IF r.bounds[2] = "]" THEN x <= r.upper ELSE x < r.upper

\* The order of the bounds' strings: "" before "()" and "(]", "[)" and "[]".
BoundsRank(b) == IF b = <<>> THEN 0
                 ELSE 1 + (IF b[1] = "[" THEN 2 ELSE 0) + (IF b[2] = "]" THEN 1 ELSE 0)

\* __lt__: by lower bound, upper bound and flags; None comes first.
Less(r, s) ==
  IF r.lower # s.lower
  THEN r.lower = None \/ (s.lower # None /\ r.lower < s.lower)
  ELSE IF r.upper # s.upper
  THEN r.upper = None \/ (s.upper # None /\ r.upper < s.upper)
  ELSE BoundsRank(r.bounds) < BoundsRank(s.bounds)

-----------------------------------------------------------------------------
(* Text                                                                     *)

\* What _re_needs_quotes looks for; "sp" is any white space.
RangeSpecial == {Quote, Backslash, ",", "sp", "(", ")", "[", "]"}

\* _re_esc: quotes and backslashes are doubled.
RangeEscape(s) == FlattenSeq([i \in DOMAIN s |->
               IF s[i] \in {Quote, Backslash} THEN <<s[i], s[i]>> ELSE <<s[i]>>])

dump_item(s) ==
  IF s = <<>> THEN <<Quote, Quote>>
  ELSE IF \E i \in DOMAIN s : s[i] \in RangeSpecial
       THEN <<Quote>> \o RangeEscape(s) \o <<Quote>> ELSE s

EmptyText == <<"e", "m", "p", "t", "y">>
dump_range_text(r) ==
  IF isempty(r) THEN EmptyText
  ELSE <<IF lower_inc(r) THEN "[" ELSE "(">>
       \o (IF r.lower = None THEN <<>> ELSE dump_item(r.lower)) \o <<",">>
       \o (IF r.upper = None THEN <<>> ELSE dump_item(r.upper))
       \o <<IF upper_inc(r) THEN "]" ELSE ")">>

\* _re_undouble: pairs of quotes and of backslashes, from the left.
Undouble(s) ==
  LET step(st, ch) == IF st.half = ch THEN [out |-> st.out, half |-> ""]
                      ELSE [out |-> Append(st.out, ch),
                            half |-> IF ch \in {Quote, Backslash} THEN ch ELSE ""]
  IN  FoldLeft(step, [out |-> <<>>, half |-> ""], s).out

\* The scan of _re_range: where it is, the flags and the two bounds read.
\* "low1", "high1" follow a quote inside quotes: it ends them or is doubled.
RangeScan == [at |-> "open", flags |-> <<>>, lower |-> None, upper |-> None, raw |-> <<>>]
RangePut(st, at, ch) == [st EXCEPT !.at = at, !.raw = Append(@, ch)]
SetLower(st, v)     == [st EXCEPT !.at = "high", !.lower = v, !.raw = <<>>]
SetUpper(st, v, ch) == [st EXCEPT !.at = "end", !.upper = v, !.raw = <<>>,
                                  !.flags = Append(@, ch)]
RangeFail(st) == [st EXCEPT !.at = "fail"]

scan_range(st, ch) ==
  CASE st.at = "open" ->
         IF ch \in {"(", "["} THEN [st EXCEPT !.at = "low", !.flags = <<ch>>] ELSE RangeFail(st)
    [] st.at = "low" ->
         IF ch = Quote /\ st.raw = <<>> THEN [st EXCEPT !.at = "lowq"]
         ELSE IF ch = Quote THEN RangeFail(st)
         ELSE IF ch = "," THEN SetLower(st, IF st.raw = <<>> THEN None ELSE st.raw)
         ELSE RangePut(st, "low", ch)
    [] st.at \in {"lowq", "highq"} ->
         IF ch = Quote THEN [st EXCEPT !.at = IF @ = "lowq" THEN "low1" ELSE "high1"]
         ELSE RangePut(st, st.at, ch)
    [] st.at \in {"low1", "high1"} /\ ch = Quote ->
         [st EXCEPT !.at = IF @ = "low1" THEN "lowq" ELSE "highq",
                    !.raw = @ \o <<Quote, Quote>>]
    [] st.at = "low1" /\ ch # Quote -> IF ch = "," THEN SetLower(st, Undouble(st.raw)) ELSE RangeFail(st)
    [] st.at = "high1" /\ ch # Quote -> IF ch \in {")", "]"} THEN SetUpper(st, Undouble(st.raw), ch)
                          ELSE RangeFail(st)
    [] st.at = "high" ->
         IF ch = Quote /\ st.raw = <<>> THEN [st EXCEPT !.at = "highq"]
         ELSE IF ch = Quote THEN RangeFail(st)
         ELSE IF ch \in {")", "]"} THEN SetUpper(st, IF st.raw = <<>> THEN None ELSE st.raw, ch)
         ELSE RangePut(st, "high", ch)
    [] OTHER -> st

Scanned(st) == NewRange(st.lower, st.upper, st.flags)
load_range_text(s) == IF s = EmptyText THEN EmptyRange
                      ELSE Scanned(FoldLeft(scan_range, RangeScan, s))

\* MultirangeDumper.dump, MultirangeLoader.load: the ranges between braces; what
\* follows each range is a comma or the end.
dump_multirange_text(rs) ==
  IF rs = <<>> THEN <<"{", "}">>
  ELSE <<"{">> \o FlattenSeq([i \in DOMAIN rs |->
                    dump_range_text(rs[i]) \o <<IF i = Len(rs) THEN "}" ELSE ",">>])
load_multirange_text(s) ==
  LET step(a, ch) ==
        IF a.done \/ a.st.at = "fail" THEN [a EXCEPT !.ok = FALSE]
        ELSE IF a.st.at # "end" THEN [a EXCEPT !.st = scan_range(@, ch)]
        ELSE [a EXCEPT !.out = Append(@, Scanned(a.st)), !.st = RangeScan,
                       !.ok = @ /\ ch \in {",", "}"}, !.done = (ch = "}")]
      r == FoldLeft(step, [out |-> <<>>, st |-> RangeScan, ok |-> TRUE, done |-> FALSE], Tail(s))
  IN  IF s = <<"{", "}">> THEN [ok |-> TRUE, out |-> <<>>]
      ELSE [ok |-> Head(s) = "{" /\ r.ok /\ r.done, out |-> r.out]

-----------------------------------------------------------------------------
(* Binary                                                                   *)

\* The head is a set of flags; the bounds that are there follow, each with its
\* length.  An element that dumps to nothing (to None) is infinite.
dump_range_binary(r, nothing) ==
  LET there(x) == x # None /\ x \notin nothing
  IN  IF isempty(r) THEN [head |-> {"EMPTY"}, items |-> <<>>]
      ELSE [head |-> {f \in {"LB_INC", "UB_INC", "LB_INF", "UB_INF"} :
                        CASE f = "LB_INC" -> lower_inc(r) [] f = "UB_INC" -> upper_inc(r)
                          [] f = "LB_INF" -> ~there(r.lower)
                          [] f = "UB_INF" -> ~there(r.upper)},
            items |-> SelectSeq(<<r.lower, r.upper>>, there)]

load_range_binary(b) ==
  IF "EMPTY" \in b.head THEN EmptyRange
  ELSE NewRange(IF "LB_INF" \in b.head THEN None ELSE b.items[1],
             IF "UB_INF" \in b.head THEN None ELSE b.items[Len(b.items)],
             <<IF "LB_INC" \in b.head THEN "[" ELSE "(",
               IF "UB_INC" \in b.head THEN "]" ELSE ")">>)

\* MultirangeBinaryDumper, MultirangeBinaryLoader: the count, then each range.
dump_multirange_binary(rs, nothing) ==
  [n |-> Len(rs), ranges |-> [i \in DOMAIN rs |-> dump_range_binary(rs[i], nothing)]]
load_multirange_binary(b) == [i \in 1..b.n |-> load_range_binary(b.ranges[i])]

-----------------------------------------------------------------------------
(* Properties                                                               *)

\* A range of texts, whatever characters the bounds have, is read back from its
\* text; so is a multirange.  (The server drops the empty ranges of one.)
RangeTextSurvives(r) == load_range_text(dump_range_text(r)) = r
MultirangeTextSurvives(rs) ==
  load_multirange_text(dump_multirange_text(rs)) = [ok |-> TRUE, out |-> rs]

\* A range survives the binary format, alone or in a multirange.
RangeBinarySurvives(r, s) ==
  /\ load_range_binary(dump_range_binary(r, {})) = r
  /\ load_multirange_binary(dump_multirange_binary(<<r, s>>, {})) = <<r, s>>

\* The order of ranges is total and strict (sorting is stable), and a range
\* that loses an infinite bound contains no more.
RangeOrder(r, s, Domain, Points) ==
  /\ Less(r, s) \/ Less(s, r) \/ r = s
  /\ ~(Less(r, s) /\ Less(s, r)) /\ ~Less(r, r)
  /\ \A t \in Domain : Less(r, s) /\ Less(s, t) => Less(r, t)
  /\ \A x \in Points : RangeHas(r, x) /\ r.lower = s.lower /\ r.bounds = s.bounds
                         /\ s.upper = None => RangeHas(s, x)
  /\ ~isempty(r) => (lower_inf(r) => ~lower_inc(r)) /\ (upper_inf(r) => ~upper_inc(r))
=============================================================================
