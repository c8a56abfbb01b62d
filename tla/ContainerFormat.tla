--------------------------- MODULE ContainerFormat ---------------------------
(***************************************************************************)
(* Values made of values: lists (gaussdb.types.array), tuples and          *)
(* composites (gaussdb.types.composite), dictionaries of strings           *)
(* (gaussdb.types.hstore), in text and in binary.                          *)
(*                                                                         *)
(* An element is its text: a sequence of characters from a small alphabet  *)
(* that has those the formats use.  A nested list is built of leaves,      *)
(* nulls and lists.                                                        *)
(***************************************************************************)
EXTENDS Values

Leaf(s) == [kind |-> "leaf", text |-> s]
Null    == [kind |-> "null"]
List(s) == [kind |-> "list", items |-> s]
Refused(why) == [kind |-> "error", why |-> why]

\* Characters that a backslash, or a double, protects.
BackslashEscape(s) ==
  FlattenSeq([i \in DOMAIN s |->
    IF s[i] \in {Quote, Backslash} THEN <<Backslash, s[i]>> ELSE <<s[i]>>])
DoubleQuotes(s) ==
  FlattenSeq([i \in DOMAIN s |->
    IF s[i] \in {Quote, Backslash} THEN <<s[i], s[i]>> ELSE <<s[i]>>])
\* re.sub(r"\\(.)", r"\1"): the backslash goes, what follows it stays.
BackslashUnescape(s) ==
  FoldLeft(LAMBDA st, ch : IF ch = Backslash /\ ~st.esc THEN [st EXCEPT !.esc = TRUE]
                           ELSE [out |-> Append(st.out, ch), esc |-> FALSE],
           [out |-> <<>>, esc |-> FALSE], s).out
\* re.sub(r'(["\\])\1', r"\1")
UndoublePairs(s) ==
  FoldLeft(LAMBDA st, ch : IF st.half = ch THEN [out |-> st.out, half |-> ""]
                           ELSE [out |-> Append(st.out, ch),
                                 half |-> IF ch \in {Quote, Backslash} THEN ch ELSE ""],
           [out |-> <<>>, half |-> ""], s).out
InQuotes(s) == <<Quote>> \o s \o <<Quote>>
Join(parts, sep) ==
  FlattenSeq([i \in DOMAIN parts |-> IF i = 1 THEN parts[i] ELSE <<sep>> \o parts[i]])

-----------------------------------------------------------------------------
(* Arrays in text                                                           *)

\* "null" stands for the four letters of the word, in any case.
NullWord == <<"null">>

\* Mutant of NeedsQuotes: the word NULL is written as it is.
NeedsQuotes_NoNull(s, delimiter) ==
  s = <<>> \/ \E i \in DOMAIN s : s[i] \in {Quote, Backslash, "{", "}", "sp", delimiter}
\* _get_needs_quotes_regexp
NeedsQuotes(s, delimiter) ==
  \/ s = <<>> \/ s = NullWord
  \/ \E i \in DOMAIN s : s[i] \in {Quote, Backslash, "{", "}", "sp", delimiter}

\* ListDumper.dump
RECURSIVE dump_list(_, _)
dump_list(l, delimiter) ==
  CASE l.kind = "null" -> NullWord
    [] l.kind = "leaf" -> IF NeedsQuotes(l.text, delimiter)
                          THEN InQuotes(BackslashEscape(l.text)) ELSE l.text
    [] l.kind = "list" ->
         <<"{">> \o Join([i \in DOMAIN l.items |-> dump_list(l.items[i], delimiter)],
                         delimiter) \o <<"}">>

\* The tokens of _get_array_parse_regexp: brackets, quoted strings (with their
\* quotes) and bare ones.  A comma after a token, and what is no token at all
\* (another delimiter), is skipped.
ArrayTokens(s, delimiter) ==
  LET flush(st) == IF st.tok = <<>> THEN st.out ELSE Append(st.out, st.tok)
      step(st, ch) ==
        IF st.in = "quoted" /\ ch = Quote THEN
               [out |-> Append(st.out, Append(st.tok, ch)), tok |-> <<>>, in |-> "after"]
        ELSE IF st.in = "quoted" THEN [st EXCEPT !.tok = Append(@, ch),
                                            !.in = IF ch = Backslash THEN "escape" ELSE @]
        ELSE IF st.in = "escape" THEN [st EXCEPT !.tok = Append(@, ch), !.in = "quoted"]
        ELSE IF st.in = "after" /\ ch = "," THEN [st EXCEPT !.in = "out"]
        ELSE IF ch \in {"{", "}"} THEN [out |-> Append(flush(st), <<ch>>), tok |-> <<>>, in |-> "after"]
        ELSE IF ch = Quote THEN [out |-> flush(st), tok |-> <<Quote>>, in |-> "quoted"]
        ELSE IF ch \in {delimiter, Backslash} THEN [out |-> flush(st), tok |-> <<>>, in |-> "out"]
        ELSE [st EXCEPT !.tok = Append(@, ch), !.in = "out"]
      end == FoldLeft(step, [out |-> <<>>, tok |-> <<>>, in |-> "out"], s)
  IN  flush(end)

\* The dimensions that precede an array whose bounds are not the default.
SkipDimensions(s) == IF s # <<>> /\ s[1] = "[" THEN SubSeq(s, SelectInSeq(s, LAMBDA c : c = "=") + 1, Len(s))
                     ELSE s

\* _load_text: a stack of the open lists.
load_array_text(s, delimiter) ==
  LET item(t) == IF t = NullWord THEN Null
                 ELSE IF t[1] = Quote THEN Leaf(BackslashUnescape(SubSeq(t, 2, Len(t) - 1)))
                 ELSE Leaf(t)
      add(stack, x) == [stack EXCEPT ![Len(stack)] = Append(@, x)]
      step(st, t) ==
        IF st.bad THEN st
        ELSE IF t = <<"{">> THEN [st EXCEPT !.stack = Append(@, <<>>)]
        ELSE IF st.stack = <<>> THEN [st EXCEPT !.bad = TRUE]
        ELSE IF t = <<"}">> THEN LET l == List(Last(st.stack))
                                up == Front(st.stack)
                            IN  IF up = <<>> THEN [st EXCEPT !.stack = up, !.rv = l]
                                ELSE [st EXCEPT !.stack = add(up, l)]
        ELSE [st EXCEPT !.stack = add(@, item(t))]
      end == FoldLeft(step, [stack |-> <<>>, rv |-> List(<<>>), bad |-> FALSE],
                      ArrayTokens(SkipDimensions(s), delimiter))
  IN  IF end.bad THEN Refused("malformed array") ELSE end.rv

-----------------------------------------------------------------------------
(* Arrays in binary                                                         *)

\* calc_dims: the lengths along the first elements; a list may not be empty.
RECURSIVE calc_dims(_)
calc_dims(l) == IF l.kind # "list" THEN <<>>
                ELSE IF l.items = <<>> THEN <<0>>
                ELSE <<Len(l.items)>> \o calc_dims(l.items[1])

\* Every list has the length of its dimension, and the leaves have one depth.
RECURSIVE Regular(_, _)
Regular(l, dims) ==
  /\ l.kind = "list" /\ Len(l.items) = dims[1]
  /\ \A i \in DOMAIN l.items :
       IF Len(dims) = 1 THEN l.items[i].kind # "list"
       ELSE Regular(l.items[i], Tail(dims))
RECURSIVE Leaves(_)
Leaves(l) == IF l.kind # "list" THEN <<l>>
             ELSE FlattenSeq([i \in DOMAIN l.items |-> Leaves(l.items[i])])

\* ListBinaryDumper.dump
dump_array_binary(l) ==
  LET dims == calc_dims(l)
      data == Leaves(l)
  IN  IF l.items = <<>> THEN [kind |-> "array", dims |-> <<>>, hasnull |-> FALSE, data |-> <<>>]
      ELSE IF Contains(dims, 0) THEN Refused("lists cannot contain empty lists")
      ELSE IF ~Regular(l, dims) THEN Refused("inconsistent lists")
      ELSE [kind |-> "array", dims |-> dims, hasnull |-> Contains(data, Null), data |-> data]

\* _load_binary: the elements in a row, cut from the innermost dimension out.
load_array_binary(b) ==
  LET cut(dim, out) == [i \in 1..(Len(out) \div dim) |->
                          List(SubSeq(out, (i - 1) * dim + 1, i * dim))]
  IN  IF b.dims = <<>> THEN List(<<>>)
      ELSE List(FoldRight(cut, Tail(b.dims), b.data))

\* _find_list_element: the element that stands for a list of ints, the one
\* that needs the largest type.  A magnitude is that of -n - 1 if negative.
MaxOf(S) == CHOOSE x \in S : \A y \in S : y <= x
find_int(items) == MaxOf(items \cup {-n - 1 : n \in {m \in items : m < 0}})

-----------------------------------------------------------------------------
(* Tuples and composites                                                    *)

RowSpecial == {Quote, Backslash, ",", "sp", "(", ")"}
dump_field(s) == IF s = None THEN <<>>
                 ELSE IF s = <<>> THEN <<Quote, Quote>>
                 ELSE IF \E i \in DOMAIN s : s[i] \in RowSpecial THEN InQuotes(DoubleQuotes(s)) ELSE s

\* SequenceDumper._dump_sequence
_dump_sequence(obj) ==
  <<"(">> \o Join([i \in DOMAIN obj |-> dump_field(obj[i])], ",") \o <<")">>

\* The fields found by _re_tokenize; "sep": a comma was taken with the last token.
parse_fields(s) ==
  LET step(st, ch) ==
        IF st.in = "quoted" THEN IF ch = Quote THEN [st EXCEPT !.in = "quote"]
                                 ELSE [st EXCEPT !.tok = Append(@, ch)]
        ELSE IF st.in = "quote" /\ ch = Quote THEN
               [st EXCEPT !.in = "quoted", !.tok = @ \o <<Quote, Quote>>]
        ELSE IF st.in = "quote" THEN [out |-> Append(st.out, UndoublePairs(st.tok)),
                                 tok |-> <<>>, in |-> "start", sep |-> TRUE]
        ELSE IF st.in = "start" /\ ch = Quote THEN [st EXCEPT !.in = "quoted"]
        ELSE IF st.in = "start" /\ ch = "," THEN [st EXCEPT !.out = Append(@, None), !.sep = TRUE]
        ELSE IF ch = "," THEN [out |-> Append(st.out, st.tok), tok |-> <<>>, in |-> "start",
                          sep |-> TRUE]
        ELSE [st EXCEPT !.tok = Append(@, ch), !.in = "bare"]
      end == FoldLeft(step, [out |-> <<>>, tok |-> <<>>, in |-> "start", sep |-> FALSE], s)
  IN  CASE end.in = "quote" -> [out |-> Append(end.out, UndoublePairs(end.tok)), sep |-> FALSE]
        [] end.in = "bare"  -> [out |-> Append(end.out, end.tok), sep |-> FALSE]
        [] OTHER -> [out |-> end.out, sep |-> end.sep]
parse_record(s) == LET r == parse_fields(s)
                   IN  IF r.sep THEN Append(r.out, None) ELSE r.out

\* RecordLoader.load; the empty record and the one of a null have the same text.
load_record(s) == IF s = <<"(", ")">> THEN <<>>
                  ELSE parse_record(SubSeq(s, 2, Len(s) - 1))

\* TupleBinaryDumper.dump and RecordBinaryLoader.load: the oid and the length, -1
\* for a null, before each field.
dump_record_binary(obj, oids) ==
  [i \in DOMAIN obj |-> [oid |-> oids[i], len |-> IF obj[i] = None THEN -1 ELSE Len(obj[i]),
                         data |-> IF obj[i] = None THEN <<>> ELSE obj[i]]]
load_record_binary(b) == [i \in DOMAIN b |-> IF b[i].len >= 0 THEN b[i].data ELSE None]

-----------------------------------------------------------------------------
(* hstore                                                                   *)

\* A dictionary is the sequence of its items, in order: [k, v].
dump_hstore(items) ==
  Join([i \in DOMAIN items |->
          InQuotes(BackslashEscape(items[i].k)) \o <<"=>">>
            \o (IF items[i].v = None THEN NullWord
                ELSE InQuotes(BackslashEscape(items[i].v)))], ",")

\* The pairs that _re_hstore finds; spaces are allowed around => and the comma.
load_hstore(s) ==
  LET step(st, ch) ==
        IF st.in = "escape" THEN [st EXCEPT !.tok = Append(@, ch), !.in = "quoted"]
        ELSE IF st.in = "quoted" /\ ch = Backslash THEN
               [st EXCEPT !.tok = Append(@, ch), !.in = "escape"]
        ELSE IF st.in = "quoted" /\ ch = Quote THEN
               LET t == BackslashUnescape(st.tok)
               IN  IF st.k = None THEN [st EXCEPT !.k = t, !.tok = <<>>, !.in = "out"]
                   ELSE [out |-> Append(st.out, [k |-> st.k, v |-> t]), k |-> None,
                         tok |-> <<>>, in |-> "out"]
        ELSE IF st.in = "quoted" THEN [st EXCEPT !.tok = Append(@, ch)]
        ELSE IF ch = Quote THEN [st EXCEPT !.in = "quoted"]
        ELSE IF ch = "null" THEN [st EXCEPT !.out = Append(@, [k |-> st.k, v |-> None]), !.k = None]
        ELSE st
  IN  FoldLeft(step, [out |-> <<>>, k |-> None, tok |-> <<>>, in |-> "out"], s).out

-----------------------------------------------------------------------------
(* Properties                                                               *)

\* A list read back from its text, with either delimiter, is the list.
ArrayTextSurvives(l, delimiter) ==
  /\ load_array_text(dump_list(l, delimiter), delimiter) = l
  /\ load_array_text(<<"[", "1", ":", "2", "]", "=">> \o dump_list(l, delimiter), delimiter) = l

\* A list that is dumped in binary comes back; one whose lists differ in length
\* or depth is refused, never written as an array of another shape.
ArrayBinarySurvives(l) ==
  LET b == dump_array_binary(l)
  IN  b.kind = "array" => load_array_binary(b) = l

\* The type of the int that stands for a list holds every int of it.
ListIntCovers(items) ==
  \A bits \in 1..4 : find_int(items) < 2 ^ bits =>
    \A n \in items : -(2 ^ bits) <= n /\ n < 2 ^ bits

\* A tuple comes back from its text (but that of a single null, which is the
\* text of an empty one) and from its binary form.
RecordSurvives(obj, oids) ==
  /\ obj # <<None>> => load_record(_dump_sequence(obj)) = obj
  /\ load_record_binary(dump_record_binary(obj, oids)) = obj

\* A dictionary comes back from its text.
HstoreSurvives(items) == load_hstore(dump_hstore(items)) = items
=============================================================================
