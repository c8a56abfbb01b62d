---------------------------- MODULE QueryTemplate ----------------------------
(***************************************************************************)
(* Queries with placeholders (gaussdb._queries, RawCursor), their          *)
(* composition (gaussdb.sql) and the literals and the identifiers merged   *)
(* into them (gaussdb.adapt).                                              *)
(*                                                                         *)
(* A query is a sequence of tokens, the ones the regular expression of     *)
(* placeholders finds and the text between them: "s", "b" and "t" are the  *)
(* letters of formats.  A parameter is a model value; an error, a string.  *)
(***************************************************************************)
EXTENDS Values

Text(x)             == [kind |-> "text", x |-> x]
Percent             == [kind |-> "%%"]
Lone                == [kind |-> "%"]       \* at the end, or before a new line
BadPlace(why)            == [kind |-> "bad", why |-> why]   \* "%(", "% ", "%z"
Place(name, fmt)    == [kind |-> "ph", name |-> name, fmt |-> fmt]
IsPlace(t)          == t.kind = "ph"

-----------------------------------------------------------------------------
(* Splitting                                                                *)

Part(pre, name, index, fmt) == [pre |-> pre, name |-> name, index |-> index, fmt |-> fmt]

\* _split_query: the parts, each with the text before its placeholder and the
\* index or the name in it, and the text at the end; or the first error.
split_query(query, collapse) ==
  LET Step(acc, t) ==
        IF acc.error # None THEN acc
        ELSE IF t.kind \in {"text", "%"} THEN [acc EXCEPT !.pre = Append(@, t)]
        ELSE IF t.kind = "%%" THEN
               [acc EXCEPT !.pre = Append(@, IF collapse THEN Text("%") ELSE t)]
        ELSE IF t.kind = "bad" THEN [acc EXCEPT !.error = t.why]
        ELSE
               IF acc.parts # <<>> /\ (acc.parts[1].name = None) # (t.name = None)
               THEN [acc EXCEPT !.error = "mixed"]
               ELSE [acc EXCEPT !.pre = <<>>, !.parts =
                       Append(@, Part(acc.pre, t.name, Len(@), t.fmt))]
      end == FoldLeft(Step, [parts |-> <<>>, pre |-> <<>>, error |-> None], query)
  IN  [parts |-> Append(end.parts, Part(end.pre, None, 0, "s")), error |-> end.error]

-----------------------------------------------------------------------------
(* Parameters                                                               *)

\* Parameters are a sequence of values or a mapping of names, a function.
Positional(params) == [mapping |-> FALSE, p |-> params]
Named(params)      == [mapping |-> TRUE, p |-> params]

\* validate_and_reorder_params: the values in the order of the query, or an error.
Wrong(why)  == [error |-> why, values |-> <<>>]
Right(vals) == [error |-> None, values |-> vals]
Reorder(parts, vars, order) ==
  LET n == Len(parts) - 1
      positional == n > 0 /\ parts[1].name = None
  IN  IF ~vars.mapping
      THEN IF Len(vars.p) # n THEN Wrong("wrong number")
           ELSE IF n > 0 /\ ~positional THEN Wrong("mapping required")
           ELSE Right(vars.p)
      ELSE IF positional /\ DOMAIN vars.p # {} THEN Wrong("sequence required")
           ELSE IF \E x \in Range(order) : x \notin DOMAIN vars.p THEN Wrong("missing")
           ELSE Right([i \in DOMAIN order |-> vars.p[order[i]]])

\* The names of the parts, each at its first place.
Names(parts) ==
  FoldLeft(LAMBDA seen, p : IF p.name \in Range(seen) THEN seen ELSE Append(seen, p.name),
           <<>>, Front(parts))
NamedParts(parts) == Len(parts) > 1 /\ parts[1].name # None

Flat(parts, Ph(_)) ==
  FlattenSeq([i \in DOMAIN parts |->
    IF i < Len(parts) THEN Append(parts[i].pre, Ph(i)) ELSE parts[i].pre])
Dollar(n) == [kind |-> "$", n |-> n]

\* _query2pg_nocache: placeholders become $n, a repeated name its first number.
Numbered(s) ==
  LET named == NamedParts(s.parts)
      order == IF named THEN Names(s.parts) ELSE <<>>
      Number(i) == IF named THEN SelectInSeq(order, LAMBDA x : x = s.parts[i].name)
                   ELSE s.parts[i].index + 1
      twoFormats == named /\ \E i, j \in 1 .. Len(s.parts) - 1 :
                      s.parts[i].name = s.parts[j].name /\ s.parts[i].fmt # s.parts[j].fmt
  IN  [error |-> IF s.error # None THEN s.error
                 ELSE IF twoFormats THEN "two formats" ELSE None,
       parts |-> s.parts, order |-> order,
       query |-> Flat(s.parts, LAMBDA i : Dollar(Number(i)))]
query2pg(query) == Numbered(split_query(query, TRUE))

\* _query2pg_client_nocache: the template of client-side binding.
Template(s) ==
  [error |-> s.error, parts |-> s.parts,
   order |-> IF NamedParts(s.parts)
             THEN [i \in 1 .. Len(s.parts) - 1 |-> s.parts[i].name] ELSE <<>>,
   query |-> Flat(s.parts, LAMBDA i : [kind |-> "%s"])]
query2pg_client(query) == Template(split_query(query, FALSE))

\* GaussDBQuery.convert, dump: what is sent, the query and its parameters.
Sent(error, query, params) == [error |-> error, query |-> query, params |-> params]
Bound(q, vars) ==
  LET p == Reorder(q.parts, vars, q.order)
  IN  IF q.error # None THEN Sent(q.error, <<>>, <<>>) ELSE Sent(p.error, q.query, p.values)
convert(query, vars) ==
  IF vars = None THEN Sent(None, query, <<>>) ELSE Bound(query2pg(query), vars)

\* template % params of Python: "%%" is a percent, a lone "%" an error.
Format(template, params) ==
  LET Step(acc, t) ==
        IF t.kind = "%s"
        THEN [n |-> acc.n + 1, out |-> Append(acc.out, Text(params[acc.n + 1]))]
        ELSE [acc EXCEPT !.out = Append(@, IF t.kind = "%%" THEN Text("%") ELSE t)]
  IN  IF \E i \in DOMAIN template : template[i].kind = "%"
      THEN Sent("bad template", <<>>, <<>>)
      ELSE Sent(None, FoldLeft(Step, [n |-> 0, out |-> <<>>], template).out, <<>>)
\* GaussDBClientQuery.convert, dump
convert_client(query, vars) ==
  LET Merged(bound) == IF bound.error # None THEN bound ELSE Format(bound.query, bound.params)
  IN  IF vars = None THEN Sent(None, query, <<>>) ELSE Merged(Bound(query2pg_client(query), vars))

\* GaussDBRawQuery.convert, dump: the query as it is, without named placeholders.
convert_raw(query, vars) ==
  IF \E i \in DOMAIN query : \/ IsPlace(query[i]) /\ query[i].name # None
                             \/ query[i] = BadPlace("%(")
  THEN Sent("named", <<>>, <<>>)
  ELSE IF vars # None /\ vars.mapping THEN Sent("sequence required", <<>>, <<>>)
  ELSE Sent(None, query, IF vars = None THEN <<>> ELSE vars.p)

\* What the server executes: each $n stands for the n-th parameter.
Executed(sent) == [i \in DOMAIN sent.query |->
  IF sent.query[i].kind = "$" THEN Text(sent.params[sent.query[i].n]) ELSE sent.query[i]]

-----------------------------------------------------------------------------
(* gaussdb.sql                                                              *)

\* A field of a format string: the text before it, whether it is in order ("{}"), by
\* number, by name, or only the text at the end, and its number or name.
FormatField(pre, by, x) == [pre |-> pre, by |-> by, x |-> x]

\* SQL.format: the composed objects, or an error; None of autonum is -1.
SqlFormat(fields, args, kwargs) ==
  LET Put(acc, ok, v, auto) ==
        IF ok THEN [acc EXCEPT !.rv = Append(@, v), !.autonum = auto]
        ELSE [acc EXCEPT !.error = "missing"]
      Step(acc0, f) ==
        LET acc == IF f.pre = "" THEN acc0 ELSE [acc0 EXCEPT !.rv = Append(@, Text(f.pre))]
        IN  IF acc.error # None \/ f.by = "end" THEN acc
            ELSE IF f.by = "number" THEN
                   IF acc.autonum > 0 THEN [acc EXCEPT !.error = "switch"]
                   ELSE Put(acc, f.x < Len(args), args[f.x + 1], -1)
            ELSE IF f.by = "order" THEN
                   IF acc.autonum = -1 THEN [acc EXCEPT !.error = "switch"]
                   ELSE Put(acc, acc.autonum < Len(args), args[acc.autonum + 1],
                            acc.autonum + 1)
            ELSE Put(acc, f.x \in DOMAIN kwargs, kwargs[f.x], acc.autonum)
  IN  FoldLeft(Step, [rv |-> <<>>, autonum |-> 0, error |-> None], fields)
\* SQL.join, Composed.join
SqlJoin(joiner, seq) ==
  IF seq = <<>> THEN <<>> ELSE Tail(FlattenSeq([i \in DOMAIN seq |-> <<joiner, seq[i]>>]))

-----------------------------------------------------------------------------
(* Literals and identifiers: characters are strings of length one.         *)

Doubled(s, c) == FlattenSeq([i \in DOMAIN s |-> IF s[i] = c THEN <<c, c>> ELSE <<s[i]>>])
HasChar(s, c)    == \E i \in DOMAIN s : s[i] = c

\* libpq: escape_string doubles the backslashes when it believes that
\* standard_conforming_strings is off.
escape_string(s, scs) == IF scs THEN Doubled(s, "'") ELSE Doubled(Doubled(s, "'"), "\\")
\* Mutant of quote: the backslashes are left as libpq made them.
quote_Once(s, conn, libpq) ==
  IF conn \/ ~HasChar(s, "\\") THEN [escape |-> HasChar(s, "\\"), body |-> Doubled(Doubled(s, "'"), "\\")]
  ELSE [escape |-> TRUE, body |-> escape_string(s, libpq)]
\* Dumper.quote: escape_literal with a connection, escape_string without.
quote(s, conn, libpq) ==
  IF conn THEN [escape |-> HasChar(s, "\\"), body |-> Doubled(Doubled(s, "'"), "\\")]
  ELSE LET out == escape_string(s, libpq)
       IN  IF ~HasChar(out, "\\") THEN [escape |-> FALSE, body |-> out]
           ELSE [escape |-> TRUE, body |-> IF libpq THEN Doubled(out, "\\") ELSE out]
\* Identifier.as_bytes
quote_identifier(strings) ==
  FlattenSeq([i \in DOMAIN strings |->
    (IF i = 1 THEN <<>> ELSE <<".">>) \o <<"\"">> \o Doubled(strings[i], "\"") \o <<"\"">>])

\* How the server reads what is between quotes: two of c are one; a backslash
\* takes the next character in a literal with escapes.
Unquoted(s, doubled) ==
  LET Step(acc, c) == IF acc.pending = c /\ c \in doubled
                      THEN [out |-> acc.out, pending |-> None]
                      ELSE [out |-> Append(acc.out, c), pending |-> c]
  IN  FoldLeft(Step, [out |-> <<>>, pending |-> None], s).out
ServerLiteral(q, scs) == Unquoted(q.body, {"'"} \cup IF q.escape \/ ~scs THEN {"\\"} ELSE {})
\* The names of an identifier: a dot outside the quotes separates them.
ServerIdentifier(s) ==
  LET Step(acc, c) ==
        CASE c = "\""            -> [acc EXCEPT !.open = ~@, !.name = Append(@, c)]
          [] c = "." /\ ~acc.open -> [acc EXCEPT !.names = Append(@, acc.name), !.name = <<>>]
          [] OTHER               -> [acc EXCEPT !.name = Append(@, c)]
      end == FoldLeft(Step, [names |-> <<>>, name |-> <<>>, open |-> FALSE], s)
      Bare(n) == Unquoted(SubSeq(n, 2, Len(n) - 1), {"\""})
  IN  [i \in 1 .. Len(end.names) + 1 |-> Bare(Append(end.names, end.name)[i])]

-----------------------------------------------------------------------------
(* Properties                                                               *)

\* What a query means: the text, with the values in the place of their
\* placeholders; or that it is wrong.
Meaning(query, vars) ==
  LET ph == SelectSeq(query, IsPlace)
      Index(i) == Cardinality({j \in 1 .. i : IsPlace(query[j])})
  IN  IF vars = None THEN query
      ELSE IF \/ \E i \in DOMAIN query : query[i].kind = "bad"
              \/ Cardinality({p.name = None : p \in Range(ph)}) > 1
              \/ ~vars.mapping /\ (Len(ph) # Len(vars.p) \/ \E p \in Range(ph) : p.name # None)
              \/ vars.mapping /\ \E p \in Range(ph) : p.name \notin DOMAIN vars.p \cup {None}
              \/ vars.mapping /\ DOMAIN vars.p # {} /\ \E p \in Range(ph) : p.name = None
           THEN None
      ELSE [i \in DOMAIN query |->
              CASE query[i].kind = "%%" -> Text("%")
                [] IsPlace(query[i]) -> Text(IF vars.mapping THEN vars.p[query[i].name]
                                             ELSE vars.p[Index(i)])
                [] OTHER -> query[i]]

\* The server executes what the query means, bound by the server or merged by the
\* client, and both refuse the same queries; but a name may not have two formats
\* for the server, a lone "%" is not a template of Python, and positional
\* placeholders with an empty mapping are sent without their parameters.
BindingsAgree(query, vars) ==
  LET lone   == \E i \in DOMAIN query : query[i] = Lone
      empty  == vars # None /\ vars.mapping /\ DOMAIN vars.p = {}
                /\ \E i \in DOMAIN query : IsPlace(query[i])
      Agree(server, client, means) ==
        /\ server.error = None  => Executed(server) = means
        /\ client.error = None  => client.query = means
        /\ means = None => server.error # None /\ client.error # None
        /\ server.error \notin {None, "two formats"} => means = None
        /\ vars = None \/ ~lone => (client.error # None => means = None)
  IN  empty \/ Agree(convert(query, vars), convert_client(query, vars), Meaning(query, vars))

\* A raw query is never changed, and takes its parameters in their order.
RawUnchanged(query, vars) ==
  LET sent == convert_raw(query, vars)
  IN  sent.error = None => /\ sent.query = query
                           /\ vars # None => ~vars.mapping /\ sent.params = vars.p

\* format() takes the arguments as str.format() does: in their order, by their
\* number or their name, but never both in their order and by their number.
FormatAgrees(fields, args, kwargs) ==
  LET r       == SqlFormat(fields, args, kwargs)
      auto    == {i \in DOMAIN fields : fields[i].by = "order"}
      manual  == {i \in DOMAIN fields : fields[i].by = "number"}
      Arg(i)  == CASE i \in auto   -> Cardinality({j \in auto : j <= i})
                   [] i \in manual -> fields[i].x + 1
                   [] OTHER -> 0
      Value(i) == IF Arg(i) > 0 THEN args[Arg(i)] ELSE kwargs[fields[i].x]
      named   == {i \in DOMAIN fields : fields[i].by = "name"}
      wrong   == \/ auto # {} /\ manual # {}
                 \/ \E i \in auto \cup manual : Arg(i) > Len(args)
                 \/ \E i \in named : fields[i].x \notin DOMAIN kwargs
  IN  /\ (r.error # None) = wrong
      /\ ~wrong => r.rv = FlattenSeq([i \in DOMAIN fields |->
                            (IF fields[i].pre = "" THEN <<>> ELSE <<Text(fields[i].pre)>>) \o
                            (IF fields[i].by = "end" THEN <<>> ELSE <<Value(i)>>)])

\* A literal is read by the server as the text it was made from, whatever the
\* setting of the connection and the one libpq remembers of another one.
LiteralRead(s, conn, libpq, scs) ==
  ServerLiteral(quote(s, conn, libpq), scs) = s
IdentifierRead(strings) == ServerIdentifier(quote_identifier(strings)) = strings
=============================================================================
