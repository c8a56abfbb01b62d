------------------------------ MODULE MCValues ------------------------------
(***************************************************************************)
(* The conversions of values, queries and connection strings over bounded  *)
(* inputs.  A state is one case: its kind and its inputs; the first states *)
(* only name a group of cases to go through.                               *)
(***************************************************************************)
EXTENDS NumericFormat, TemporalFormat, ScalarFormat, RangeTypes, ContainerFormat,
        QueryTemplate, ConnInfo, AdaptersMap, Transformer

VARIABLE case

\* Sequences of the members of S, from m to n of them.
SeqsFrom(S, m, n) == UNION {[1..k -> S] : k \in m..n}
SeqsUpTo(S, n) == SeqsFrom(S, 0, n)

-----------------------------------------------------------------------------
(* Numbers and times                                                        *)

Words == <<3, 5, 8>>
MinDayDef == -3
MinTooSmallDef == -1500

Times == {t \in [h : 0..DayHours, m : 0..(HourMins - 1), s : 0..(MinuteSecs - 1), us : 0..(US - 1)] :
            t.h = DayHours => t.m + t.s + t.us = 0}

SimpleCases ==
  \/ \E i \in -1100..1100 : case' = <<"int", i>>
  \/ \E s \in 0..1, ds \in SeqsFrom({0, 1, 9}, 1, 4), e \in -5..4 : case' = <<"decimal", Finite(s, ds, e)>>
  \/ \E k \in {"inf", "nan"}, s \in 0..1 : case' = <<"decimal", Special(k, s)>>
  \/ \E t \in Times, off \in {-13, -7, -1, 0, 2, 5, 11} : case' = <<"time", t, off>>
  \/ \E s \in Styles, o \in Orders, y \in -1..4, m \in 1..3, d \in 1..3 :
       case' = <<"date", s, o, y, m, d>>
  \/ \E v \in (MinUs - 200)..(MaxUs + 200), z \in {-2, 0, 1, 3} : case' = <<"timestamp", v, z>>
  \/ \E mo \in -26..26, d \in -3..3, us \in {-3217, -200, -70, -1, 0, 1, 59, 130, 1603} :
       case' = <<"interval", [months |-> mo, days |-> d, micros |-> us]>>

\* The values of the simple types survive a trip to the server and back, in
\* both formats, up to what the other side cannot hold, which is refused.
SimpleSurvive ==
  /\ case[1] = "int"       => IntSurvives(case[2])
  /\ case[1] = "decimal"   => DecimalSurvives(case[2])
  /\ case[1] = "time"      => TimeSurvives(case[2], case[3])
  /\ case[1] = "date"      => DateSurvives(case[2], case[3], case[4], case[5], case[6], 2)
  /\ case[1] = "timestamp" => TimestampAgrees(case[2], case[3])
  /\ case[1] = "interval"  => IntervalAgrees(case[2])

-----------------------------------------------------------------------------
(* Addresses, strings, enums, encodings                                     *)

Labels == {"a", "b", "c"}
Codecs == {<<"U", "8">>, <<"S", "_", "A">>}
PrefixDef == <<2, 4>>
DumpsSet  == [context : {"global", "connection", "cursor"}, f : {"f", "g"}]
JsonTexts == {<<<<"text", "a">>>>, <<<<"text", "a">>, <<"text", "b">>>>}

ScalarCases ==
  \/ \E k \in {"address", "interface", "network"}, v \in 1..2, a \in 1..3 : \E p \in 0..MaxPrefix[v] :
       (k = "address" => p = MaxPrefix[v]) /\ case' = <<"net", Net(k, v, a, p)>>
  \/ \E s \in {"", "t"}, e \in {"ascii", "utf-8", "latin1"} : case' = <<"string", s, e>>
  \/ \E conn, first, now \in BOOLEAN : case' = <<"bytes", conn, first, now>>
  \/ \E ls, ms \in SUBSET Labels, mapping \in SeqsUpTo(Labels \X Labels, 2) :
       (\A i \in DOMAIN mapping : mapping[i][1] \in ms) /\ case' = <<"enum", ls, ms, mapping>>
  \/ \E name \in Codecs : case' = <<"encoding", name>>
  \/ \E before, after \in SeqsUpTo(DumpsSet, 2), f \in {None, "w"} :
       /\ \A i \in DOMAIN before : before[i].context # "cursor"
       /\ case' = <<"dumps", before \o <<[context |-> "make"]>> \o after, f>>
  \/ \E s \in SeqsUpTo({<<"text", "a">>, <<"text", "b">>, Version(1), Version(2)}, 3) :
       case' = <<"document", s>>

ScalarsSurvive ==
  /\ case[1] = "net"      => NetAgrees(case[2])
  /\ case[1] = "string"   => StringSurvives(case[2], case[3])
  /\ case[1] = "bytes"    => BytesQuoted(case[2], case[3], case[4])
  /\ case[1] = "enum"     => EnumSurvives(case[2], case[3], case[4])
  /\ case[1] = "encoding" => EncodingFound(case[2], Codecs)
  /\ case[1] = "dumps"    => JsonScoped(case[2], case[3])
  /\ case[1] = "document" => DocumentSurvives(case[2], JsonTexts)

\* What a value is read back as, or compares to, is what was written.
ValuesSurvive == SimpleSurvive /\ ScalarsSurvive

-----------------------------------------------------------------------------
(* Ranges, arrays, composites, hstore                                       *)

RangesOver(S) == {EmptyRange} \cup
  {NewRange(l, u, f) : l \in S \cup {None}, u \in S \cup {None}, f \in Flags}
Bounds     == SeqsUpTo({"x", Quote, Backslash, ",", "]", "sp"}, 2) \cup {None}
FewBounds  == {<<>>, <<"x">>, <<"]", ",">>, <<Quote>>}

Texts == SeqsUpTo({"x", Quote, Backslash, ",", "}", "sp", "null", ";"}, 2)
Few   == {<<>>, <<"x">>, NullWord, <<",", Quote>>, <<Backslash>>}
Items == {Leaf(s) : s \in Few} \cup {Null}
Lists == {List(s) : s \in SeqsUpTo(Items, 2)}
Deep0 == {Leaf(<<"x">>), Null}
Deep1 == {List(s) : s \in SeqsUpTo(Deep0, 2)} \cup Deep0
Deep2 == {List(s) : s \in SeqsUpTo(Deep1, 2)}

ContainerCases ==
  \/ \E l, u \in Bounds, f \in {<<"[", ")">>, <<"(", "]">>} :
       case' = <<"range", NewRange(l, u, f)>>
  \/ \E r, s \in RangesOver(FewBounds) \ {EmptyRange} : case' = <<"multirange", <<r, s>>>>
  \/ case' = <<"multirange", <<>>>>
  \/ \E r, s \in RangesOver(0..1) : case' = <<"ranges", r, s>>
  \/ \E s \in Texts \ {NullWord}, d \in {",", ";"} :
       case' = <<"array", List(<<Leaf(s), Null>>), d>>
  \/ \E l, m \in Lists, d \in {",", ";"} : case' = <<"array", List(<<l, m>>), d>>
  \/ \E l \in Deep2, d \in {",", ";"} : case' = <<"array", l, d>>
  \/ \E l, m \in Deep2 : case' = <<"array", List(<<l, m>>), ",">>
  \/ \E ns \in SUBSET (-5..5) \ {{}} : case' = <<"ints", ns>>
  \/ \E r \in [1..2 -> Texts \cup {None}] : case' = <<"record", r>>
  \/ \E n \in {1, 3} : \E r \in [1..n -> Few \cup {None}] : case' = <<"record", r>>
  \/ \E k \in Texts, v \in Texts \cup {None} : case' = <<"hstore", <<[k |-> k, v |-> v]>>>>
  \/ \E k, k2 \in Few, v, v2 \in Few \cup {None} :
       case' = <<"hstore", <<[k |-> k, v |-> v], [k |-> k2, v |-> v2]>>>>

\* With ";" as the delimiter an element that starts with a comma is read as
\* two: the parser knows of the delimiter, the one that quotes does not.
NoComma(l) == LET leaves == Leaves(l)
              IN  \A i \in DOMAIN leaves : leaves[i].kind = "leaf" /\ leaves[i].text # <<>>
                                             => leaves[i].text[1] # ","

\* What contains values survives the trip, quotes and escapes of any item
\* included; ranges and empty containers keep their meaning, and compare.
ContainersSurvive ==
  /\ case[1] = "range"      => RangeTextSurvives(case[2])
  /\ case[1] = "multirange" => MultirangeTextSurvives(case[2])
  /\ case[1] = "ranges"     => /\ RangeBinarySurvives(case[2], case[3])
                               /\ RangeOrder(case[2], case[3], RangesOver(0..1), 0..2)
  /\ case[1] = "array"      => /\ case[3] = "," \/ NoComma(case[2])
                                    => ArrayTextSurvives(case[2], case[3])
                               /\ ArrayBinarySurvives(case[2])
  /\ case[1] = "ints"       => ListIntCovers(case[2])
  /\ case[1] = "record"     => RecordSurvives(case[2], [i \in DOMAIN case[2] |-> i])
  /\ case[1] = "hstore"     => HstoreSurvives(case[2])

-----------------------------------------------------------------------------
(* Queries and connection strings                                           *)

QueryTokens   == {Text("a"), Percent, BadPlace("% ")} \cup
            {Place(p[1], p[2]) : p \in {<<None, "s">>, <<None, "b">>, <<7, "s">>, <<7, "b">>, <<8, "s">>}}
Templates == SeqsUpTo(QueryTokens, 3) \cup {Append(q, Lone) : q \in SeqsUpTo(QueryTokens, 2)}
Values    == <<"v", "w">>
Params    == {Positional(SubSeq(Values, 1, n)) : n \in 0..2} \cup
             {Named([k \in ks |-> Values[k - 6]]) : ks \in {{}, {7}, {7, 8}}}
Fields    == {FormatField(p, b[1], b[2]) : p \in {"", "t"},
                b \in {<<"order", 0>>, <<"number", 0>>, <<"number", 1>>, <<"name", 7>>, <<"end", 0>>}}

Options == SeqsUpTo({"a", "'", Backslash, " ", "="}, 3)
FewOptions == {<<>>, <<"a">>, <<"'">>, <<Backslash>>, <<" ", "=">>}
NoOptions == [k \in {} |-> <<>>]
\* A parameter that is not there, or has one of the values vs.
Optional(name, vs) == {NoOptions} \cup {name :> v : v \in vs}
Hosts == {<<"n">>, <<"m">>, <<"ip">>, <<"/socket">>, <<"n", "ip">>, <<"n", "m">>, <<"x", "n">>,
          <<"x">>, <<"", "n">>}
Dns == [n |-> <<"1", "2">>, m |-> <<"3">>, x |-> <<>>]
Infos == {a @@ b @@ p @@ t @@ r : a \in Optional("host", Hosts),
            b \in Optional("hostaddr", {<<"8">>, <<"8", "9">>}),
            p \in Optional("port", {<<"p">>, <<"p", "q">>}),
            t \in Optional("target_session_attrs", {<<"prefer-standby">>, <<"any">>}),
            r \in Optional("load_balance_hosts", {<<"random">>})}
Environments == {a @@ p @@ t : a \in Optional("host", {<<"n", "ip">>}), p \in Optional("port", {<<"p", "q">>}),
                               t \in Optional("target_session_attrs", {<<"prefer-standby">>})}
PlainHost == [name |-> "h", srv |-> FALSE, target |-> ""]
SrvHost   == [name |-> "r", srv |-> TRUE, target |-> "t"]
Answer(p, w, t) == [priority |-> p, weight |-> w, target |-> t, port |-> "9"]
SrvAnswers == {<<>>, <<[priority |-> 1, weight |-> 0, target |-> ".", port |-> "0"]>>} \cup
  {<<Answer(p[1], w[1], "a"), Answer(p[2], w[2], "b"), Answer(p[3], w[3], "d")>> :
     p \in [1..3 -> 1..2], w \in [1..3 -> 0..1]}
Versions == {0, 1, 99} \X {0, 1, 99} \X {0, 1, 99}

QueryCases ==
  \/ \E q \in Templates, v \in Params \cup {None} : case' = <<"query", q, v>>
  \/ \E f \in SeqsUpTo(Fields, 3), n \in 0..2, ks \in {{}, {7}} :
       case' = <<"format", f, SubSeq(Values, 1, n), ks>>
  \/ \E s \in SeqsUpTo({"a", "'", "\\"}, 4), conn, scs, space \in BOOLEAN :
       case' = <<"literal", s, conn, scs, space>>
  \/ \E s \in SeqsFrom(SeqsFrom({"a", "\"", "."}, 1, 3), 1, 2) : case' = <<"identifier", s>>
  \/ \E a \in Options, b \in FewOptions : case' = <<"conninfo", <<<<"host", a>>, <<"user", b>>>>>>
  \/ \E a, b \in FewOptions : case' = <<"conninfo", <<<<"host", a>>, <<"host", b>>>>>>
  \/ \E p \in Infos, env \in Environments : case' = <<"attempts", p, env>>
  \/ \E hosts \in {<<PlainHost, SrvHost>>, <<SrvHost, PlainHost>>}, answers \in SrvAnswers,
        ports \in {<<"1">>, <<"srv">>, <<"1", "2">>, <<"srv", "2">>} :
       case' = <<"srv", hosts, ports, answers>>
  \/ \E fs \in SeqsFrom({"f", "g"}, 1, 3), libpq, build \in 1..3 : case' = <<"features", fs, libpq, build>>
  \/ \E v, w \in Versions : case' = <<"version", v, w>>

\* The server is sent the values where the query has their placeholders, by
\* every kind of cursor and by sql.SQL; a literal, an identifier, a connection
\* string are read as what they were made of; a connection tries the hosts it
\* was given, and in the order of their priorities.
QueriesAgree ==
  /\ case[1] = "query"      => /\ BindingsAgree(case[2], case[3])
                               /\ RawUnchanged(case[2], case[3])
  /\ case[1] = "format"     => FormatAgrees(case[2], case[3], [k \in case[4] |-> "z"])
  /\ case[1] = "literal"    => LiteralRead(case[2], case[3], case[4], case[5])
  /\ case[1] = "identifier" => IdentifierRead(case[2])
  /\ case[1] = "conninfo"   => /\ ConninfoSurvives(case[2])
                               /\ DsnSurvives(case[2])
  /\ case[1] = "attempts"   => AttemptsMatch(case[2], case[3], Dns)
  /\ case[1] = "srv"        => SrvOrdered(case[2], case[3], [h |-> <<>>, r |-> case[4]])
  /\ case[1] = "features"   => FeaturesKept(case[2], [f |-> 2, g |-> 3], case[3], case[4])
  /\ case[1] = "version"    =>
       /\ VersionsOrdered(case[2], case[3])
       /\ PrettyShows(parse_crdb_version(case[2]),
                                  parse_crdb_version(case[3]))

-----------------------------------------------------------------------------
(* Adapters                                                                 *)

Mros == {<<"B">>, <<"A", "B">>}
Info(n, oid, arr, r, sub) == [name |-> n, oid |-> oid, array_oid |-> arr, regtype |-> r, subtype |-> sub]
TypeInfos == {Info("x", "1", "2", "y", None), Info("y", "3", None, "y", None), Info("r", "4", "5", "x", "1")}
Dumpers == {[format |-> "text", oid |-> "2", v |-> <<"d", "d">>], [format |-> "binary", oid |-> None, v |-> <<"e", "e">>]}
OpsOn(m) == {Derived(m), LooksUp(m, <<"A", "B">>, AUTO)} \cup
            {Registers(m, k, d) : k \in {Key("B"), Fqn("A"), None}, d \in Dumpers} \cup
            {Adds(m, i) : i \in TypeInfos}
Ops(n) == UNION {OpsOn(m) : m \in 1..n}
\* Maps are numbered as they are made: the first, then those derived.
MapsMade(ops) == 1 + Len(SelectSeq(ops, LAMBDA o : o.op = "derive"))
Possible(ops) == \A i \in DOMAIN ops : ops[i].map <= MapsMade(SubSeq(ops, 1, i - 1))

Atoms == {Scalar("int", i) : i \in 1..4} \cup {Scalar(k, z) : k \in {"time", "datetime"}, z \in 0..1}
         \cup {Scalar(k, 0) : k \in {"date", "str", "Int2", "IPv4Address", "IPv6Address"}}
RangeObjs == {Container("Range", s) : s \in SeqsUpTo(Atoms, 1)}
ListObjs  == {Container("list", s) : s \in SeqsUpTo(Atoms, 2)}
DeepObjs  == {Container("list", <<x>>) : x \in RangeObjs} \cup
             {Container("list", <<Container("list", <<x>>), Container("list", <<y>>)>>) :
                x, y \in Atoms}
ShortObjs == Atoms \cup RangeObjs \cup {Container("list", s) : s \in SeqsUpTo(Atoms, 1)} \cup
             {Container("list", <<x>>) : x \in RangeObjs}

AdapterCases ==
  \/ \E ops \in UNION {[1..n -> Ops(3)] : n \in 0..2} : Possible(ops) /\ case' = <<"maps", ops>>
  \/ \E o1, o2, o3 \in Ops(2) :
       Possible(<<o1, Derived(1), o2, o3>>) /\ case' = <<"maps", <<o1, Derived(1), o2, o3>>>>
  \/ case' = <<"dumpers", DefaultDumpers>>
  \/ case' = <<"dumpers", CrdbDumpers>>
  \/ \E o1, o2 \in ShortObjs, f \in {"text", "binary"} :
       o1.cls = o2.cls /\ case' = <<"cache", <<o1, o2>>, f>>
  \/ \E o \in ListObjs, o2 \in DeepObjs, f \in {"text", "binary"} :
       o2.items[1].cls # "list" /\ case' = <<"cache", <<o, o2>>, f>>
  \/ \E o \in ListObjs \cup DeepObjs, f \in {"text", "binary"} : case' = <<"list", o, f>>
  \/ \E p \in {1, 2, 1000}, s \in {-1000, -2, -1, 0, 1, 2, 1000} : case' = <<"typmod", p, s>>
  \/ \E names \in SeqsUpTo({"a", "b", "c"}, 3) : case' = <<"row", names>>
  \/ \E quoted, builtin, arr \in BOOLEAN, has \in {{}, {"m"}} :
       case' = <<"typed", quoted, [builtin |-> builtin, name |-> "m", regtype |-> "s.m"], arr, has>>

\* What a map of adapters is told is known to it and to the maps derived from
\* it later, and to no other; what a transformer remembers of an object never
\* changes how a later one is dumped; rows keep their columns.
AdaptersAgree ==
  /\ case[1] = "maps"    => MapsIndependent(case[2], Mros, {"x", "y", "r"}, {"1", "2"})
  /\ case[1] = "dumpers" => ByOidTakesWhatLoads(case[2])
  /\ case[1] = "cache"   => CacheTransparent(case[2], case[3])
  /\ case[1] = "list"    => ListHoldsItems(case[2], case[3])
  /\ case[1] = "typmod"  => TypmodRead(case[2], case[3])
  /\ case[1] = "row"     => RowsKeep(case[2], [i \in DOMAIN case[2] |-> i])
  /\ case[1] = "typed"   => LiteralTyped(case[2], case[3], case[4], case[5])

-----------------------------------------------------------------------------

Groups == {"simple", "scalars", "containers", "queries", "adapters"}

Init == \E g \in Groups : case = <<"group", g>>

Chosen(g) == case = <<"group", g>>

Next == \/ Chosen("simple") /\ SimpleCases
        \/ Chosen("scalars") /\ ScalarCases
        \/ Chosen("containers") /\ ContainerCases
        \/ Chosen("queries") /\ QueryCases
        \/ Chosen("adapters") /\ AdapterCases
        \/ case[1] # "group" /\ UNCHANGED case

Spec == Init /\ [][Next]_case
=============================================================================
