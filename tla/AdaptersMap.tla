----------------------------- MODULE AdaptersMap -----------------------------
(***************************************************************************)
(* The maps of adapters (gaussdb._adapters_map) and the registry of types  *)
(* (gaussdb._typeinfo), with the dictionaries they share until one of them *)
(* writes; and the adapters that are registered by default (the functions  *)
(* register_default_adapters).                                             *)
(*                                                                         *)
(* The state of the maps of a program is a record s: heap, the             *)
(* dictionaries, and maps: for each map and each of its tables, which      *)
(* dictionary it reads and whether it owns it.  A key is a pair: a class,  *)
(* an oid or a name of a type, and what it is a key for.                    *)
(***************************************************************************)
EXTENDS Values

Formats == {"text", "binary"}
\* _dumpers by format and for AUTO, _dumpers_by_oid, _loaders, the types.
AUTO     == <<"class", "auto">>
Class(f) == <<"class", f>>
Oid(f)   == <<"oid", f>>
Loader(f) == <<"loader", f>>
Types    == <<"types", "">>
TableSeq == <<AUTO, Class("text"), Class("binary"), Oid("text"), Oid("binary"),
              Loader("text"), Loader("binary"), Types>>
Tables   == Range(TableSeq)
Key(x)     == <<x, "">>
Fqn(x)     == <<x, "name">>
RangeOf(x) == <<x, "range">>

-----------------------------------------------------------------------------
(* Copy on write                                                            *)

\* AdaptersMap(), TypesRegistry() without a template.
Root == [heap |-> [i \in DOMAIN TableSeq |-> <<>>],
         maps |-> <<[ref |-> [t \in Tables |-> SelectInSeq(TableSeq, LAMBDA x : x = t)],
                     own |-> [t \in Tables |-> TRUE]]>>]

\* AdaptersMap(template), TypesRegistry(template): the dictionaries are shared, and
\* nobody owns them any more.
Derive(s, m) ==
  LET shared == [ref |-> s.maps[m].ref, own |-> [t \in Tables |-> FALSE]]
  IN  [s EXCEPT !.maps = Append([@ EXCEPT ![m] = shared], shared)]

Dict(s, m, t) == s.heap[s.maps[m].ref[t]]
\* A write to a table: to a copy if the map does not own the dictionary.
Write(s, m, t, key, value) ==
  IF s.maps[m].own[t] THEN [s EXCEPT !.heap[s.maps[m].ref[t]] = key :> value @@ @]
  ELSE [s EXCEPT !.heap = Append(@, key :> value @@ Dict(s, m, t)),
                 !.maps[m].ref[t] = Len(s.heap) + 1, !.maps[m].own[t] = TRUE]

\* register_dumper: under the class, for its format and for AUTO; under the oid.
register_dumper(s, m, key, dumper) ==
  LET ByClass(x) == IF key = None THEN x
                    ELSE Write(Write(x, m, Class(dumper.format), key, dumper), m, AUTO, key, dumper)
      ByOid(x)   == IF dumper.oid = None THEN x
                    ELSE Write(x, m, Oid(dumper.format), Key(dumper.oid), dumper)
  IN  ByOid(ByClass(s))

\* TypesRegistry.add, _added: under the oids and the name; under the other name of
\* the type only if that is free; a range under its subtype too.
AddType(s, m, info) ==
  LET Put(x, k) == IF k[1] = None THEN x ELSE Write(x, m, Types, k, info)
      named == Put(Put(Put(s, Key(info.oid)), Key(info.array_oid)), Key(info.name))
      free  == Key(info.regtype) \notin DOMAIN Dict(named, m, Types)
  IN  Put(IF free THEN Put(named, Key(info.regtype)) ELSE named, RangeOf(info.subtype))
\* TypesRegistry.__getitem__, get, get_by_subtype
Lookup(s, m, t, k) == IF k \in DOMAIN Dict(s, m, t) THEN Dict(s, m, t)[k] ELSE None
GetType(s, m, k) == Lookup(s, m, Types, Key(k))
GetBySubtype(s, m, k) ==
  IF GetType(s, m, k) = None THEN None ELSE Lookup(s, m, Types, RangeOf(GetType(s, m, k).oid))

\* register_loader: on an oid, or on the name of a type of this map.
register_loader(s, m, oid, loader) ==
  LET o == IF GetType(s, m, oid) # None THEN GetType(s, m, oid).oid ELSE oid
  IN  Write(s, m, Loader(loader.format), Key(o), loader)
\* register_array: loaders and dumpers of the array of a type.
register_array(s, m, info) ==
  LET Loads(x, f) == register_loader(x, m, info.array_oid, [format |-> f, of |-> info.oid])
      Dumps(x, f) == register_dumper(x, m, None, [format |-> f, oid |-> info.array_oid,
                                                   v |-> <<"list", info.oid>>])
  IN  Dumps(Dumps(Loads(Loads(s, "text"), "binary"), "text"), "binary")
\* TypeInfo.register
RegisterType(s, m, info) ==
  IF info.array_oid = None THEN AddType(s, m, info)
  ELSE register_array(AddType(s, m, info), m, info)

\* AdaptersMap.get_dumper: the first class of mro with a dumper, by class or by name; a name
\* found is replaced by its class in the dictionary, shared or not.
map_get_dumper(s, m, mro, table) ==
  LET d    == Dict(s, m, table)
      i    == SelectInSeq(mro, LAMBDA c : Key(c) \in DOMAIN d \/ Fqn(c) \in DOMAIN d)
  IN  IF i = 0 THEN [dumper |-> None, s |-> s]
      ELSE IF Key(mro[i]) \in DOMAIN d THEN [dumper |-> d[Key(mro[i])], s |-> s]
      ELSE [dumper |-> d[Fqn(mro[i])],
            s |-> [s EXCEPT !.heap[s.maps[m].ref[table]] =
                     Restrict(Key(mro[i]) :> d[Fqn(mro[i])] @@ d,
                              (DOMAIN d \cup {Key(mro[i])}) \ {Fqn(mro[i])})]]

-----------------------------------------------------------------------------
(* What a program does to its maps, and what they should answer             *)

Derived(m)             == [op |-> "derive", map |-> m]
Registers(m, key, d)   == [op |-> "dumper", map |-> m, key |-> key, v |-> d]
Adds(m, info)          == [op |-> "type", map |-> m, v |-> info]
LooksUp(m, mro, table) == [op |-> "lookup", map |-> m, mro |-> mro, table |-> table]

Apply(s, o) ==
  CASE o.op = "derive" -> Derive(s, o.map)
    [] o.op = "dumper" -> register_dumper(s, o.map, o.key, o.v)
    [] o.op = "type"   -> RegisterType(s, o.map, o.v)
    [] o.op = "lookup" -> map_get_dumper(s, o.map, o.mro, o.table).s
AfterAll(ops) == FoldLeft(Apply, Root, ops)

\* Each map as the sequence of its registrations, the ones of its template before
\* it was made included.
Histories(ops) ==
  FoldLeft(LAMBDA h, o : IF o.op = "derive" THEN Append(h, h[o.map])
                         ELSE [h EXCEPT ![o.map] = Append(@, o)], << <<>> >>, ops)
LastIn(h, Test(_)) == LET i == SelectLastInSeq(h, Test) IN IF i = 0 THEN None ELSE h[i].v
DumpsClass(o, c, table) == /\ o.op = "dumper"
                           /\ o.key \in {Key(c), Fqn(c)}
                           /\ table \in {AUTO, Class(o.v.format)}
\* The dumper registered last on the nearest class that has one.
Expected(h, mro, table) ==
  LET i == SelectInSeq(mro, LAMBDA c : \E k \in DOMAIN h : DumpsClass(h[k], c, table))
  IN  IF i = 0 THEN None ELSE LastIn(h, LAMBDA o : DumpsClass(o, mro[i], table))
\* The type added last with a name; else the first whose other name that is.
ExpectedType(h, name) ==
  LET first == SelectInSeq(h, LAMBDA o : o.op = "type" /\ o.v.regtype = name)
      named == LastIn(h, LAMBDA o : o.op = "type" /\ o.v.name = name)
  IN  IF named # None THEN named ELSE IF first = 0 THEN None ELSE h[first].v
\* The dumper of an oid is the last registered, the array's included.
OfOid(h, oid, f) ==
  LET i == SelectLastInSeq(h, LAMBDA o :
             \/ o.op = "dumper" /\ o.v.oid = oid /\ o.v.format = f
             \/ o.op = "type" /\ o.v.array_oid = oid)
  IN  IF i = 0 THEN None
      ELSE IF h[i].op = "dumper" THEN h[i].v.v ELSE <<"list", h[i].v.oid>>
\* A class is registered by name before it is by itself, and before it is looked up
\* in any map.
NamesFirst(ops) ==
  \A i, j \in DOMAIN ops :
    i < j /\ ops[j].op = "dumper" /\ ops[j].key # None /\ ops[j].key[2] = "name" =>
      \/ ops[i].op \in {"derive", "type"}
      \/ ops[i].op = "dumper" /\ ops[i].key # Key(ops[j].key[1])
      \/ ops[i].op = "lookup" /\ ~Contains(ops[i].mro, ops[j].key[1])

-----------------------------------------------------------------------------
(* The default adapters: dumpers in the order of their registration, with   *)
(* the class, the format, the oid, and the classes of what it can dump.     *)

DumperRow(cls, f, oid, takes) == <<[cls |-> cls, format |-> f, oid |-> oid, takes |-> takes]>>
TextBinary(cls, oid, takes) == DumperRow(cls, "text", oid, takes) \o DumperRow(cls, "binary", oid, takes)
BinaryText(cls, oid, takes) == DumperRow(cls, "binary", oid, takes) \o DumperRow(cls, "text", oid, takes)
Each(seq, F(_)) == FlattenSeq([i \in DOMAIN seq |-> F(seq[i])])

NumpyDumpers ==
  LET Rows(f) == Each(<< <<"numpy.int16", "int2">>, <<"numpy.int32", "int4">>,
                         <<"numpy.int64", "int8">>, <<"numpy.bool", "bool">>,
                         <<"numpy.uint64", "numeric">>, <<"numpy.float32", "float4">>,
                         <<"numpy.float64", "float8">> >>,
                      LAMBDA r : DumperRow(r[1], f, r[2], {r[1]} \cup IF r[2] \in {"int2", "int4", "int8", "numeric"}
                                                            THEN {"int"} ELSE {"float", "bool"}))
  IN  Rows("text") \o Rows("binary")
NumericDumpers ==
  TextBinary("int", None, {"int"}) \o TextBinary("float", "float8", {"float"}) \o
  TextBinary("Int2", "int2", {"int"}) \o TextBinary("Int4", "int4", {"int"}) \o
  TextBinary("Int8", "int8", {"int"}) \o DumperRow("IntNumeric", "text", "numeric", {"int"}) \o
  TextBinary("Oid", "oid", {"int"}) \o BinaryText("Decimal", "numeric", {"Decimal"}) \o
  BinaryText(None, "numeric", {"int", "Decimal"}) \o
  TextBinary("Float4", "float4", {"float"}) \o TextBinary("Float8", "float8", {"float"})
DatetimeDumpers ==
  TextBinary("date", "date", {"date"}) \o
  TextBinary("time", "timetz", {"time with zone"}) \o TextBinary("time", "time", {"time"}) \o
  TextBinary("datetime", "timestamp", {"datetime"}) \o
  TextBinary("datetime", "timestamptz", {"datetime with zone"}) \o
  TextBinary("timedelta", "interval", {"timedelta"})
StringDumpers ==
  Each(<<"name", "varchar", "text">>, LAMBDA o : DumperRow("str", "binary", o, {"str"})) \o
  Each(<<"name", "varchar", "text">>, LAMBDA o : DumperRow("str", "text", o, {"str"})) \o
  DumperRow("str", "text", None, {"str"}) \o TextBinary("bytes", "bytea", {"bytes"})
NetDumpers ==
  DumperRow("IPv4Address", "text", "inet", {"IPv4Address", "IPv4Interface"}) \o
  DumperRow("IPv4Interface", "text", "inet", {"IPv4Address", "IPv4Interface"}) \o
  DumperRow("IPv4Network", "text", "cidr", {"IPv4Network"}) \o
  DumperRow("IPv4Address", "binary", "inet", {"IPv4Address"}) \o
  DumperRow("IPv4Interface", "binary", "inet", {"IPv4Interface"}) \o
  DumperRow("IPv4Network", "binary", "cidr", {"IPv4Network"}) \o
  DumperRow(None, "binary", "inet", {"IPv4Address", "IPv4Interface"})
Documents == {"Json", "Jsonb", "document"}
JsonDumpers ==
  BinaryText("Json", "json", Documents) \o BinaryText("Jsonb", "jsonb", Documents)
BoolDumpers  == TextBinary("bool", "bool", {"bool"})
UuidDumpers  == TextBinary("UUID", "uuid", {"UUID"})
RangeDumpers ==
  LET Rows(f) == Each(<<"int4range", "int8range", "numrange", "daterange", "tsrange", "tstzrange">>,
                      LAMBDA o : DumperRow(o, f, o, {"Range", o}))
  IN  BinaryText("Range", None, {"Range"}) \o Rows("text") \o Rows("binary")
MultirangeDumpers ==
  LET Rows(f) == Each(<<"int4multirange", "nummultirange", "datemultirange">>,
                      LAMBDA o : DumperRow(o, f, o, {"Multirange", o}))
  IN  BinaryText("Multirange", None, {"Multirange"}) \o Rows("text") \o Rows("binary")
EnumDumpers      == BinaryText("Enum", None, {"Enum"})
ListDumpers      == BinaryText("list", None, {"list"})
CompositeDumpers == DumperRow("tuple", "text", None, {"tuple"})
Dbapi20Dumpers   == TextBinary("Binary", "bytea", {"bytes", "Binary"})
NoneDumpers      == DumperRow("NoneType", "text", None, {"NoneType"})

\* register_default_adapters, register_dbapi20_adapters
DefaultDumpers ==
  ListDumpers \o CompositeDumpers \o DatetimeDumpers \o EnumDumpers \o JsonDumpers \o
  MultirangeDumpers \o NetDumpers \o NoneDumpers \o RangeDumpers \o StringDumpers \o
  UuidDumpers \o NumpyDumpers \o BoolDumpers \o NumericDumpers \o Dbapi20Dumpers
\* register_crdb_adapters
CrdbDumpers ==
  ListDumpers \o CompositeDumpers \o DatetimeDumpers \o StringDumpers \o UuidDumpers \o
  NumpyDumpers \o BoolDumpers \o NumericDumpers \o DumperRow("NoneType", "text", "text", {"NoneType"}) \o
  BinaryText("Enum", "text", {"Enum", "str"}) \o DumperRow("str", "text", "text", {"str"}) \o
  DumperRow("str", "binary", "text", {"str"}) \o
  BinaryText("Json", "jsonb", Documents) \o BinaryText("Jsonb", "jsonb", Documents) \o
  SelectSeq(NetDumpers, LAMBDA r : r.oid = "inet") \o Dbapi20Dumpers

\* What the default loaders make of a value of each oid, in either format.
Loaded == [int2 |-> {"int"}, int4 |-> {"int"}, int8 |-> {"int"}, oid |-> {"int"},
          float4 |-> {"float"}, float8 |-> {"float"}, numeric |-> {"Decimal"},
          bool |-> {"bool"}, uuid |-> {"UUID"}, date |-> {"date"}, time |-> {"time"},
          timetz |-> {"time with zone"}, timestamp |-> {"datetime"},
          timestamptz |-> {"datetime with zone"}, interval |-> {"timedelta"},
          text |-> {"str"}, varchar |-> {"str"}, name |-> {"str"}, bytea |-> {"bytes"},
          inet |-> {"IPv4Address", "IPv4Interface"}, cidr |-> {"IPv4Network"},
          json |-> {"document"}, jsonb |-> {"document"}]
LastRow(rows, Test(_)) == LET i == SelectLastInSeq(rows, Test) IN IF i = 0 THEN None ELSE rows[i]

-----------------------------------------------------------------------------
(* Properties                                                               *)

\* Maps are independent: each answers as if it had copied its template when it was
\* made, whatever is registered, added or looked up in the others.
MapsIndependent(ops, Mros, Names, Oids) ==
  NamesFirst(ops) =>
    LET s == AfterAll(ops)
        h == Histories(ops)
    IN  \A m \in DOMAIN s.maps :
          /\ \A mro \in Mros, t \in {AUTO, Class("text"), Class("binary")} :
               map_get_dumper(s, m, mro, t).dumper = Expected(h[m], mro, t)
          /\ \A n \in Names : GetType(s, m, n) = ExpectedType(h[m], n)
          /\ \A o \in Oids : GetType(s, m, o) =
               LastIn(h[m], LAMBDA x : x.op = "type" /\ o \in {x.v.oid, x.v.array_oid})
          /\ \A o \in Oids, f \in Formats :
               LET d == Lookup(s, m, Oid(f), Key(o))
               IN  (IF d = None THEN None ELSE d.v) = OfOid(h[m], o, f)

\* COPY with types looks dumpers up by oid: the one registered last takes what the
\* loaders give for that oid, whatever adapters share the oid.
ByOidTakesWhatLoads(rows) ==
  \A o \in DOMAIN Loaded, f \in Formats :
    LET r == LastRow(rows, LAMBDA x : x.oid = o /\ x.format = f)
    IN  r # None => Loaded[o] \subseteq r.takes
=============================================================================
