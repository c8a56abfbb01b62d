----------------------------- MODULE Transformer -----------------------------
(***************************************************************************)
(* How a transformer (gaussdb._py_transformer) chooses the dumper of each  *)
(* parameter and remembers it by a key, the literals it makes, and what a  *)
(* cursor tells of its columns (gaussdb._typemod, gaussdb._column) and     *)
(* makes of its rows (gaussdb.rows).                                       *)
(*                                                                         *)
(* An object is a record of its class and, for an int, the smallest type   *)
(* that holds it (sub: 1 for int2 to 4 for numeric); for a time, whether   *)
(* it has a time zone; for a list or a range, its items.  A dumper is the  *)
(* oid it gives.                                                           *)
(***************************************************************************)
EXTENDS Values

Scalar(cls, sub)     == [cls |-> cls, sub |-> sub, items |-> <<>>]
Container(cls, items) == [cls |-> cls, sub |-> 0, items |-> items]
IntClasses == <<"Int2", "Int4", "Int8", "IntNumeric">>
IntOids    == <<"int2", "int4", "int8", "numeric">>
RangeOids   == [numeric |-> "numrange", date |-> "daterange", timestamp |-> "tsrange",
             timestamptz |-> "tstzrange"]
Known(f, x) == IF x \in DOMAIN f THEN f[x] ELSE ""
ArrayOf(oid)  == oid \o "[]"

-----------------------------------------------------------------------------
(* Keys and upgrades                                                        *)

\* _flatiter: the items of a list and of the lists in it; ranges are items.
RECURSIVE Flattened(_)
Flattened(o) == FlattenSeq([i \in DOMAIN o.items |->
             IF o.items[i].cls = "list" THEN Flattened(o.items[i]) ELSE <<o.items[i]>>])

\* The oid of the dumper for an object, or DataError.
RECURSIVE Upgraded(_, _)

\* Mutant of Uniform: the last class is taken for all.
Uniform_Last(items, fmt) == TRUE

\* Items of several classes are good if they are dumped with the same oid; one
\* item of each class is looked at, the last.
LastOfClass(items, cls) == items[SelectLastInSeq(items, LAMBDA x : x.cls = cls)]
Uniform(items, fmt) ==
  LET classes == {items[i].cls : i \in DOMAIN items}
  IN  \A c, d \in classes :
        Upgraded(LastOfClass(items, c), fmt) = Upgraded(LastOfClass(items, d), fmt)

\* _find_list_element: the last item of the class that came last, if it is int the
\* item that needs the largest type; None without items, DataError (as an object
\* of its own) if they are of mixed types.
MixedTypes == Scalar("DataError", 0)
Element(o, fmt) ==
  LET items == Flattened(o)
      first(c) == SelectInSeq(items, LAMBDA x : x.cls = c)
      cls   == CHOOSE c \in {items[i].cls : i \in DOMAIN items} :
                 \A i \in DOMAIN items : first(items[i].cls) <= first(c)
  IN  IF items = <<>> THEN None
      ELSE IF ~Uniform(items, fmt) THEN MixedTypes
      ELSE IF cls = "int" THEN Scalar("int", Max({items[i].sub : i \in DOMAIN items}))
      ELSE LastOfClass(items, cls)
\* BaseRangeDumper._get_item: the lower bound, else the upper one.
ItemOf(o, fmt) == IF o.cls = "list" THEN Element(o, fmt)
                  ELSE IF o.items = <<>> THEN None ELSE o.items[1]

\* get_key: the class if its own dumper will do, else a key that says more.
RECURSIVE KeyOf(_, _)
KeyOf(o, fmt) ==
  CASE o.cls = "int"      -> <<IntClasses[o.sub]>>
    [] o.cls = "time"     -> IF o.sub = 0 THEN <<o.cls>> ELSE <<o.cls, "">>
    [] o.cls = "datetime" -> IF o.sub = 0 THEN <<o.cls, "">> ELSE <<o.cls>>
    [] o.cls \in {"list", "Range"} ->
         IF ItemOf(o, fmt) # None THEN <<o.cls, "(">> \o KeyOf(ItemOf(o, fmt), fmt)
         ELSE IF o.cls = "list" /\ fmt = "text" THEN <<o.cls>> ELSE <<o.cls, "">>
    [] OTHER -> <<o.cls>>

\* The oid of the dumper that is made for a class alone.
ClassOid == [time |-> "time", datetime |-> "timestamptz", date |-> "date", Decimal |-> "numeric",
             Int2 |-> "int2", IPv4Address |-> "inet", IPv6Address |-> "inet",
             DataError |-> "DataError"]
TimeType(o)     == IF o.sub = 0 THEN "time" ELSE "timetz"
DatetimeType(o) == IF o.sub = 0 THEN "timestamp" ELSE "timestamptz"
\* upgrade() of each dumper.
Upgraded(o, fmt) ==
  CASE o.cls = "int"      -> IntOids[o.sub]
    [] o.cls = "time"     -> TimeType(o)
    [] o.cls = "datetime" -> DatetimeType(o)
    [] o.cls = "list" ->
         IF ItemOf(o, fmt) = None THEN ""
         ELSE LET sub == Upgraded(ItemOf(o, fmt), fmt)
              IN  IF sub = "DataError" THEN sub
                  ELSE IF sub # "" THEN ArrayOf(sub)
                  ELSE IF fmt = "text" THEN "" ELSE ArrayOf("text")
    [] o.cls = "Range" ->
         IF ItemOf(o, fmt) = None \/ ItemOf(o, fmt).cls = "int" THEN ""
         ELSE Known(RangeOids, Upgraded(ItemOf(o, fmt), fmt))
    [] OTHER -> Known(ClassOid, o.cls)

\* get_dumper: the dumper of the class first, then the one of the key.
Remember(cache, key, oid) == IF key \in DOMAIN cache THEN cache ELSE key :> oid @@ cache
get_dumper(cache, o, fmt) ==
  Remember(Remember(cache, <<o.cls>>, Known(ClassOid, o.cls)), KeyOf(o, fmt), Upgraded(o, fmt))

\* dump_sequence: the oids of the parameters, that of None for a null; with types
\* set by the user, the ones he chose.  One that cannot be dumped makes it fail.
dump_sequence(row_types, none_oid, params, fmt) ==
  LET Step(acc, o) ==
        IF o = None THEN [acc EXCEPT !.types = Append(@, none_oid)]
        ELSE [cache |-> get_dumper(acc.cache, o, fmt),
              types |-> Append(acc.types, get_dumper(acc.cache, o, fmt)[KeyOf(o, fmt)])]
      types == FoldLeft(Step, [cache |-> [k \in {} |-> ""], types |-> <<>>], params).types
  IN  IF row_types # <<>> THEN row_types
      ELSE IF Contains(types, "DataError") THEN <<"DataError">>
      ELSE types

-----------------------------------------------------------------------------
(* Literals                                                                 *)

\* Transformer.as_literal: the type a quoted literal is cast to, if any.
as_literal(quoted, type, isArray) ==
  IF quoted /\ type # None /\ (type.name # "text" \/ isArray)
  THEN [name |-> IF type.builtin THEN type.name ELSE type.regtype, array |-> isArray]
  ELSE None

-----------------------------------------------------------------------------
(* Type modifiers                                                           *)

\* What the server keeps in an int4: of a numeric the precision and the scale, of
\* a string its length plus 4, of bits their number, of a time its precision.
ServerNumeric(precision, scale) == precision * 2 ^ 16 + (scale % 2 ^ 11) + 4
ServerChar(n) == n + 4

NumericPrecision(typemod) == IF typemod >= 0 THEN typemod \div 2 ^ 16 ELSE None
NumericScale(typemod) ==
  LET scale == (typemod - 4) % 2 ^ 16
  IN  IF typemod < 0 THEN None ELSE IF scale >= 2 ^ 10 THEN scale - 2 ^ 11 ELSE scale
CharSize(typemod)      == IF typemod >= 0 THEN typemod - 4 ELSE None
BitSize(typemod)       == IF typemod >= 0 THEN typemod ELSE None
TimePrecision(typemod) == IF typemod >= 0 THEN typemod % 2 ^ 16 ELSE None
\* TypeInfo.get_type_display: the modifiers that are printed.
Displayed(kind, typemod) ==
  CASE kind = "numeric" -> IF typemod < 0 THEN <<>>
                           ELSE <<NumericPrecision(typemod), NumericScale(typemod)>>
    [] kind = "char" -> IF CharSize(typemod) \in {None, 0} THEN <<>> ELSE <<CharSize(typemod)>>
    [] kind = "bit"  -> IF BitSize(typemod) \in {None, 0} THEN <<>> ELSE <<BitSize(typemod)>>
    [] kind = "time" -> IF TimePrecision(typemod) = None THEN <<>> ELSE <<TimePrecision(typemod)>>

\* Column: (name, type, display size, internal size, precision, scale, null ok).
Column(index, name, kind, typemod, size) ==
  << IF name = "" THEN <<"column_", index>> ELSE <<name>>,
     kind,
     IF kind = "char" THEN CharSize(typemod) ELSE IF kind = "bit" THEN BitSize(typemod) ELSE None,
     IF size >= 0 THEN size ELSE None,
     IF kind = "numeric" THEN NumericPrecision(typemod)
     ELSE IF kind = "time" THEN TimePrecision(typemod) ELSE None,
     IF kind = "numeric" THEN NumericScale(typemod) ELSE None,
     None >>

-----------------------------------------------------------------------------
(* Rows                                                                     *)

\* A result has names of columns if it has rows or could; _get_nfields.
HasFields(status, n) == \/ status \in {"TUPLES_OK", "SINGLE_TUPLE", "TUPLES_CHUNK"}
                        \/ status = "COMMAND_OK" /\ n > 0
tuple_row(values) == values
\* dict_row, class_row, kwargs_row: of columns with the same name, the last.
dict_row(names, values) ==
  [n \in Range(names) |-> values[SelectLastInSeq(names, LAMBDA x : x = n)]]
\* scalar_row: the first value; None if there is no column.
scalar_row(values) == IF values = <<>> THEN None ELSE values[1]
\* _make_nt: a named tuple takes no repeated name.
namedtuple_row(names, values) == IF IsInjective(names) THEN dict_row(names, values) ELSE None

-----------------------------------------------------------------------------
(* Properties                                                               *)

\* The dumper of an object does not depend on what was dumped before it.
CacheTransparent(objs, fmt) ==
  LET types == [i \in DOMAIN objs |-> Upgraded(objs[i], fmt)]
  IN  dump_sequence(<<>>, "none", objs, fmt) = IF Contains(types, "DataError") THEN <<"DataError">>
                                               ELSE types

\* A list of mixed types is refused; the array any other list is dumped to holds
\* each of its items.  As only one item of each class is looked at, that is so as
\* long as no item has a time zone when another of its class has none, nor an int
\* comes with one of a subclass.
Holds(array, o) == IF o.cls = "int" THEN \E i \in o.sub .. 4 : array = ArrayOf(IntOids[i])
                   ELSE array = ArrayOf(Upgraded(o, "text"))
ListHoldsItems(o, fmt) ==
  LET items == Flattened(o)
      type(i) == Upgraded(items[i], fmt)
      Same(i, j) == type(i) = type(j) \/ (items[i].cls = "int" /\ items[j].cls = "int")
  IN  /\ \A i, j \in DOMAIN items : items[i].cls = items[j].cls => Same(i, j)
      /\ ~({"int", "Int2"} \subseteq {items[i].cls : i \in DOMAIN items})
      => IF \A i, j \in DOMAIN items : Same(i, j)
         THEN \A i \in DOMAIN items : type(i) # "" => Holds(Upgraded(o, fmt), items[i])
         ELSE Upgraded(o, fmt) = "DataError"

\* A literal is cast to the type of its dumper, though a type of the same name comes
\* first in the search path.
LiteralTyped(quoted, type, isArray, hidden) ==
  LET cast == as_literal(quoted, type, isArray)
  IN  quoted /\ type # None /\ (type.name # "text" \/ isArray) =>
        /\ cast # None /\ cast.array = isArray
        /\ cast.name \in hidden => type.builtin

\* A precision, a scale and a length are read as they were declared; -1 as none.
TypmodRead(precision, scale) ==
  /\ NumericPrecision(ServerNumeric(precision, scale)) = precision
  /\ NumericScale(ServerNumeric(precision, scale)) = scale
  /\ Displayed("char", ServerChar(precision)) = <<precision>>
  /\ \A kind \in {"numeric", "char", "bit", "time"} :
       /\ Displayed(kind, -1) = <<>>
       /\ SubSeq(Column(1, "x", kind, -1, -1), 3, 7) = [i \in 1 .. 5 |-> None]

\* Every row factory gives each value once, under its name, if names differ.
RowsKeep(names, values) ==
  IsInjective(names) =>
    /\ \A i \in DOMAIN names : dict_row(names, values)[names[i]] = values[i]
    /\ namedtuple_row(names, values) = dict_row(names, values)
=============================================================================
