--------------------------- MODULE PrepareManager ---------------------------
(***************************************************************************)
(* The cache of prepared statements of a connection,                       *)
(* gaussdb._preparing.PrepareManager: how many times each query was seen,  *)
(* the names of the prepared ones, both ordered by last use, and the names *)
(* to deallocate.  The operators map a cache to the cache after the call.  *)
(***************************************************************************)
EXTENDS Integers, Sequences

CONSTANTS
  Queries,      \* keys: queries with the types of their parameters
  Threshold,    \* prepare_threshold
  PreparedMax   \* prepared_max

ASSUME CacheAssumption == Threshold \in Nat /\ PreparedMax \in Nat

-----------------------------------------------------------------------------
(* OrderedDict: a sequence of items.                                        *)

Keys(d) == {d[i].key : i \in DOMAIN d}
Values(d) == {d[i].value : i \in DOMAIN d}
Distinct(d) == \A i, j \in DOMAIN d : d[i].key = d[j].key => i = j
Place(d, k) == CHOOSE i \in DOMAIN d : d[i].key = k
Lookup(d, k) == d[Place(d, k)].value

Insert(d, k, v) == Append(d, [key |-> k, value |-> v])
Delete(d, k) ==
  IF k \notin Keys(d) THEN d
  ELSE SubSeq(d, 1, Place(d, k) - 1) \o SubSeq(d, Place(d, k) + 1, Len(d))
MoveToEnd(d, k, v) == Insert(Delete(d, k), k, v)

-----------------------------------------------------------------------------
All == -1      \* None in _to_flush: every statement of the session
NoName == -2

\* __init__: _counts, _names, _prepared_idx and _to_flush.
NewCache == [counts |-> <<>>, names |-> <<>>, idx |-> 0, flush |-> <<>>]

Count(c, q) == IF q \in Keys(c.counts) THEN Lookup(c.counts, q) ELSE 0

\* get(): is the query prepared, or should it be?  prepare is what the program
\* asks for: "yes", "no" or nothing.
Get(c, q, prepare) ==
  CASE prepare = "no" -> [prep |-> "NO", name |-> NoName]
    [] prepare # "no" /\ q \in Keys(c.names) ->
         [prep |-> "YES", name |-> Lookup(c.names, q)]
    [] OTHER ->
         IF prepare = "yes" \/ Count(c, q) >= Threshold
         THEN [prep |-> "SHOULD", name |-> c.idx] ELSE [prep |-> "NO", name |-> NoName]

\* get(): a new name is never given again.
NextName(c, prep) == IF prep = "SHOULD" THEN [c EXCEPT !.idx = @ + 1] ELSE c

\* maybe_add_to_cache() returns the key of a new entry only.
IsNew(c, q) == q \notin Keys(c.counts) \cup Keys(c.names)

\* Mutant of Promote: the query stays among the counted ones.
Promote_Twice(c, q, name) == [c EXCEPT !.names = Insert(@, q, name)]

\* maybe_add_to_cache(): a counted query is prepared.
Promote(c, q, name) == [c EXCEPT !.counts = Delete(@, q),
                                 !.names = Insert(@, q, name)]

\* maybe_add_to_cache()
MaybeAdd(c, q, prep, name) ==
  CASE q \in Keys(c.counts) /\ prep = "SHOULD" -> Promote(c, q, name)
    [] q \in Keys(c.counts) /\ prep # "SHOULD" ->
         [c EXCEPT !.counts = MoveToEnd(@, q, Lookup(@, q) + 1)]
    [] q \in Keys(c.names) /\ q \notin Keys(c.counts) ->
         [c EXCEPT !.names = MoveToEnd(@, q, Lookup(@, q))]
    [] IsNew(c, q) /\ prep = "SHOULD" -> [c EXCEPT !.names = Insert(@, q, name)]
    [] OTHER -> [c EXCEPT !.counts = Insert(@, q, 1)]

\* Mutant of Clear: forgets to forget the names.
Clear_KeepNames(c) ==
  [c EXCEPT !.counts = <<>>, !.flush = IF c.names = <<>> THEN @ ELSE <<All>>]

\* clear()
Clear(c) == [c EXCEPT !.counts = <<>>, !.names = <<>>,
                      !.flush = IF c.names = <<>> THEN @ ELSE <<All>>]

EvictName_Keep(c) ==
  IF Len(c.names) <= PreparedMax THEN c
  ELSE [c EXCEPT !.flush = Append(@, Head(c.names).value)]

\* _rotate(), the names: the oldest one is deallocated.
EvictName(c) ==
  IF Len(c.names) <= PreparedMax THEN c
  ELSE [c EXCEPT !.names = Tail(@), !.flush = Append(@, Head(c.names).value)]

\* _rotate(): at most one of each.
Rotate(c) ==
  EvictName([c EXCEPT !.counts = IF Len(@) > PreparedMax THEN Tail(@) ELSE @])

\* _should_discard(): a successful DROP or ROLLBACK, if anything is prepared.
ShouldDiscard(c, prep, ok, kind) ==
  ok /\ kind \in {"drop", "rollback"} /\ (c.names # <<>> \/ prep = "SHOULD")

\* validate(): the result of a query whose entry was new.
Validate(c, q, prep, ok, kind) ==
  LET d == IF ShouldDiscard(c, prep, ok, kind) THEN Clear(c) ELSE c
  IN  CASE ShouldDiscard(c, prep, ok, kind) /\ c.names # <<>> -> d
        [] ~ok -> [d EXCEPT !.names = Delete(@, q), !.counts = Delete(@, q)]
        [] OTHER -> Rotate(d)
=============================================================================
