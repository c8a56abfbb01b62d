--------------------------- MODULE PipelineProofs ---------------------------
(***************************************************************************)
(* Theorems about Pipeline, for any queries, sizes of the cache and        *)
(* behaviour of the server: a query has one entry in the cache, and        *)
(* without pipelines the cache says what the server has and stays bounded, *)
(* for any threads.  When one thread uses the connection, every result is  *)
(* given to the cursor that asked for it, nothing is in flight after the   *)
(* last pipeline, and every query is executed in a transaction.            *)
(***************************************************************************)
EXTENDS Pipeline, SequenceTheorems, TLAPS

-----------------------------------------------------------------------------
(* Types.                                                                   *)

Entry == [key : Queries, value : Int]
CacheType == [counts : Seq(Entry), names : Seq(Entry), idx : Nat, flush : Seq(Int)]

AnyQuery == Queries \cup {NoQuery}
PhaseOps == {"start", "send", "communicate", "fetch", "exit_fetch", "maintain",
             "enter", "entered", "ride", "exit", "leave", "rollback"}
CommandOps == {"begin", "sync", "run", "run prepared", "prepare", "close",
               "deallocate all", "commit", "rollback"}

CommandType == [op : CommandOps, query : AnyQuery, name : Int]
SlotType == [query : AnyQuery, new : BOOLEAN, prep : {"NO", "YES", "SHOULD"}]
Statuses == {"IDLE", "INTRANS", "INERROR"}
AnswerTypes == {"OK", "ERROR", "ABORTED", "SYNC"}
ResultType == [query : AnyQuery, status : AnswerTypes, tx : Statuses]
PhaseType == {x \in [op : PhaseOps, query : AnyQuery, prepare : {"auto", "yes", "no"}] :
                x.op = "send" => x.query \in Queries}
ServerType == [statements : SUBSET Int, status : Statuses, aborted : BOOLEAN]

QueuesTyped ==
  commands \in Seq(CommandType) /\ results \in Seq(SlotType) /\ wire \in Seq(ResultType)

TodoTyped == todo \in [Threads -> Seq(PhaseType)]

-----------------------------------------------------------------------------
(* The dictionaries.                                                        *)

\* A query is in one of the two, once.
Apart(c) == /\ Keys(c.counts) \cap Keys(c.names) = {}
            /\ Distinct(c.counts) /\ Distinct(c.names)

\* No name is used twice, and those to deallocate are not used any more.
OneUse(d) == \A i, j \in DOMAIN d : d[i].value = d[j].value => i = j
Fresh(c) == /\ OneUse(c.names)
            /\ \A v \in Values(c.names) : v \in Nat /\ v < c.idx
            /\ \A i \in DOMAIN c.flush : c.flush[i] < c.idx
                                       /\ c.flush[i] \notin Values(c.names)

Sound(c) == c \in CacheType /\ Apart(c) /\ Fresh(c)

\* s has some of the entries of d.
Within(s, d) ==
  \E f \in [DOMAIN s -> DOMAIN d] : /\ \A i, j \in DOMAIN s : f[i] = f[j] => i = j
                                   /\ \A i \in DOMAIN s : s[i] = d[f[i]]

LEMMA WithinKeeps ==
  ASSUME NEW s, NEW d, Within(s, d)
  PROVE  /\ Keys(s) \subseteq Keys(d) /\ Values(s) \subseteq Values(d)
         /\ Distinct(d) => Distinct(s)
         /\ OneUse(d) => OneUse(s)
<1>1. PICK f \in [DOMAIN s -> DOMAIN d] :
        /\ \A i, j \in DOMAIN s : f[i] = f[j] => i = j
        /\ \A i \in DOMAIN s : s[i] = d[f[i]]
  BY DEF Within
<1>2. ASSUME NEW i \in DOMAIN s  PROVE f[i] \in DOMAIN d  OBVIOUS
<1>3. Keys(s) \subseteq Keys(d)  BY <1>1, <1>2 DEF Keys
<1>4. Values(s) \subseteq Values(d)  BY <1>1, <1>2 DEF Values
<1>5. Distinct(d) => Distinct(s)  BY <1>1, <1>2 DEF Distinct
<1>6. OneUse(d) => OneUse(s)  BY <1>1, <1>2 DEF OneUse
<1> QED  BY <1>3, <1>4, <1>5, <1>6

LEMMA TailWithin ==
  ASSUME NEW S, NEW d \in Seq(S), d # <<>>
  PROVE  Tail(d) \in Seq(S) /\ Within(Tail(d), d)
<1>1. /\ Tail(d) \in Seq(S) /\ Len(Tail(d)) = Len(d) - 1
      /\ \A i \in 1..Len(Tail(d)) : Tail(d)[i] = d[i + 1]
  BY HeadTailProperties
<1>2. /\ DOMAIN d = 1..Len(d) /\ Len(d) \in Nat
      /\ DOMAIN Tail(d) = 1..(Len(d) - 1)
  BY <1>1, LenProperties
<1> DEFINE f == [i \in DOMAIN Tail(d) |-> i + 1]
<1>3. f \in [DOMAIN Tail(d) -> DOMAIN d]  BY <1>2
<1>4. \A i, j \in DOMAIN Tail(d) : f[i] = f[j] => i = j  BY <1>2
<1>5. \A i \in DOMAIN Tail(d) : Tail(d)[i] = d[f[i]]  BY <1>1, <1>2
<1> QED  BY <1>1, <1>3, <1>4, <1>5 DEF Within

LEMMA SameWithin ==
  ASSUME NEW d
  PROVE  Within(d, d)
<1> DEFINE f == [i \in DOMAIN d |-> i]
<1>1. f \in [DOMAIN d -> DOMAIN d]  OBVIOUS
<1> QED  BY <1>1 DEF Within

\* What Delete leaves are other entries of the dictionary.
LEMMA DeleteEntry ==
  ASSUME NEW d \in Seq(Entry), NEW k
  PROVE  /\ Delete(d, k) \in Seq(Entry) /\ Within(Delete(d, k), d)
         /\ k \in Keys(d) => Len(Delete(d, k)) = Len(d) - 1
         /\ Distinct(d) => k \notin Keys(Delete(d, k))
         /\ OneUse(d) /\ k \in Keys(d) => Lookup(d, k) \notin Values(Delete(d, k))
<1>1. CASE k \notin Keys(d)
  BY <1>1, SameWithin DEF Delete
<1>2. CASE k \in Keys(d)
  <2> DEFINE n == Place(d, k)
             a == SubSeq(d, 1, n - 1)
             b == SubSeq(d, n + 1, Len(d))
             r == a \o b
  <2>1. Len(d) \in Nat /\ DOMAIN d = 1..Len(d) /\ \A i \in 1..Len(d) : d[i] \in Entry
    BY LenProperties, ElementOfSeq
  <2>2. n \in DOMAIN d /\ d[n].key = k  BY <1>2 DEF Place, Keys
  <2> HIDE DEF n
  <2>3. /\ a \in Seq(Entry) /\ Len(a) = n - 1
        /\ \A i \in 1..(n - 1) : a[i] = d[i]
    <3>1. \A i \in 1..(n - 1) : d[i] \in Entry  BY <2>1, <2>2
    <3> QED  BY <3>1, <2>1, <2>2, SubSeqProperties
  <2>4. /\ b \in Seq(Entry) /\ Len(b) = Len(d) - n
        /\ \A i \in 1..(Len(d) - n) : b[i] = d[n + i]
    <3>1. \A i \in (n + 1)..Len(d) : d[i] \in Entry  BY <2>1, <2>2
    <3>2. n + 1 \in Int /\ Len(d) \in Int  BY <2>1, <2>2
    <3>3. /\ b \in Seq(Entry)
          /\ Len(b) = IF n + 1 <= Len(d) THEN Len(d) - (n + 1) + 1 ELSE 0
          /\ \A i \in 1..(Len(d) - (n + 1) + 1) : b[i] = d[(n + 1) + i - 1]
      BY <3>1, <3>2, SubSeqProperties
    <3>4. Len(d) - (n + 1) + 1 = Len(d) - n
      BY <2>1, <2>2
    <3>5. \A i \in 1..(Len(d) - n) : b[i] = d[n + i]
      <4> SUFFICES ASSUME NEW i \in 1..(Len(d) - n)  PROVE b[i] = d[n + i]
        OBVIOUS
      <4>1. (n + 1) + i - 1 = n + i  BY <2>1, <2>2
      <4> QED  BY <3>3, <3>4, <4>1
    <3> QED  BY <3>3, <3>4, <3>5, <2>1, <2>2
  <2> HIDE DEF a, b
  <2>5. /\ r \in Seq(Entry) /\ Len(r) = Len(d) - 1
        /\ \A i \in 1..(Len(d) - 1) : r[i] = IF i < n THEN d[i] ELSE d[i + 1]
    <3>1. /\ r \in Seq(Entry) /\ Len(r) = Len(a) + Len(b)
          /\ \A i \in 1..(Len(a) + Len(b)) :
               r[i] = IF i <= Len(a) THEN a[i] ELSE b[i - Len(a)]
      BY <2>3, <2>4, ConcatProperties
    <3>2. ASSUME NEW i \in 1..(Len(d) - 1)
          PROVE  r[i] = IF i < n THEN d[i] ELSE d[i + 1]
      <4>1. CASE i < n  BY <4>1, <3>1, <2>1, <2>2, <2>3, <2>4
      <4>2. CASE ~(i < n)
        <5>1. i - (n - 1) \in 1..(Len(d) - n) /\ n + (i - (n - 1)) = i + 1
          BY <4>2, <2>1, <2>2
        <5>2. /\ Len(a) = n - 1 /\ i \in 1..(Len(a) + Len(b)) /\ ~(i <= Len(a))
          BY <4>2, <2>1, <2>2, <2>3, <2>4
        <5>3. r[i] = b[i - Len(a)]  BY <3>1, <5>2
        <5> QED  BY <4>2, <5>1, <5>2, <5>3, <2>4
      <4> QED  BY <4>1, <4>2
    <3> QED  BY <3>1, <3>2, <2>1, <2>2, <2>3, <2>4
  <2>6. DOMAIN r = 1..(Len(d) - 1)  BY <2>5, LenProperties
  <2> HIDE DEF r
  <2> DEFINE f == [i \in DOMAIN r |-> IF i < n THEN i ELSE i + 1]
  <2>7. f \in [DOMAIN r -> DOMAIN d]  BY <2>1, <2>2, <2>6
  <2>8. \A i, j \in DOMAIN r : f[i] = f[j] => i = j  BY <2>1, <2>2, <2>6
  <2>9. \A i \in DOMAIN r : r[i] = d[f[i]] /\ f[i] # n  BY <2>1, <2>2, <2>5, <2>6
  <2> HIDE DEF f
  <2>10. Within(r, d)  BY <2>7, <2>8, <2>9 DEF Within
  <2>11. Distinct(d) => k \notin Keys(r)
    <3> SUFFICES ASSUME Distinct(d), NEW i \in DOMAIN r, r[i].key = k  PROVE FALSE
      BY DEF Keys
    <3> QED  BY <2>2, <2>7, <2>9 DEF Distinct
  <2>12. OneUse(d) => d[n].value \notin Values(r)
    <3> SUFFICES ASSUME OneUse(d), NEW i \in DOMAIN r, r[i].value = d[n].value
                 PROVE  FALSE
      BY DEF Values
    <3> QED  BY <2>2, <2>7, <2>9 DEF OneUse
  <2>13. Delete(d, k) = r  BY <1>2 DEF Delete, r, a, b, n
  <2>14. Lookup(d, k) = d[n].value  BY DEF Lookup, n
  <2> QED  BY <2>5, <2>10, <2>11, <2>12, <2>13, <2>14
<1> QED  BY <1>1, <1>2

LEMMA LookupEntry ==
  ASSUME NEW d \in Seq(Entry), NEW k \in Keys(d)
  PROVE  Lookup(d, k) \in Values(d) /\ Lookup(d, k) \in Int
<1>1. Place(d, k) \in DOMAIN d  BY DEF Place, Keys
<1>2. d[Place(d, k)] \in Entry  BY <1>1, LenProperties, ElementOfSeq
<1> QED  BY <1>1, <1>2 DEF Lookup, Values, Entry

LEMMA InsertTyped ==
  ASSUME NEW d \in Seq(Entry), NEW k \in Queries, NEW v \in Int
  PROVE  Insert(d, k, v) \in Seq(Entry)
<1>1. [key |-> k, value |-> v] \in Entry  BY DEF Entry
<1> QED  BY <1>1, AppendProperties DEF Insert

LEMMA InsertPlaces ==
  ASSUME NEW d \in Seq(Entry), NEW k \in Queries, NEW v \in Int
  PROVE  LET r == Insert(d, k, v)
         IN  /\ \A i \in DOMAIN d : i \in DOMAIN r /\ r[i] = d[i]
             /\ \A i \in DOMAIN r : i \in DOMAIN d \/ i = Len(d) + 1
             /\ Len(d) + 1 \in DOMAIN r
             /\ r[Len(d) + 1].key = k /\ r[Len(d) + 1].value = v
<1> DEFINE e == [key |-> k, value |-> v]
           r == Insert(d, k, v)
<1>1. e \in Entry  BY DEF Entry
<1>2. /\ r \in Seq(Entry) /\ Len(r) = Len(d) + 1 /\ r[Len(d) + 1] = e
      /\ \A i \in 1..Len(d) : r[i] = d[i]
  BY <1>1, AppendProperties DEF Insert
<1> HIDE DEF r
<1>3. DOMAIN r = 1..(Len(d) + 1) /\ DOMAIN d = 1..Len(d) /\ Len(d) \in Nat
  BY <1>2, LenProperties
<1>4. \A i \in DOMAIN d : i \in DOMAIN r /\ r[i] = d[i]  BY <1>2, <1>3
<1>5. \A i \in DOMAIN r : i \in DOMAIN d \/ i = Len(d) + 1  BY <1>3
<1>6. Len(d) + 1 \in DOMAIN r  BY <1>3
<1>7. r[Len(d) + 1].key = k /\ r[Len(d) + 1].value = v  BY <1>2
<1> QED
  <2>1. /\ \A i \in DOMAIN d : i \in DOMAIN r /\ r[i] = d[i]
        /\ \A i \in DOMAIN r : i \in DOMAIN d \/ i = Len(d) + 1
        /\ Len(d) + 1 \in DOMAIN r
        /\ r[Len(d) + 1].key = k /\ r[Len(d) + 1].value = v
    BY <1>4, <1>5, <1>6, <1>7
  <2> QED  BY <2>1 DEF r

LEMMA InsertKeys ==
  ASSUME NEW d \in Seq(Entry), NEW k \in Queries, NEW v \in Int
  PROVE  Keys(Insert(d, k, v)) = Keys(d) \cup {k}
<1> DEFINE r == Insert(d, k, v)
<1>1. /\ \A i \in DOMAIN d : i \in DOMAIN r /\ r[i] = d[i]
      /\ \A i \in DOMAIN r : i \in DOMAIN d \/ i = Len(d) + 1
      /\ Len(d) + 1 \in DOMAIN r /\ r[Len(d) + 1].key = k
  BY InsertPlaces
<1> HIDE DEF r
<1>2. Keys(r) = Keys(d) \cup {k}  BY <1>1 DEF Keys
<1> QED  BY <1>2 DEF r

LEMMA InsertValues ==
  ASSUME NEW d \in Seq(Entry), NEW k \in Queries, NEW v \in Int
  PROVE  Values(Insert(d, k, v)) = Values(d) \cup {v}
<1> DEFINE r == Insert(d, k, v)
<1>1. /\ \A i \in DOMAIN d : i \in DOMAIN r /\ r[i] = d[i]
      /\ \A i \in DOMAIN r : i \in DOMAIN d \/ i = Len(d) + 1
      /\ Len(d) + 1 \in DOMAIN r /\ r[Len(d) + 1].value = v
  BY InsertPlaces
<1> HIDE DEF r
<1>2. Values(r) = Values(d) \cup {v}  BY <1>1 DEF Values
<1> QED  BY <1>2 DEF r

LEMMA InsertDistinct ==
  ASSUME NEW d \in Seq(Entry), NEW k \in Queries, NEW v \in Int,
         Distinct(d), k \notin Keys(d)
  PROVE  Distinct(Insert(d, k, v))
<1>1. \A i \in DOMAIN d : d[i].key # k  BY DEF Keys
<1> QED  BY <1>1, InsertPlaces DEF Distinct

LEMMA InsertOneUse ==
  ASSUME NEW d \in Seq(Entry), NEW k \in Queries, NEW v \in Int,
         OneUse(d), v \notin Values(d)
  PROVE  OneUse(Insert(d, k, v))
<1>1. \A i \in DOMAIN d : d[i].value # v  BY DEF Values
<1> QED  BY <1>1, InsertPlaces DEF OneUse

-----------------------------------------------------------------------------
(* The operations of the cache.                                             *)

\* New counts and names, and nothing more to deallocate.
LEMMA SoundUpdate ==
  ASSUME NEW c, Sound(c), NEW counts \in Seq(Entry), NEW names \in Seq(Entry),
         Distinct(counts), Distinct(names), Keys(counts) \cap Keys(names) = {},
         OneUse(names),
         \A v \in Values(names) \ Values(c.names) :
           /\ v \in Nat /\ v < c.idx
           /\ \A i \in DOMAIN c.flush : c.flush[i] # v
  PROVE  Sound([c EXCEPT !.counts = counts, !.names = names])
<1> DEFINE d == [c EXCEPT !.counts = counts, !.names = names]
<1>1. c \in CacheType  BY DEF Sound
<1>2. d \in CacheType /\ d.counts = counts /\ d.names = names
      /\ d.idx = c.idx /\ d.flush = c.flush
  BY <1>1 DEF CacheType
<1> HIDE DEF d
<1>3. Apart(d)  BY <1>2 DEF Apart
<1>4. Fresh(d)
  <2>1. \A v \in Values(names) : v \in Nat /\ v < c.idx  BY DEF Sound, Fresh
  <2>2. \A i \in DOMAIN c.flush : c.flush[i] < c.idx /\ c.flush[i] \notin Values(names)
    BY DEF Sound, Fresh
  <2> QED  BY <1>2, <2>1, <2>2 DEF Fresh
<1> QED  BY <1>2, <1>3, <1>4 DEF Sound, d

LEMMA GetTypes ==
  ASSUME NEW c, Sound(c), NEW q, NEW prepare
  PROVE  LET g == Get(c, q, prepare) IN
         /\ g.prep \in {"NO", "YES", "SHOULD"} /\ g.name \in Int
         /\ g.prep = "SHOULD" => g.name = c.idx /\ q \notin Keys(c.names)
<1>1. c.names \in Seq(Entry) /\ c.idx \in Nat  BY DEF Sound, CacheType
<1>2. q \in Keys(c.names) => Lookup(c.names, q) \in Int  BY <1>1, LookupEntry
<1>3. CASE prepare = "no"  BY <1>3 DEF Get, NoName
<1>4. CASE prepare # "no" /\ q \in Keys(c.names)  BY <1>2, <1>4 DEF Get
<1>5. CASE prepare # "no" /\ q \notin Keys(c.names)
  BY <1>1, <1>5 DEF Get, NoName
<1> QED  BY <1>3, <1>4, <1>5

LEMMA MaybeAddSound ==
  ASSUME NEW n, Sound(n), NEW q \in Queries, NEW prep, NEW name \in Int,
         prep = "SHOULD" =>
           /\ q \notin Keys(n.names)
           /\ name \in Nat /\ name < n.idx /\ name \notin Values(n.names)
           /\ \A i \in DOMAIN n.flush : n.flush[i] # name
  PROVE  Sound(MaybeAdd(n, q, prep, name))
<1>1. n \in CacheType /\ Apart(n) /\ OneUse(n.names)  BY DEF Sound, Fresh
<1>2. n.counts \in Seq(Entry) /\ n.names \in Seq(Entry)  BY <1>1 DEF CacheType
<1>3. ASSUME NEW x \in Seq(Entry), Keys(x) \subseteq Keys(n.counts) \cup {q},
              q \notin Keys(n.names), Distinct(x)
       PROVE  Sound([n EXCEPT !.counts = x])
  <2>1. Keys(x) \cap Keys(n.names) = {}  BY <1>1, <1>3 DEF Apart
  <2>2. Sound([n EXCEPT !.counts = x, !.names = n.names])
    BY <1>1, <1>2, <1>3, <2>1, SoundUpdate DEF Apart
  <2>3. [n EXCEPT !.counts = x, !.names = n.names] = [n EXCEPT !.counts = x]
    BY <1>1 DEF CacheType
  <2> QED  BY <2>2, <2>3
<1>4. CASE q \in Keys(n.counts) /\ prep = "SHOULD"
  <2> DEFINE x == Delete(n.counts, q)
             y == Insert(n.names, q, name)
  <2>1. x \in Seq(Entry) /\ Keys(x) \subseteq Keys(n.counts) /\ Distinct(x)
        /\ q \notin Keys(x)
    BY <1>1, <1>2, DeleteEntry, WithinKeeps DEF Apart
  <2>2. y \in Seq(Entry) /\ Keys(y) = Keys(n.names) \cup {q}
        /\ Values(y) = Values(n.names) \cup {name} /\ Distinct(y) /\ OneUse(y)
    <3>1. q \notin Keys(n.names) /\ name \notin Values(n.names)
      BY <1>1, <1>4
    <3>2. Distinct(n.names) /\ OneUse(n.names)  BY <1>1 DEF Apart
    <3>3. /\ y \in Seq(Entry) /\ Keys(y) = Keys(n.names) \cup {q}
          /\ Values(y) = Values(n.names) \cup {name}
      BY <1>2, InsertTyped, InsertKeys, InsertValues
    <3>4. Distinct(y)  BY <1>2, <3>1, <3>2, InsertDistinct
    <3>5. OneUse(y)  BY <1>2, <3>1, <3>2, InsertOneUse
    <3> QED  BY <3>3, <3>4, <3>5
  <2>3. Keys(x) \cap Keys(y) = {}  BY <2>1, <2>2, <1>1 DEF Apart
  <2> HIDE DEF x, y
  <2>4. Sound([n EXCEPT !.counts = x, !.names = y])
    BY <1>4, <2>1, <2>2, <2>3, SoundUpdate
  <2>5. MaybeAdd(n, q, prep, name) = Promote(n, q, name)
    BY <1>4 DEF MaybeAdd, IsNew
  <2>6. Promote(n, q, name) = [n EXCEPT !.counts = x, !.names = y]
    BY DEF Promote, x, y
  <2> QED  BY <2>4, <2>5, <2>6
<1>5. CASE q \in Keys(n.counts) /\ prep # "SHOULD"
  <2> DEFINE v == Lookup(n.counts, q) + 1
             x == MoveToEnd(n.counts, q, v)
  <2>1. v \in Int  BY <1>2, <1>5, LookupEntry
  <2>2. Delete(n.counts, q) \in Seq(Entry) /\ Distinct(Delete(n.counts, q))
        /\ Keys(Delete(n.counts, q)) \subseteq Keys(n.counts)
        /\ q \notin Keys(Delete(n.counts, q))
    BY <1>1, <1>2, DeleteEntry, WithinKeeps DEF Apart
  <2>3. x \in Seq(Entry) /\ Keys(x) \subseteq Keys(n.counts) \cup {q} /\ Distinct(x)
    <3>1. x \in Seq(Entry) /\ Keys(x) = Keys(Delete(n.counts, q)) \cup {q}
      BY <2>1, <2>2, InsertTyped, InsertKeys DEF MoveToEnd
    <3>2. Distinct(x)  BY <2>1, <2>2, InsertDistinct DEF MoveToEnd
    <3> QED  BY <2>2, <3>1, <3>2
  <2>4. q \notin Keys(n.names)  BY <1>1, <1>5 DEF Apart
  <2> HIDE DEF x
  <2>5. Sound([n EXCEPT !.counts = x])  BY <1>3, <2>3, <2>4
  <2> QED  BY <2>5, <1>5 DEF MaybeAdd, x
<1>6. CASE q \in Keys(n.names) /\ q \notin Keys(n.counts)
  <2> DEFINE v == Lookup(n.names, q)
             z == Delete(n.names, q)
             y == MoveToEnd(n.names, q, v)
  <2>1. v \in Int /\ v \in Values(n.names)  BY <1>2, <1>6, LookupEntry
  <2>2. z \in Seq(Entry) /\ Distinct(z) /\ OneUse(z)
        /\ Keys(z) \subseteq Keys(n.names) /\ Values(z) \subseteq Values(n.names)
        /\ q \notin Keys(z) /\ v \notin Values(z)
    BY <1>1, <1>2, <1>6, DeleteEntry, WithinKeeps DEF Apart
  <2>3. y = Insert(z, q, v)  BY DEF MoveToEnd
  <2> HIDE DEF v, y, z
  <2>4. y \in Seq(Entry) /\ Keys(y) \subseteq Keys(n.names) \cup {q}
        /\ Values(y) \subseteq Values(n.names) /\ Distinct(y) /\ OneUse(y)
    <3>1. /\ Insert(z, q, v) \in Seq(Entry) /\ Keys(Insert(z, q, v)) = Keys(z) \cup {q}
          /\ Values(Insert(z, q, v)) = Values(z) \cup {v}
      BY <2>1, <2>2, InsertTyped, InsertKeys, InsertValues, ZenonT(40)
    <3>2. Distinct(y)  BY <2>1, <2>2, <2>3, InsertDistinct
    <3>3. OneUse(y)  BY <2>1, <2>2, <2>3, InsertOneUse
    <3> QED  BY <2>1, <2>2, <2>3, <3>1, <3>2, <3>3
  <2>5. Keys(n.counts) \cap Keys(y) = {}  BY <2>4, <1>1, <1>6 DEF Apart
  <2>6. Sound([n EXCEPT !.counts = n.counts, !.names = y])
    BY <1>1, <1>2, <2>4, <2>5, SoundUpdate DEF Apart
  <2>7. [n EXCEPT !.counts = n.counts, !.names = y] = [n EXCEPT !.names = y]
    BY <1>1 DEF CacheType
  <2> QED  BY <2>6, <2>7, <1>6 DEF MaybeAdd, y, v
<1>7. CASE IsNew(n, q) /\ prep = "SHOULD"
  <2> DEFINE y == Insert(n.names, q, name)
  <2>1. y \in Seq(Entry) /\ Keys(y) = Keys(n.names) \cup {q}
        /\ Values(y) = Values(n.names) \cup {name} /\ Distinct(y) /\ OneUse(y)
    <3>1. q \notin Keys(n.names) /\ name \notin Values(n.names)
      BY <1>1, <1>7
    <3>2. Distinct(n.names) /\ OneUse(n.names)  BY <1>1 DEF Apart
    <3>3. /\ y \in Seq(Entry) /\ Keys(y) = Keys(n.names) \cup {q}
          /\ Values(y) = Values(n.names) \cup {name}
      BY <1>2, InsertTyped, InsertKeys, InsertValues
    <3>4. Distinct(y)  BY <1>2, <3>1, <3>2, InsertDistinct
    <3>5. OneUse(y)  BY <1>2, <3>1, <3>2, InsertOneUse
    <3> QED  BY <3>3, <3>4, <3>5
  <2>2. Keys(n.counts) \cap Keys(y) = {}  BY <2>1, <1>1, <1>7 DEF Apart, IsNew
  <2> HIDE DEF y
  <2>3. Sound([n EXCEPT !.counts = n.counts, !.names = y])
    BY <1>1, <1>2, <1>7, <2>1, <2>2, SoundUpdate DEF Apart
  <2>4. [n EXCEPT !.counts = n.counts, !.names = y] = [n EXCEPT !.names = y]
    BY <1>1 DEF CacheType
  <2>5. q \notin Keys(n.counts) /\ q \notin Keys(n.names)  BY <1>7 DEF IsNew
  <2> QED  BY <2>3, <2>4, <2>5, <1>7 DEF MaybeAdd, y
<1>8. CASE IsNew(n, q) /\ prep # "SHOULD"
  <2> DEFINE x == Insert(n.counts, q, 1)
  <2>1. q \notin Keys(n.counts) /\ q \notin Keys(n.names)  BY <1>8 DEF IsNew
  <2>2. x \in Seq(Entry) /\ Keys(x) \subseteq Keys(n.counts) \cup {q} /\ Distinct(x)
    <3>1. 1 \in Int  OBVIOUS
    <3>2. x \in Seq(Entry) /\ Keys(x) = Keys(n.counts) \cup {q}
      BY <1>2, <3>1, InsertTyped, InsertKeys
    <3>3. Distinct(n.counts)  BY <1>1 DEF Apart
    <3>4. Distinct(x)  BY <1>2, <2>1, <3>1, <3>3, InsertDistinct
    <3> QED  BY <3>2, <3>4
  <2> HIDE DEF x
  <2>3. Sound([n EXCEPT !.counts = x])  BY <1>3, <2>1, <2>2
  <2> QED  BY <2>1, <2>3, <1>8 DEF MaybeAdd, x
<1> QED  BY <1>4, <1>5, <1>6, <1>7, <1>8 DEF IsNew

LEMMA AddSound ==
  ASSUME NEW c, Sound(c), NEW q \in Queries, NEW prepare
  PROVE  LET g == Get(c, q, prepare)
         IN  Sound(MaybeAdd(NextName(c, g.prep), q, g.prep, g.name))
<1> DEFINE g == Get(c, q, prepare)
           n == NextName(c, g.prep)
<1>1. /\ g.prep \in {"NO", "YES", "SHOULD"} /\ g.name \in Int
      /\ g.prep = "SHOULD" => g.name = c.idx /\ q \notin Keys(c.names)
  BY GetTypes
<1> HIDE DEF g
<1>2. /\ c \in CacheType /\ Apart(c) /\ Fresh(c)  BY DEF Sound
<1>3. /\ n \in CacheType /\ n.counts = c.counts /\ n.names = c.names
      /\ n.flush = c.flush /\ n.idx = IF g.prep = "SHOULD" THEN c.idx + 1 ELSE c.idx
  <2>1. CASE g.prep = "SHOULD"
    <3>1. n = [c EXCEPT !.idx = c.idx + 1]  BY <2>1 DEF NextName
    <3>2. c.idx + 1 \in Nat  BY <1>2 DEF CacheType
    <3> QED  BY <1>2, <2>1, <3>1, <3>2 DEF CacheType
  <2>2. CASE g.prep # "SHOULD"  BY <1>2, <2>2 DEF NextName
  <2> QED  BY <2>1, <2>2
<1> HIDE DEF n
<1>4. /\ n.counts \in Seq(Entry) /\ n.names \in Seq(Entry) /\ n.flush \in Seq(Int)
      /\ c.idx \in Nat
  BY <1>2, <1>3 DEF CacheType
<1>5. \A i \in DOMAIN n.flush : n.flush[i] \in Int
  BY <1>4, ElementOfSeq, LenProperties
<1>6. Sound(n)
  <2>1. \A i \in DOMAIN n.flush : n.flush[i] < n.idx /\ n.flush[i] \notin Values(n.names)
    BY <1>2, <1>3, <1>4, <1>5 DEF Fresh
  <2>2. \A v \in Values(n.names) : v \in Nat /\ v < n.idx
    BY <1>2, <1>3, <1>4 DEF Fresh
  <2> QED  BY <1>2, <1>3, <2>1, <2>2 DEF Sound, Apart, Fresh
<1>7. g.prep = "SHOULD" =>
        /\ g.name \in Nat /\ g.name < n.idx /\ g.name \notin Values(n.names)
        /\ \A i \in DOMAIN n.flush : n.flush[i] # g.name
  BY <1>1, <1>2, <1>3, <1>4, <1>5 DEF Fresh
<1>8. Sound(MaybeAdd(n, q, g.prep, g.name))
  BY <1>1, <1>3, <1>6, <1>7, MaybeAddSound
<1> QED  BY <1>8 DEF n, g

LEMMA EmptyWithin ==
  ASSUME NEW d
  PROVE  <<>> \in Seq(Entry) /\ Within(<<>>, d)
<1> DEFINE f == [i \in {} |-> i]
           e == <<>>
<1>1. e \in Seq(Entry) /\ DOMAIN e = {}  OBVIOUS
<1>2. f \in [DOMAIN e -> DOMAIN d]  BY <1>1
<1> HIDE DEF f, e
<1>3. Within(e, d)  BY <1>1, <1>2 DEF Within
<1> QED  BY <1>1, <1>3 DEF e

\* The first entry is not used any more.
LEMMA HeadGone ==
  ASSUME NEW d \in Seq(Entry), d # <<>>
  PROVE  /\ Head(d).value \in Values(d) /\ Head(d).value \in Int
         /\ OneUse(d) => Head(d).value \notin Values(Tail(d))
<1>1. /\ Tail(d) \in Seq(Entry) /\ Len(Tail(d)) = Len(d) - 1
      /\ \A i \in 1..Len(Tail(d)) : Tail(d)[i] = d[i + 1]
  BY HeadTailProperties
<1>2. /\ DOMAIN d = 1..Len(d) /\ Len(d) \in Nat /\ Len(d) # 0
      /\ DOMAIN Tail(d) = 1..(Len(d) - 1) /\ Head(d) = d[1] /\ d[1] \in Entry
  BY <1>1, LenProperties, EmptySeq, ElementOfSeq
<1>3. Head(d).value \in Values(d) /\ Head(d).value \in Int
  BY <1>2 DEF Values, Entry
<1>4. ASSUME OneUse(d), NEW i \in DOMAIN Tail(d), Tail(d)[i].value = Head(d).value
      PROVE  FALSE
  <2>1. i + 1 \in DOMAIN d /\ i + 1 # 1 /\ 1 \in DOMAIN d /\ Tail(d)[i] = d[i + 1]
    BY <1>1, <1>2
  <2> QED  BY <2>1, <1>2, <1>4 DEF OneUse
<1>5. OneUse(d) => Head(d).value \notin Values(Tail(d))  BY <1>4 DEF Values
<1> QED  BY <1>3, <1>5

\* Entries are removed, and names that are not used are to be deallocated.
LEMMA SoundLess ==
  ASSUME NEW c, Sound(c), NEW counts \in Seq(Entry), NEW names \in Seq(Entry),
         Within(counts, c.counts), Within(names, c.names), NEW flush \in Seq(Int),
         \A i \in DOMAIN flush : flush[i] < c.idx /\ flush[i] \notin Values(names)
  PROVE  Sound([c EXCEPT !.counts = counts, !.names = names, !.flush = flush])
<1> DEFINE d == [c EXCEPT !.counts = counts, !.names = names, !.flush = flush]
<1>1. c \in CacheType /\ Apart(c) /\ Fresh(c)  BY DEF Sound
<1>2. d \in CacheType /\ d.counts = counts /\ d.names = names
      /\ d.idx = c.idx /\ d.flush = flush
  BY <1>1 DEF CacheType
<1> HIDE DEF d
<1>3. Keys(counts) \subseteq Keys(c.counts) /\ (Distinct(c.counts) => Distinct(counts))
  BY WithinKeeps
<1>4. /\ Keys(names) \subseteq Keys(c.names) /\ Values(names) \subseteq Values(c.names)
      /\ (Distinct(c.names) => Distinct(names)) /\ (OneUse(c.names) => OneUse(names))
  BY WithinKeeps
<1>5. Apart(d)  BY <1>1, <1>2, <1>3, <1>4 DEF Apart
<1>6. Fresh(d)  BY <1>1, <1>2, <1>4 DEF Fresh
<1> QED  BY <1>2, <1>5, <1>6 DEF Sound, d

\* The parts of a sound cache.
LEMMA SoundParts ==
  ASSUME NEW c, Sound(c)
  PROVE  /\ c \in CacheType /\ c.counts \in Seq(Entry) /\ c.names \in Seq(Entry)
         /\ c.idx \in Nat /\ c.flush \in Seq(Int) /\ OneUse(c.names)
         /\ \A v \in Values(c.names) : v \in Nat /\ v < c.idx
         /\ \A i \in DOMAIN c.flush :
              /\ c.flush[i] \in Int /\ c.flush[i] < c.idx
              /\ c.flush[i] \notin Values(c.names)
<1>1. c \in CacheType /\ Fresh(c)  BY DEF Sound
<1>2. /\ c.counts \in Seq(Entry) /\ c.names \in Seq(Entry)
      /\ c.idx \in Nat /\ c.flush \in Seq(Int)
  BY <1>1 DEF CacheType
<1>3. \A i \in DOMAIN c.flush : c.flush[i] \in Int
  BY <1>2, LenProperties, ElementOfSeq
<1> QED  BY <1>1, <1>2, <1>3 DEF Fresh

LEMMA ClearSound ==
  ASSUME NEW c, Sound(c)
  PROVE  Sound(Clear(c))
<1> DEFINE flush == IF c.names = <<>> THEN c.flush ELSE <<All>>
<1>1. flush \in Seq(Int)  BY SoundParts DEF All
<1>2. Values(<<>>) = {}  BY DEF Values
<1>3. \A i \in DOMAIN flush : flush[i] < c.idx /\ flush[i] \notin Values(<<>>)
  <2>1. CASE c.names = <<>>  BY <1>2, <2>1, SoundParts
  <2>2. CASE c.names # <<>>
    <3>1. All \in Int /\ All < c.idx  BY SoundParts DEF All
    <3>2. flush = <<All>>  BY <2>2
    <3>3. \A i \in DOMAIN flush : flush[i] = All  BY <3>2
    <3> QED  BY <1>2, <3>1, <3>3
  <2> QED  BY <2>1, <2>2
<1> HIDE DEF flush
<1>4. Sound([c EXCEPT !.counts = <<>>, !.names = <<>>, !.flush = flush])
  BY <1>1, <1>3, EmptyWithin, SoundLess
<1> QED  BY <1>4 DEF Clear, flush

\* Some of the names to deallocate were sent.
LEMMA FlushSound ==
  ASSUME NEW c, Sound(c), NEW flush \in Seq(Int), Within(flush, c.flush)
  PROVE  Sound([c EXCEPT !.flush = flush])
<1>1. c \in CacheType /\ c.counts \in Seq(Entry) /\ c.names \in Seq(Entry)
  BY SoundParts
<1>2. ASSUME NEW i \in DOMAIN flush
      PROVE  flush[i] < c.idx /\ flush[i] \notin Values(c.names)
  BY SoundParts DEF Within
<1>3. Sound([c EXCEPT !.counts = c.counts, !.names = c.names, !.flush = flush])
  BY <1>1, <1>2, SameWithin, SoundLess
<1>4. [c EXCEPT !.counts = c.counts, !.names = c.names, !.flush = flush]
        = [c EXCEPT !.flush = flush]
  BY <1>1 DEF CacheType
<1> QED  BY <1>3, <1>4

\* The oldest count.
LEMMA CountsSound ==
  ASSUME NEW c, Sound(c), NEW counts \in Seq(Entry), Within(counts, c.counts)
  PROVE  Sound([c EXCEPT !.counts = counts])
<1>1. /\ c \in CacheType /\ c.names \in Seq(Entry) /\ c.flush \in Seq(Int)
      /\ \A i \in DOMAIN c.flush : c.flush[i] < c.idx
                                 /\ c.flush[i] \notin Values(c.names)
  BY SoundParts
<1>2. Sound([c EXCEPT !.counts = counts, !.names = c.names, !.flush = c.flush])
  BY <1>1, SameWithin, SoundLess
<1>3. [c EXCEPT !.counts = counts, !.names = c.names, !.flush = c.flush]
        = [c EXCEPT !.counts = counts]
  BY <1>1 DEF CacheType
<1> QED  BY <1>2, <1>3

LEMMA EvictSound ==
  ASSUME NEW c, Sound(c)
  PROVE  Sound(EvictName(c))
<1>1. CASE Len(c.names) <= PreparedMax  BY <1>1 DEF EvictName
<1>2. CASE ~(Len(c.names) <= PreparedMax)
  <2> DEFINE v == Head(c.names).value
             flush == Append(c.flush, v)
  <2>1. /\ c \in CacheType /\ c.names \in Seq(Entry) /\ c.idx \in Nat
        /\ c.counts \in Seq(Entry) /\ c.flush \in Seq(Int) /\ OneUse(c.names)
    BY SoundParts
  <2>2. c.names # <<>>  BY <1>2, <2>1, CacheAssumption, EmptySeq
  <2>3. /\ v \in Int /\ v < c.idx /\ v \notin Values(Tail(c.names))
    BY <2>1, <2>2, HeadGone, SoundParts
  <2>4. /\ Tail(c.names) \in Seq(Entry) /\ Within(Tail(c.names), c.names)
        /\ Values(Tail(c.names)) \subseteq Values(c.names)
    BY <2>1, <2>2, TailWithin, WithinKeeps
  <2> HIDE DEF v
  <2>5. /\ flush \in Seq(Int) /\ Len(flush) = Len(c.flush) + 1
        /\ flush[Len(c.flush) + 1] = v
        /\ \A i \in 1..Len(c.flush) : flush[i] = c.flush[i]
    BY <2>1, <2>3, AppendProperties
  <2> HIDE DEF flush
  <2>6. /\ DOMAIN flush = 1..(Len(c.flush) + 1) /\ Len(c.flush) \in Nat
        /\ DOMAIN c.flush = 1..Len(c.flush)
    BY <2>1, <2>5, LenProperties
  <2>7. ASSUME NEW i \in DOMAIN flush
        PROVE  flush[i] < c.idx /\ flush[i] \notin Values(Tail(c.names))
    <3>1. CASE i = Len(c.flush) + 1  BY <3>1, <2>3, <2>5
    <3>2. CASE i \in DOMAIN c.flush
      <4>1. flush[i] = c.flush[i]  BY <3>2, <2>5, <2>6
      <4> QED  BY <3>2, <4>1, <2>4, SoundParts
    <3> QED  BY <3>1, <3>2, <2>6
  <2>8. Sound([c EXCEPT !.counts = c.counts, !.names = Tail(c.names), !.flush = flush])
    BY <2>1, <2>4, <2>5, <2>7, SameWithin, SoundLess
  <2>9. [c EXCEPT !.counts = c.counts, !.names = Tail(c.names), !.flush = flush]
          = [c EXCEPT !.names = Tail(c.names), !.flush = flush]
    BY <2>1 DEF CacheType
  <2> QED  BY <2>8, <2>9, <1>2 DEF EvictName, flush, v
<1> QED  BY <1>1, <1>2

LEMMA RotateSound ==
  ASSUME NEW c, Sound(c)
  PROVE  Sound(Rotate(c))
<1> DEFINE counts == IF Len(c.counts) > PreparedMax THEN Tail(c.counts) ELSE c.counts
<1>1. c.counts \in Seq(Entry)  BY SoundParts
<1>2. counts \in Seq(Entry) /\ Within(counts, c.counts)
  <2>1. CASE Len(c.counts) > PreparedMax
    <3>1. c.counts # <<>>  BY <1>1, <2>1, CacheAssumption, EmptySeq
    <3> QED  BY <1>1, <2>1, <3>1, TailWithin
  <2>2. CASE ~(Len(c.counts) > PreparedMax)  BY <1>1, <2>2, SameWithin
  <2> QED  BY <2>1, <2>2
<1> HIDE DEF counts
<1>3. Sound([c EXCEPT !.counts = counts])  BY <1>2, CountsSound
<1>4. Sound(EvictName([c EXCEPT !.counts = counts]))  BY <1>3, EvictSound
<1> QED  BY <1>4 DEF Rotate, counts

LEMMA ValidateSound ==
  ASSUME NEW c, Sound(c), NEW q, NEW prep, NEW ok, NEW kind
  PROVE  Sound(Validate(c, q, prep, ok, kind))
<1> DEFINE d == IF ShouldDiscard(c, prep, ok, kind) THEN Clear(c) ELSE c
           cleared == ShouldDiscard(c, prep, ok, kind) /\ c.names # <<>>
           names == Delete(d.names, q)
           counts == Delete(d.counts, q)
<1>1. Sound(d)  BY ClearSound
<1>2. CASE cleared
  <2>1. ok  BY <1>2 DEF ShouldDiscard
  <2>2. Validate(c, q, prep, ok, kind) = d  BY <1>2, <2>1 DEF Validate
  <2> QED  BY <1>1, <2>2
<1>3. CASE ~cleared /\ ~ok
  <2> HIDE DEF d
  <2>1. /\ d \in CacheType /\ d.counts \in Seq(Entry) /\ d.names \in Seq(Entry)
        /\ d.flush \in Seq(Int)
        /\ \A i \in DOMAIN d.flush : d.flush[i] < d.idx
                                   /\ d.flush[i] \notin Values(d.names)
    BY <1>1, SoundParts
  <2>2. /\ names \in Seq(Entry) /\ Within(names, d.names)
        /\ counts \in Seq(Entry) /\ Within(counts, d.counts)
    BY <2>1, DeleteEntry
  <2>3. Values(names) \subseteq Values(d.names)  BY <2>2, WithinKeeps
  <2> HIDE DEF names, counts
  <2>4. Sound([d EXCEPT !.counts = counts, !.names = names, !.flush = d.flush])
    BY <1>1, <2>1, <2>2, <2>3, SoundLess
  <2>5. [d EXCEPT !.counts = counts, !.names = names, !.flush = d.flush]
          = [d EXCEPT !.names = names, !.counts = counts]
    BY <2>1 DEF CacheType
  <2>6. Validate(c, q, prep, ok, kind) = [d EXCEPT !.names = names, !.counts = counts]
    BY <1>3 DEF Validate, d, names, counts
  <2> QED  BY <2>4, <2>5, <2>6
<1>4. CASE ~cleared /\ ok
  <2>1. Validate(c, q, prep, ok, kind) = Rotate(d)  BY <1>4 DEF Validate
  <2> QED  BY <1>1, <2>1, RotateSound
<1> QED  BY <1>2, <1>3, <1>4

-----------------------------------------------------------------------------
(* The phases of the calls.                                                 *)

LEMMA DoTyped ==
  ASSUME NEW op \in PhaseOps, op # "send"
  PROVE  Do(op) \in PhaseType
<1> DEFINE x == Do(op)
<1>1. x = [op |-> op, query |-> NoQuery, prepare |-> "auto"]  BY DEF Do, Send
<1>2. x \in [op : PhaseOps, query : AnyQuery, prepare : {"auto", "yes", "no"}]
  BY <1>1 DEF AnyQuery
<1>3. x.op # "send"  BY <1>1
<1> HIDE DEF x
<1>4. x \in PhaseType  BY <1>2, <1>3 DEF PhaseType
<1> QED  BY <1>4 DEF x

LEMMA SendTyped ==
  ASSUME NEW q \in Queries, NEW prepare \in {"auto", "yes", "no"}
  PROVE  Send(q, prepare) \in PhaseType
<1> DEFINE x == Send(q, prepare)
<1>1. /\ x \in [op : PhaseOps, query : AnyQuery, prepare : {"auto", "yes", "no"}]
      /\ x.query = q
  BY DEF Send, AnyQuery, PhaseOps
<1> HIDE DEF x
<1>2. x \in PhaseType  BY <1>1 DEF PhaseType
<1> QED  BY <1>2 DEF x

LEMMA PhasesTyped ==
  ASSUME NEW q \in Queries, NEW prepare \in {"auto", "yes", "no"}, NEW returning \in BOOLEAN
  PROVE  /\ SyncGen \in Seq(PhaseType) /\ Exit \in Seq(PhaseType)
         /\ ExecutePhases(q, prepare) \in Seq(PhaseType)
         /\ ManyPhases(q, returning) \in Seq(PhaseType)
         /\ <<Do("enter"), Do("ride")>> \in Seq(PhaseType)
<1>1. /\ Do("start") \in PhaseType /\ Do("communicate") \in PhaseType
      /\ Do("fetch") \in PhaseType /\ Do("maintain") \in PhaseType
      /\ Do("enter") \in PhaseType /\ Do("ride") \in PhaseType
      /\ Do("exit") \in PhaseType /\ Do("leave") \in PhaseType
  <2>1. \A op \in PhaseOps : op # "send" => Do(op) \in PhaseType  BY DoTyped
  <2> QED  BY <2>1 DEF PhaseOps
<1>2. Send(q, prepare) \in PhaseType  BY SendTyped, Zenon
<1>3. Send(q, "yes") \in PhaseType
  <2>1. "yes" \in {"auto", "yes", "no"}  OBVIOUS
  <2> QED  BY <2>1, SendTyped, Zenon
<1>4. SyncGen \in Seq(PhaseType) /\ Exit \in Seq(PhaseType)
      /\ <<Do("enter"), Do("ride")>> \in Seq(PhaseType)
  BY <1>1 DEF SyncGen, Exit
<1>5. ExecutePhases(q, prepare) \in Seq(PhaseType)
  <2>1. /\ <<Do("start"), Send(q, prepare)>> \in Seq(PhaseType)
        /\ <<Do("communicate")>> \in Seq(PhaseType)
        /\ <<>> \in Seq(PhaseType) /\ <<Do("maintain")>> \in Seq(PhaseType)
    BY <1>1, <1>2
  <2> QED  BY <2>1, ConcatProperties DEF ExecutePhases
<1>6. ManyPhases(q, returning) \in Seq(PhaseType)
  <2>1. /\ <<Do("start"), Send(q, "yes"), Do("communicate"), Send(q, "yes"),
             Do("communicate")>> \in Seq(PhaseType)
        /\ <<Do("fetch")>> \in Seq(PhaseType)
        /\ <<>> \in Seq(PhaseType) /\ <<Do("maintain")>> \in Seq(PhaseType)
    BY <1>1, <1>3
  <2> QED  BY <2>1, ConcatProperties DEF ManyPhases
<1> QED  BY <1>4, <1>5, <1>6

LEMMA ContinueTyped ==
  ASSUME TodoTyped, NEW t \in Threads, todo[t] # <<>>,
         NEW phases \in Seq(PhaseType), Continue(t, phases)
  PROVE  TodoTyped'
<1>1. todo[t] \in Seq(PhaseType)  BY DEF TodoTyped
<1>2. Tail(todo[t]) \in Seq(PhaseType)  BY <1>1, HeadTailProperties
<1>3. phases \o Tail(todo[t]) \in Seq(PhaseType)  BY <1>2, ConcatProperties
<1> QED  BY <1>3 DEF Continue, TodoTyped

LEMMA StartTyped ==
  ASSUME TodoTyped, NEW t \in Threads, NEW phases \in Seq(PhaseType),
         Start(t, phases)
  PROVE  TodoTyped'
BY DEF Start, TodoTyped

LEMMA RaiseTyped ==
  ASSUME TodoTyped, NEW t \in Threads, Raise(t)
  PROVE  TodoTyped'
<1>1. todo[t] \in Seq(PhaseType)  BY DEF TodoTyped
<1>2. PICK i \in 2..(Len(todo[t]) + 1) :
        todo' = [todo EXCEPT ![t] = SubSeq(@, i, Len(@))]
  BY DEF Raise
<1>3. SubSeq(todo[t], i, Len(todo[t])) \in Seq(PhaseType)
  <2>1. Len(todo[t]) \in Nat /\ \A j \in 1..Len(todo[t]) : todo[t][j] \in PhaseType
    BY <1>1, LenProperties, ElementOfSeq
  <2>2. \A j \in i..Len(todo[t]) : todo[t][j] \in PhaseType  BY <2>1, <1>2
  <2>3. i \in Int /\ Len(todo[t]) \in Int  BY <2>1, <1>2
  <2> QED  BY <2>2, <2>3, SubSeqProperties
<1> QED  BY <1>2, <1>3 DEF TodoTyped

LEMMA ContinueIfTyped ==
  ASSUME TodoTyped, NEW t \in Threads, todo[t] # <<>>, NEW ok, ContinueIf(ok, t)
  PROVE  TodoTyped'
<1>1. <<>> \in Seq(PhaseType)  OBVIOUS
<1> QED  BY <1>1, ContinueTyped, RaiseTyped DEF ContinueIf

\* A call in progress is at a phase.
LEMMA AtPhase ==
  ASSUME TodoTyped, NEW t \in Threads, NEW phase, At(t, phase)
  PROVE  /\ todo[t] # <<>> /\ Head(todo[t]) \in PhaseType
         /\ Head(todo[t]).prepare \in {"auto", "yes", "no"}
         /\ phase = "send" => Head(todo[t]).query \in Queries
<1>1. todo[t] \in Seq(PhaseType) /\ todo[t] # <<>>  BY DEF At, TodoTyped
<1>2. Head(todo[t]) \in PhaseType  BY <1>1, HeadTailProperties
<1> QED  BY <1>1, <1>2 DEF PhaseType, At

LEMMA CallTyped ==
  ASSUME TodoTyped, NEW t \in Threads, Call(t)
  PROVE  TodoTyped'
<1>1. ASSUME NEW q \in Queries, NEW prepare \in {"auto", "yes", "no"},
             execute(t, q, prepare)
      PROVE  TodoTyped'
  <2>1. TRUE \in BOOLEAN  OBVIOUS
  <2>2. ExecutePhases(q, prepare) \in Seq(PhaseType)  BY <2>1, PhasesTyped
  <2> QED  BY <1>1, <2>2, StartTyped DEF execute
<1>2. ASSUME NEW q \in Queries, NEW returning \in BOOLEAN,
             executemany(t, q, returning)
      PROVE  TodoTyped'
  <2>1. "yes" \in {"auto", "yes", "no"}  OBVIOUS
  <2>2. /\ ManyPhases(q, returning) \in Seq(PhaseType) /\ Exit \in Seq(PhaseType)
        /\ <<Do("enter"), Do("ride")>> \in Seq(PhaseType)
    BY <2>1, PhasesTyped
  <2>3. <<Do("enter"), Do("ride")>> \o ManyPhases(q, returning) \o Exit
          \in Seq(PhaseType)
    BY <2>2, ConcatProperties
  <2> QED  BY <1>2, <2>2, <2>3, StartTyped DEF executemany
<1>3. /\ SyncGen \in Seq(PhaseType) /\ Exit \in Seq(PhaseType)
      /\ <<Do("enter")>> \in Seq(PhaseType) /\ <<Do("fetch")>> \in Seq(PhaseType)
      /\ <<Do("rollback")>> \in Seq(PhaseType)
      /\ SyncGen \o <<Do("rollback")>> \in Seq(PhaseType)
  <2>1. \A op \in PhaseOps : op # "send" => Do(op) \in PhaseType  BY DoTyped
  <2>2. /\ Do("communicate") \in PhaseType /\ Do("fetch") \in PhaseType
        /\ Do("enter") \in PhaseType /\ Do("exit") \in PhaseType
        /\ Do("leave") \in PhaseType /\ Do("rollback") \in PhaseType
    BY <2>1 DEF PhaseOps
  <2>3. SyncGen \in Seq(PhaseType) /\ Exit \in Seq(PhaseType)
    BY <2>2 DEF SyncGen, Exit
  <2>4. <<Do("rollback")>> \in Seq(PhaseType)  BY <2>2
  <2> QED  BY <2>2, <2>3, <2>4, ConcatProperties
<1>4. CASE enter(t)  BY <1>3, <1>4, StartTyped DEF enter
<1>5. CASE exit(t)  BY <1>3, <1>5, StartTyped DEF exit
<1>6. CASE sync(t)  BY <1>3, <1>6, StartTyped DEF sync
<1>7. CASE fetch(t)  BY <1>3, <1>7, StartTyped DEF fetch
<1>8. CASE commit_now(t)  BY <1>8 DEF commit_now, TodoTyped
<1>9. CASE commit_enqueued(t)  BY <1>3, <1>9, StartTyped DEF commit_enqueued
<1>10. CASE rollback(t)
  BY <1>3, <1>10, StartTyped DEF rollback
<1> QED  BY <1>1, <1>2, <1>4, <1>5, <1>6, <1>7, <1>8, <1>9, <1>10 DEF Call

LEMMA StepTyped ==
  ASSUME TodoTyped, NEW t \in Threads, Step(t)
  PROVE  TodoTyped'
<1>1. /\ <<>> \in Seq(PhaseType) /\ SyncGen \in Seq(PhaseType)
      /\ <<Do("maintain")>> \in Seq(PhaseType)
      /\ SyncGen \o <<Do("entered")>> \in Seq(PhaseType)
      /\ <<Do("communicate"), Do("exit_fetch")>> \in Seq(PhaseType)
  <2>1. \A op \in PhaseOps : op # "send" => Do(op) \in PhaseType  BY DoTyped
  <2>2. /\ Do("communicate") \in PhaseType /\ Do("fetch") \in PhaseType
        /\ Do("exit_fetch") \in PhaseType /\ Do("entered") \in PhaseType
        /\ Do("maintain") \in PhaseType
    BY <2>1 DEF PhaseOps
  <2>3. SyncGen \in Seq(PhaseType)  BY <2>2 DEF SyncGen
  <2>4. <<Do("entered")>> \in Seq(PhaseType)  BY <2>2
  <2> QED  BY <2>2, <2>3, <2>4, ConcatProperties
<1>2. ASSUME NEW phases \in Seq(PhaseType), todo[t] # <<>>, Continue(t, phases)
      PROVE  TodoTyped'
  BY <1>2, ContinueTyped
<1>3. CASE start_skipped(t)  BY <1>1, <1>2, <1>3 DEF start_skipped, At
<1>4. CASE start_now(t)  BY <1>4, ContinueIfTyped DEF start_now, At
<1>5. CASE start_enqueued(t)  BY <1>1, <1>2, <1>5 DEF start_enqueued, At
<1>6. CASE prepare_fails(t)  BY <1>6, RaiseTyped DEF prepare_fails
<1>7. CASE execute_now(t)
  <2>1. PICK ok : ContinueIf(ok, t)  BY <1>7 DEF execute_now
  <2> QED  BY <1>7, <2>1, ContinueIfTyped DEF execute_now, At
<1>8. CASE execute_enqueued(t)  BY <1>1, <1>2, <1>8 DEF execute_enqueued, At
<1>9. CASE maintain_ends(t)  BY <1>1, <1>2, <1>9 DEF maintain_ends, At
<1>10. CASE maintain_now(t)  BY <1>10, RaiseTyped DEF maintain_now, TodoTyped
<1>11. CASE maintain_enqueued(t)  BY <1>1, <1>2, <1>11 DEF maintain_enqueued, At
<1>12. CASE transmit(t)  BY <1>12 DEF transmit, TodoTyped
<1>13. CASE receive(t)  BY <1>13 DEF receive, TodoTyped
<1>14. CASE batch_ends(t)  BY <1>14, ContinueIfTyped DEF batch_ends, At
<1>15. CASE ride(t)  BY <1>1, <1>2, <1>15 DEF ride, At
<1>16. CASE enter_syncs(t)  BY <1>1, <1>2, <1>16 DEF enter_syncs, At
<1>17. CASE enters(t)  BY <1>1, <1>2, <1>17 DEF enters, At
<1>18. CASE exit_gen(t)  BY <1>1, <1>2, <1>18 DEF exit_gen, At
<1>19. CASE leave(t)  BY <1>1, <1>2, <1>19 DEF leave, At
<1>20. CASE rollback_skipped(t)  BY <1>1, <1>2, <1>20 DEF rollback_skipped, At
<1>21. CASE rollback_now(t)  BY <1>1, <1>2, <1>21 DEF rollback_now, At
<1>22. CASE rollback_enqueued(t)  BY <1>1, <1>2, <1>22 DEF rollback_enqueued, At
<1> QED
  BY <1>3, <1>4, <1>5, <1>6, <1>7, <1>8, <1>9, <1>10, <1>11, <1>12, <1>13, <1>14,
     <1>15, <1>16, <1>17, <1>18, <1>19, <1>20, <1>21, <1>22 DEF Step

-----------------------------------------------------------------------------
(* The cache.                                                               *)

CacheInv == TodoTyped /\ Sound(cache)

\* get() alone: a name is given, and nothing is prepared.
LEMMA NextNameSound ==
  ASSUME NEW c, Sound(c), NEW prep
  PROVE  Sound(NextName(c, prep))
<1>1. CASE prep # "SHOULD"  BY <1>1 DEF NextName
<1>2. CASE prep = "SHOULD"
  <2> DEFINE n == [c EXCEPT !.idx = c.idx + 1]
  <2>1. /\ c \in CacheType /\ c.idx \in Nat /\ Apart(c) /\ OneUse(c.names)
        /\ \A v \in Values(c.names) : v \in Nat /\ v < c.idx
        /\ \A i \in DOMAIN c.flush :
             /\ c.flush[i] \in Int /\ c.flush[i] < c.idx
             /\ c.flush[i] \notin Values(c.names)
    BY SoundParts DEF Sound
  <2>2. n \in CacheType /\ n.counts = c.counts /\ n.names = c.names
        /\ n.idx = c.idx + 1 /\ n.flush = c.flush
    BY <2>1, SMTT(40) DEF CacheType
  <2> HIDE DEF n
  <2>3. Apart(n)  BY <2>1, <2>2 DEF Apart
  <2>4. \A v \in Values(n.names) : v \in Nat /\ v < n.idx  BY <2>1, <2>2
  <2>5. \A i \in DOMAIN n.flush : n.flush[i] < n.idx /\ n.flush[i] \notin Values(n.names)
    BY <2>1, <2>2
  <2>6. Fresh(n)  BY <2>1, <2>2, <2>4, <2>5 DEF Fresh
  <2>7. NextName(c, prep) = n  BY <1>2 DEF NextName, n
  <2> QED  BY <2>2, <2>3, <2>6, <2>7 DEF Sound
<1> QED  BY <1>1, <1>2

\* Only these touch the cache.
LEMMA StepSound ==
  ASSUME CacheInv, NEW t \in Threads, Step(t)
  PROVE  Sound(cache)'
<1> USE DEF CacheInv
<1>1. CASE UNCHANGED cache  BY <1>1
<1>2. CASE prepare_fails(t)
  <2>1. PICK prep : cache' = NextName(cache, prep)  BY <1>2 DEF prepare_fails
  <2> QED  BY <2>1, NextNameSound
<1>3. CASE execute_now(t)
  <2> DEFINE q == Head(todo[t]).query
             got == Get(cache, q, Head(todo[t]).prepare)
             added == MaybeAdd(NextName(cache, got.prep), q, got.prep, got.name)
  <2>1. q \in Queries  BY <1>3, AtPhase DEF execute_now
  <2>2. Sound(added)  BY <2>1, AddSound
  <2>3. PICK ok : cache' = IF IsNew(cache, q)
                           THEN Validate(added, q, got.prep, ok, Kind[q]) ELSE added
    BY <1>3 DEF execute_now
  <2> HIDE DEF added
  <2> QED  BY <2>2, <2>3, ValidateSound
<1>4. CASE execute_enqueued(t)
  <2>1. Head(todo[t]).query \in Queries  BY <1>4, AtPhase DEF execute_enqueued
  <2> QED  BY <1>4, <2>1, AddSound DEF execute_enqueued
<1>5. CASE maintain_now(t)
  <2>1. cache.flush \in Seq(Int) /\ cache.flush # <<>>
    BY <1>5, SoundParts DEF maintain_now
  <2>2. Tail(cache.flush) \in Seq(Int) /\ Within(Tail(cache.flush), cache.flush)
    BY <2>1, TailWithin
  <2> QED  BY <1>5, <2>2, FlushSound DEF maintain_now
<1>6. ASSUME NEW c, Sound(c)  PROVE Sound([c EXCEPT !.flush = <<>>])
  <2>1. <<>> \in Seq(Int)  OBVIOUS
  <2> QED  BY <1>6, <2>1, EmptyWithin, FlushSound
<1>7. CASE maintain_enqueued(t)  BY <1>6, <1>7 DEF maintain_enqueued
<1>8. CASE receive(t)
  <2>1. PICK ok : cache' = IF Head(results).new
                           THEN Validate(cache, Head(results).query, Head(results).prep,
                                         ok, Kind[Head(results).query])
                           ELSE cache
    BY <1>8 DEF receive
  <2> QED  BY <2>1, ValidateSound
<1>9. CASE rollback_now(t)  BY <1>9, ClearSound DEF rollback_now
<1>10. CASE rollback_enqueued(t)
  <2>1. Sound(Clear(cache))  BY ClearSound
  <2> QED  BY <1>6, <1>10, <2>1 DEF rollback_enqueued
<1> QED
  BY <1>1, <1>2, <1>3, <1>4, <1>5, <1>7, <1>8, <1>9, <1>10
  DEF Step, start_skipped, start_now, start_enqueued, maintain_ends, transmit,
      batch_ends, ride, enter_syncs, enters, exit_gen, leave, rollback_skipped

LEMMA CallSound ==
  ASSUME NEW t \in Threads, Call(t)
  PROVE  UNCHANGED cache
BY DEF Call, execute, executemany, enter, exit, sync, fetch, commit_now,
       commit_enqueued, rollback

LEMMA InitSound ==
  ASSUME Init
  PROVE  CacheInv
<1>1. TodoTyped  BY DEF Init, TodoTyped
<1>2. /\ cache = NewCache /\ cache \in CacheType
      /\ cache.counts = <<>> /\ cache.names = <<>> /\ cache.flush = <<>>
  BY DEF Init, NewCache, CacheType
<1>3. Keys(<<>>) = {} /\ Values(<<>>) = {} /\ Distinct(<<>>) /\ OneUse(<<>>)
  BY DEF Keys, Values, Distinct, OneUse
<1>4. Apart(cache)  BY <1>2, <1>3 DEF Apart
<1>5. Fresh(cache)  BY <1>2, <1>3 DEF Fresh
<1> QED  BY <1>1, <1>2, <1>4, <1>5 DEF CacheInv, Sound

LEMMA CacheCorrect == Spec => []CacheInv
<1>1. Init => CacheInv  BY InitSound
<1>2. CacheInv /\ [Next]_vars => CacheInv'
  <2> SUFFICES ASSUME CacheInv, [Next]_vars  PROVE CacheInv'
    OBVIOUS
  <2>1. CASE UNCHANGED vars  BY <2>1 DEF vars, CacheInv, TodoTyped
  <2>2. ASSUME NEW t \in Threads, Call(t)  PROVE CacheInv'
    BY <2>2, CallTyped, CallSound DEF CacheInv
  <2>3. ASSUME NEW t \in Threads, Step(t)  PROVE CacheInv'
    BY <2>3, StepTyped, StepSound DEF CacheInv
  <2> QED  BY <2>1, <2>2, <2>3 DEF Next
<1> QED  BY <1>1, <1>2, PTL DEF Spec

\* A query is counted or prepared, not both, and is there once
\* (PrepareManager.maybe_add_to_cache).
THEOREM KeysApartCorrect == Spec => []KeysApart
<1>1. CacheInv => KeysApart  BY DEF CacheInv, Sound, Apart, KeysApart
<1> QED  BY <1>1, CacheCorrect, PTL

\* A statement about to be deallocated is not in use any more, and no name is
\* used for two queries, for any order of results, failures and rollbacks
\* (PrepareManager._rotate).
THEOREM FreedIsForgottenCorrect == Spec => []FreedIsForgotten
<1>1. CacheInv => FreedIsForgotten
  <2> SUFFICES ASSUME CacheInv  PROVE FreedIsForgotten
    OBVIOUS
  <2>1. OneUse(cache.names)
        /\ \A i \in DOMAIN cache.flush : cache.flush[i] \notin Values(cache.names)
    BY SoundParts DEF CacheInv
  <2> QED  BY <2>1 DEF FreedIsForgotten, OneUse
<1> QED  BY <1>1, CacheCorrect, PTL

-----------------------------------------------------------------------------
(* The queues.                                                              *)

InternalType == {c \in CommandType : Owner(c) = NoQuery}
Matched(cs, slots) ==
  Len(slots) = Len(cs) /\ \A i \in DOMAIN cs : slots[i].query = Owner(cs[i])

LEMMA SeqParts ==
  ASSUME NEW S, NEW s \in Seq(S)
  PROVE  Len(s) \in Nat /\ DOMAIN s = 1..Len(s) /\ \A i \in 1..Len(s) : s[i] \in S
BY LenProperties, ElementOfSeq

\* Commands and what their results are for are appended together.
LEMMA EnqueueInStep ==
  ASSUME QueuesTyped, InStep, UNCHANGED wire,
         NEW cs \in Seq(CommandType), NEW slots \in Seq(SlotType),
         Matched(cs, slots), Enqueue(cs, slots)
  PROVE  (QueuesTyped /\ InStep)'
<1> DEFINE w == Len(wire)
           n == Len(commands)
<1>1. /\ commands \in Seq(CommandType) /\ results \in Seq(SlotType)
      /\ wire \in Seq(ResultType) /\ wire' = wire
      /\ commands' = commands \o cs /\ results' = results \o slots
  BY DEF QueuesTyped, Enqueue
<1>2. /\ w \in Nat /\ n \in Nat /\ Len(cs) \in Nat /\ Len(slots) = Len(cs)
      /\ Len(results) = w + n
      /\ DOMAIN wire = 1..w /\ DOMAIN commands = 1..n /\ DOMAIN cs = 1..Len(cs)
  BY <1>1, SeqParts DEF InStep, Matched
<1>3. /\ commands' \in Seq(CommandType) /\ Len(commands') = n + Len(cs)
      /\ \A i \in 1..(n + Len(cs)) :
           commands'[i] = IF i <= n THEN commands[i] ELSE cs[i - n]
  BY <1>1, ConcatProperties
<1>4. /\ results' \in Seq(SlotType) /\ Len(results') = w + n + Len(cs)
      /\ \A i \in 1..(w + n + Len(cs)) :
           results'[i] = IF i <= w + n THEN results[i] ELSE slots[i - (w + n)]
  <2>1. /\ results' \in Seq(SlotType) /\ Len(results') = Len(results) + Len(slots)
        /\ \A i \in 1..(Len(results) + Len(slots)) :
             results'[i] = IF i <= Len(results) THEN results[i]
                           ELSE slots[i - Len(results)]
    BY <1>1, ConcatProperties
  <2> QED  BY <1>2, <2>1
<1>5. DOMAIN commands' = 1..(n + Len(cs))  BY <1>3, SeqParts
<1>6. /\ \A i \in 1..w : results[i].query = wire[i].query
      /\ \A i \in 1..n : results[w + i].query = Owner(commands[i])
      /\ \A i \in 1..Len(cs) : slots[i].query = Owner(cs[i])
  BY <1>2 DEF InStep, Matched
<1> HIDE DEF w, n
<1>7. ASSUME NEW i \in 1..w  PROVE results'[i].query = wire'[i].query
  BY <1>1, <1>2, <1>4, <1>6
<1>8. ASSUME NEW i \in 1..(n + Len(cs))
      PROVE  results'[w + i].query = Owner(commands'[i])
  <2>1. CASE i <= n
    <3>1. /\ i \in 1..n /\ w + i \in 1..(w + n + Len(cs)) /\ w + i <= w + n
      BY <2>1, <1>2
    <3>2. results'[w + i] = results[w + i] /\ commands'[i] = commands[i]
      BY <2>1, <3>1, <1>3, <1>4
    <3> QED  BY <3>1, <3>2, <1>6
  <2>2. CASE ~(i <= n)
    <3> DEFINE j == w + i
    <3>1. /\ i - n \in 1..Len(cs) /\ j \in 1..(w + n + Len(cs))
          /\ ~(j <= w + n) /\ j - (w + n) = i - n
      BY <2>2, <1>2
    <3> HIDE DEF j
    <3>2. results'[j] = slots[j - (w + n)]  BY <3>1, <1>4
    <3>3. commands'[i] = cs[i - n]  BY <2>2, <1>3
    <3>4. slots[i - n].query = Owner(cs[i - n])  BY <3>1, <1>6
    <3> QED  BY <3>1, <3>2, <3>3, <3>4 DEF j
  <2> QED  BY <2>1, <2>2
<1>9. Len(wire') = w /\ DOMAIN wire' = 1..w  BY <1>1, <1>2 DEF w
<1>10. Len(results') = Len(wire') + Len(commands')  BY <1>2, <1>3, <1>4, <1>9
<1>11. InStep'
  <2>1. \A i \in DOMAIN wire' : results'[i].query = wire'[i].query  BY <1>7, <1>9
  <2>2. \A i \in DOMAIN commands' :
          results'[Len(wire') + i].query = Owner(commands'[i])
    BY <1>5, <1>8, <1>9
  <2> QED  BY <1>10, <2>1, <2>2 DEF InStep, Owner
<1> QED  BY <1>1, <1>3, <1>4, <1>11 DEF QueuesTyped

\* The results of these are nobody's.
LEMMA EnqueueAllInStep ==
  ASSUME QueuesTyped, InStep, UNCHANGED wire,
         NEW cs \in Seq(InternalType), EnqueueAll(cs)
  PROVE  (QueuesTyped /\ InStep)'
<1>1. /\ Len(cs) \in Nat /\ DOMAIN cs = 1..Len(cs)
      /\ \A i \in 1..Len(cs) : cs[i] \in InternalType
  BY SeqParts
<1>2. \A i \in 1..Len(cs) : cs[i] \in CommandType /\ Owner(cs[i]) = NoQuery
  BY <1>1 DEF InternalType
<1>3. cs \in Seq(CommandType)  BY <1>2, LenProperties, SeqDef
<1>4. NoSlot \in SlotType /\ NoSlot.query = NoQuery  BY DEF NoSlot, SlotType, AnyQuery
<1>5. Nones(cs) = [i \in 1..Len(cs) |-> NoSlot]  BY <1>1 DEF Nones
<1>6. Nones(cs) \in Seq(SlotType) /\ Len(Nones(cs)) = Len(cs)
  BY <1>1, <1>4, <1>5
<1>7. Matched(cs, Nones(cs))  BY <1>1, <1>2, <1>4, <1>5, <1>6 DEF Matched
<1> QED  BY <1>3, <1>6, <1>7, EnqueueInStep DEF EnqueueAll

\* A command is sent and answered, in its place.
LEMMA SentInStep ==
  ASSUME QueuesTyped, InStep, UNCHANGED results, commands # <<>>,
         NEW r \in ResultType, r.query = Owner(Head(commands)),
         wire' = Append(wire, r), commands' = Tail(commands)
  PROVE  (QueuesTyped /\ InStep)'
<1> DEFINE w == Len(wire)
           n == Len(commands)
<1>1. commands \in Seq(CommandType) /\ results \in Seq(SlotType) /\ wire \in Seq(ResultType)
  BY DEF QueuesTyped
<1>2. /\ w \in Nat /\ n \in Nat /\ n # 0 /\ DOMAIN wire = 1..w /\ DOMAIN commands = 1..n
  BY <1>1, SeqParts, EmptySeq
<1>3. /\ wire' \in Seq(ResultType) /\ Len(wire') = w + 1 /\ wire'[w + 1] = r
      /\ \A i \in 1..w : wire'[i] = wire[i]
  BY <1>1, AppendProperties
<1>4. /\ commands' \in Seq(CommandType) /\ Len(commands') = n - 1
      /\ \A i \in 1..Len(commands') : commands'[i] = commands[i + 1]
  BY <1>1, HeadTailProperties
<1>5. Head(commands) = commands[1]  BY <1>1
<1>6. /\ Len(results) = w + n
      /\ \A i \in 1..w : results[i].query = wire[i].query
      /\ \A i \in 1..n : results[w + i].query = Owner(commands[i])
  BY <1>2 DEF InStep
<1>7. DOMAIN wire' = 1..(w + 1) /\ DOMAIN commands' = 1..(n - 1)
  BY <1>3, <1>4, SeqParts
<1> HIDE DEF w, n
<1>8. Len(results') = Len(wire') + Len(commands')
  <2>1. Len(results') = w + n  BY <1>6
  <2>2. Len(wire') + Len(commands') = (w + 1) + (n - 1)  BY <1>3, <1>4
  <2> QED  BY <2>1, <2>2, <1>2
<1>9. ASSUME NEW i \in 1..(w + 1)  PROVE results'[i].query = wire'[i].query
  <2>1. CASE i \in 1..w  BY <2>1, <1>3, <1>6
  <2>2. CASE i = w + 1
    <3>1. results[w + 1].query = Owner(commands[1])  BY <1>2, <1>6
    <3> QED  BY <2>2, <3>1, <1>3, <1>5
  <2> QED  BY <2>1, <2>2, <1>2
<1>10. ASSUME NEW i \in 1..(n - 1)
       PROVE  results'[Len(wire') + i].query = Owner(commands'[i])
  <2>1. i + 1 \in 1..n /\ i \in 1..Len(commands') /\ Len(wire') + i = w + (i + 1)
    BY <1>2, <1>3, <1>4
  <2>2. results[w + (i + 1)].query = Owner(commands[i + 1])  BY <2>1, <1>6
  <2> QED  BY <2>1, <2>2, <1>4
<1>11. InStep'  BY <1>7, <1>8, <1>9, <1>10 DEF InStep, Owner
<1> QED  BY <1>1, <1>3, <1>4, <1>11 DEF QueuesTyped

\* A result is read and what it is for is known.
LEMMA ReadInStep ==
  ASSUME QueuesTyped, InStep, UNCHANGED commands, wire # <<>>,
         wire' = Tail(wire), results' = Tail(results)
  PROVE  (QueuesTyped /\ InStep)'
<1> DEFINE w == Len(wire)
           n == Len(commands)
<1>1. commands \in Seq(CommandType) /\ results \in Seq(SlotType) /\ wire \in Seq(ResultType)
  BY DEF QueuesTyped
<1>2. /\ w \in Nat /\ w # 0 /\ n \in Nat /\ DOMAIN wire = 1..w /\ DOMAIN commands = 1..n
  BY <1>1, SeqParts, EmptySeq
<1>3. /\ Len(results) = w + n
      /\ \A i \in 1..w : results[i].query = wire[i].query
      /\ \A i \in 1..n : results[w + i].query = Owner(commands[i])
  BY <1>2 DEF InStep
<1>4. results # <<>>  BY <1>2, <1>3, EmptySeq
<1>5. /\ wire' \in Seq(ResultType) /\ Len(wire') = w - 1
      /\ \A i \in 1..Len(wire') : wire'[i] = wire[i + 1]
  BY <1>1, HeadTailProperties
<1>6. /\ results' \in Seq(SlotType) /\ Len(results') = Len(results) - 1
      /\ \A i \in 1..Len(results') : results'[i] = results[i + 1]
  BY <1>1, <1>4, HeadTailProperties
<1>7. DOMAIN wire' = 1..(w - 1)  BY <1>5, SeqParts
<1> HIDE DEF w, n
<1>8. Len(results') = Len(wire') + Len(commands')
  BY <1>2, <1>3, <1>5, <1>6 DEF n
<1>9. ASSUME NEW i \in 1..(w - 1)  PROVE results'[i].query = wire'[i].query
  <2>1. i + 1 \in 1..w /\ i \in 1..Len(wire') /\ i \in 1..Len(results')
    BY <1>2, <1>3, <1>5, <1>6
  <2>2. results'[i] = results[i + 1] /\ wire'[i] = wire[i + 1]
    BY <2>1, <1>5, <1>6
  <2> QED  BY <2>1, <2>2, <1>3
<1>10. ASSUME NEW i \in 1..n
       PROVE  results'[Len(wire') + i].query = Owner(commands'[i])
  <2> DEFINE j == Len(wire') + i
  <2>1. j = (w - 1) + i  BY <1>5
  <2>2. Len(results') = (w + n) - 1  BY <1>3, <1>6
  <2> HIDE DEF j
  <2>3. j \in 1..Len(results') /\ j + 1 = w + i  BY <1>2, <2>1, <2>2
  <2>4. results'[j] = results[w + i]  BY <2>3, <1>6
  <2>5. results[w + i].query = Owner(commands[i])  BY <1>3
  <2> QED  BY <2>4, <2>5 DEF j
<1>11. InStep'  BY <1>2, <1>7, <1>8, <1>9, <1>10 DEF InStep, Owner
<1> QED  BY <1>1, <1>5, <1>6, <1>11 DEF QueuesTyped

-----------------------------------------------------------------------------
(* The commands and the server.                                             *)

LEMMA SuccessTyped ==
  ASSUME NEW s \in ServerType, NEW c \in CommandType
  PROVE  Success(s, c) \in ServerType
<1>1. c.name \in Int  BY DEF CommandType
<1>2. s.statements \cup {c.name} \in SUBSET Int /\ s.statements \ {c.name} \in SUBSET Int
  BY <1>1 DEF ServerType
<1>3. CASE c.op = "prepare"  BY <1>2, <1>3 DEF Success, ServerType
<1>4. CASE c.op = "close"
  <2>1. ~Ends(c) \/ Ends(c)  OBVIOUS
  <2>2. Success(s, c) \in {[s EXCEPT !.statements = @ \ {c.name}],
                         [s EXCEPT !.status = "IDLE"]}
    BY <1>4 DEF Success
  <2> QED  BY <1>2, <2>2 DEF ServerType, Statuses
<1>5. CASE c.op \notin {"prepare", "close"}
  <2>1. Success(s, c) \in {[s EXCEPT !.statements = {}], [s EXCEPT !.status = "INTRANS"],
                         [s EXCEPT !.status = "IDLE"], s}
    BY <1>5 DEF Success
  <2> QED  BY <2>1 DEF ServerType, Statuses
<1> QED  BY <1>3, <1>4, <1>5

LEMMA AnswersTyped ==
  ASSUME NEW s \in ServerType, NEW c \in CommandType, NEW a \in Answers(s, c)
  PROVE  a.server \in ServerType /\ a.status \in AnswerTypes
<1>1. [s EXCEPT !.aborted = FALSE] \in ServerType  BY DEF ServerType
<1>2. Failure(s) \in ServerType
  <2>1. (level > 0) \in BOOLEAN  OBVIOUS
  <2> QED  BY <2>1 DEF Failure, ServerType, Statuses
<1>3. Success(s, c) \in ServerType  BY SuccessTyped
<1>4. \/ a = Answer([s EXCEPT !.aborted = FALSE], "SYNC") \/ a = Answer(s, "ABORTED")
      \/ a = Answer(Success(s, c), "OK") \/ a = Answer(Failure(s), "ERROR")
  BY DEF Answers
<1>5. ASSUME NEW x, NEW st  PROVE Answer(x, st).server = x /\ Answer(x, st).status = st
  BY DEF Answer
<1> QED  BY <1>1, <1>2, <1>3, <1>4, <1>5 DEF AnswerTypes

LEMMA NamesTyped == NoName \in Int /\ All \in Int
BY DEF NoName, All

LEMMA CommandTyped ==
  ASSUME NEW op \in CommandOps, NEW q \in AnyQuery, NEW n \in Int
  PROVE  Command(op, q, n) \in CommandType
BY DEF Command, CommandType

LEMMA SimpleTyped ==
  ASSUME NEW op \in CommandOps, op \notin {"run", "run prepared"}
  PROVE  Simple(op) \in InternalType /\ Simple(op) \in CommandType
<1>1. NoQuery \in AnyQuery /\ NoName \in Int
  <2>1. NoQuery \in AnyQuery  BY DEF AnyQuery
  <2>2. NoName \in Int  BY NamesTyped
  <2> QED  BY <2>1, <2>2
<1>2. Simple(op) \in CommandType  BY <1>1, CommandTyped DEF Simple
<1>3. Simple(op).op = op  BY DEF Simple, Command
<1>4. Owner(Simple(op)) = NoQuery  BY <1>3 DEF Owner
<1> QED  BY <1>2, <1>4 DEF InternalType

LEMMA DeallocateTyped ==
  ASSUME NEW n \in Int
  PROVE  Deallocate(n) \in InternalType /\ Deallocate(n) \in CommandType
<1>1. CASE n = All
  <2>1. "deallocate all" \in CommandOps /\ "deallocate all" \notin {"run", "run prepared"}
    BY DEF CommandOps
  <2> QED  BY <1>1, <2>1, SimpleTyped DEF Deallocate
<1>2. CASE n # All
  <2>1. Command("close", NoQuery, n) \in CommandType
    <3>1. NoQuery \in AnyQuery  BY DEF AnyQuery
    <3>2. "close" \in CommandOps  BY DEF CommandOps
    <3> QED  BY <3>1, <3>2, CommandTyped
  <2>2. Owner(Command("close", NoQuery, n)) = NoQuery  BY DEF Owner, Command
  <2> QED  BY <1>2, <2>1, <2>2 DEF Deallocate, InternalType
<1> QED  BY <1>1, <1>2

\* The commands that no cursor waits for.
LEMMA InternalCommands ==
  ASSUME NEW c, Sound(c)
  PROVE  /\ Sync \in Seq(InternalType) /\ <<Simple("begin")>> \o Sync \in Seq(InternalType)
         /\ CommitCommands \in Seq(InternalType)
         /\ Deallocations(c) \in Seq(InternalType)
         /\ <<Simple("rollback")>> \o Deallocations(c) \o Sync \in Seq(InternalType)
<1>1. \A op \in CommandOps : op \notin {"run", "run prepared"} => Simple(op) \in InternalType
  BY SimpleTyped
<1>2. /\ Simple("sync") \in InternalType /\ Simple("begin") \in InternalType
      /\ Simple("commit") \in InternalType /\ Simple("rollback") \in InternalType
  BY <1>1 DEF CommandOps
<1>3. /\ Sync \in Seq(InternalType) /\ <<Simple("begin")>> \in Seq(InternalType)
      /\ <<Simple("commit")>> \in Seq(InternalType)
      /\ <<Simple("rollback")>> \in Seq(InternalType)
  BY <1>2 DEF Sync
<1>4. Deallocations(c) \in Seq(InternalType)
  <2>1. /\ Len(c.flush) \in Nat /\ DOMAIN c.flush = 1..Len(c.flush)
        /\ \A i \in 1..Len(c.flush) : c.flush[i] \in Int
    BY SoundParts, SeqParts
  <2>2. \A i \in 1..Len(c.flush) : Deallocate(c.flush[i]) \in InternalType
    BY <2>1, DeallocateTyped
  <2>3. Deallocations(c) \in [1..Len(c.flush) -> InternalType]
    BY <2>1, <2>2 DEF Deallocations
  <2> QED  BY <2>1, <2>3, SeqDef
<1>5. <<Simple("begin")>> \o Sync \in Seq(InternalType)  BY <1>3, ConcatProperties
<1>6. CommitCommands \in Seq(InternalType)
  BY <1>3, ConcatProperties DEF CommitCommands
<1>7. <<Simple("rollback")>> \o Deallocations(c) \in Seq(InternalType)
  BY <1>3, <1>4, ConcatProperties
<1>8. <<Simple("rollback")>> \o Deallocations(c) \o Sync \in Seq(InternalType)
  BY <1>3, <1>7, ConcatProperties
<1> QED  BY <1>3, <1>4, <1>5, <1>6, <1>8

LEMMA PairConcat ==
  ASSUME NEW S, NEW a \in S, NEW b \in S
  PROVE  <<a>> \o <<b>> = <<a, b>>
<1> DEFINE r == <<a>> \o <<b>>
           p == <<a, b>>
<1>1. /\ <<a>> \in Seq(S) /\ <<b>> \in Seq(S) /\ p \in Seq(S)
      /\ Len(p) = 2 /\ p[1] = a /\ p[2] = b
  OBVIOUS
<1>2. r \in Seq(S) /\ Len(r) = 2 /\ r[1] = a /\ r[2] = b
  BY <1>1, ConcatProperties
<1> HIDE DEF r, p
<1>3. Len(r) = Len(p) /\ \A i \in 1..Len(r) : r[i] = p[i]  BY <1>1, <1>2
<1>4. r = p  BY <1>1, <1>2, <1>3, SeqEqual
<1> QED  BY <1>4 DEF r, p

\* What get() says, and the commands for it.
LEMMA ExecuteCommands ==
  ASSUME Sound(cache), NEW q \in Queries, NEW prepare
  PROVE  LET got == Get(cache, q, prepare)
             cs == PrepareCommands(q, got) \o <<RunCommand(q, got)>>
         IN  /\ PrepareCommand(q, got) \in CommandType /\ RunCommand(q, got) \in CommandType
             /\ cs \in Seq(CommandType) /\ Slots(q, got) \in Seq(SlotType)
             /\ Matched(cs, Slots(q, got))
<1> DEFINE got == Get(cache, q, prepare)
           run == RunCommand(q, got)
           slot == [query |-> q, new |-> IsNew(cache, q), prep |-> got.prep]
<1>1. got.prep \in {"NO", "YES", "SHOULD"} /\ got.name \in Int  BY GetTypes
<1>2. q \in AnyQuery  BY DEF AnyQuery
<1>3. {"run", "run prepared", "prepare"} \subseteq CommandOps  BY DEF CommandOps
<1> HIDE DEF got
<1>4. PrepareCommand(q, got) \in CommandType /\ Owner(PrepareCommand(q, got)) = NoQuery
  <2>1. PrepareCommand(q, got) \in CommandType
    BY <1>1, <1>2, <1>3, CommandTyped DEF PrepareCommand
  <2>2. PrepareCommand(q, got).op = "prepare"  BY DEF PrepareCommand, Command
  <2> QED  BY <2>1, <2>2 DEF Owner
<1>5. run \in CommandType /\ Owner(run) = q
  <2>1. Command("run", q, NoName) \in CommandType
    BY <1>2, <1>3, NamesTyped, CommandTyped
  <2>2. Command("run prepared", q, got.name) \in CommandType
    BY <1>1, <1>2, <1>3, CommandTyped
  <2>3. run \in CommandType  BY <2>1, <2>2 DEF RunCommand
  <2>4. run.op \in {"run", "run prepared"} /\ run.query = q  BY DEF RunCommand, Command
  <2> QED  BY <2>3, <2>4 DEF Owner
<1>6. slot \in SlotType /\ slot.query = q
  <2>1. IsNew(cache, q) \in BOOLEAN  BY DEF IsNew
  <2> QED  BY <1>1, <1>2, <2>1 DEF SlotType
<1>7. NoSlot \in SlotType /\ NoSlot.query = NoQuery  BY DEF NoSlot, SlotType, AnyQuery
<1> HIDE DEF run, slot
<1>8. CASE got.prep = "SHOULD"
  <2>1. PrepareCommands(q, got) = <<PrepareCommand(q, got)>>
    BY <1>8 DEF PrepareCommands
  <2>2. Nones(PrepareCommands(q, got)) = <<NoSlot>>  BY <2>1 DEF Nones
  <2>3. PrepareCommands(q, got) \o <<run>> = <<PrepareCommand(q, got), run>>
    BY <1>4, <1>5, <2>1, PairConcat
  <2>4. Slots(q, got) = <<NoSlot, slot>>
    <3>1. Slots(q, got) = <<NoSlot>> \o <<slot>>  BY <2>2 DEF Slots, slot
    <3> QED  BY <1>6, <1>7, <3>1, PairConcat
  <2>5. Matched(<<PrepareCommand(q, got), run>>, <<NoSlot, slot>>)
    BY <1>4, <1>5, <1>6, <1>7 DEF Matched
  <2>6. /\ <<PrepareCommand(q, got), run>> \in Seq(CommandType)
        /\ <<NoSlot, slot>> \in Seq(SlotType)
    BY <1>4, <1>5, <1>6, <1>7
  <2> QED  BY <1>4, <1>5, <2>3, <2>4, <2>5, <2>6 DEF run, got
<1>9. CASE got.prep # "SHOULD"
  <2>1. PrepareCommands(q, got) = <<>>  BY <1>9 DEF PrepareCommands
  <2>2. Nones(PrepareCommands(q, got)) = <<>>  BY <2>1 DEF Nones
  <2>3. PrepareCommands(q, got) \o <<run>> = <<run>>  BY <2>1
  <2>4. Slots(q, got) = <<slot>>  BY <2>2 DEF Slots, slot
  <2>5. Matched(<<run>>, <<slot>>)  BY <1>5, <1>6 DEF Matched
  <2>6. <<run>> \in Seq(CommandType) /\ <<slot>> \in Seq(SlotType)  BY <1>5, <1>6
  <2> QED  BY <1>4, <1>5, <2>3, <2>4, <2>5, <2>6 DEF run, got
<1> QED  BY <1>8, <1>9

-----------------------------------------------------------------------------
(* Each result is given to the cursor that asked for it.                    *)

QueuesInv == CacheInv /\ QueuesTyped /\ server \in ServerType /\ InStep

LEMMA CallInStep ==
  ASSUME QueuesInv, NEW t \in Threads, Call(t)
  PROVE  (QueuesTyped /\ InStep)'
<1> USE DEF QueuesInv
<1>1. CASE UNCHANGED <<queues, wire>>
  BY <1>1 DEF queues, QueuesTyped, InStep, Owner
<1>2. Sound(cache)  BY DEF CacheInv
<1>3. Sync \in Seq(InternalType) /\ CommitCommands \in Seq(InternalType)
  BY <1>2, InternalCommands
<1>4. CASE sync(t)  BY <1>3, <1>4, EnqueueAllInStep DEF sync, network
<1>5. CASE commit_enqueued(t)
  BY <1>3, <1>5, EnqueueAllInStep DEF commit_enqueued, network
<1>6. CASE rollback(t)
  <2>1. CASE UNCHANGED queues  BY <2>1, <1>1, <1>6 DEF rollback, network
  <2>2. CASE EnqueueAll(Sync)
    BY <2>2, <1>3, <1>6, EnqueueAllInStep DEF rollback, network
  <2> QED  BY <2>1, <2>2, <1>6 DEF rollback
<1> QED
  BY <1>1, <1>4, <1>5, <1>6
  DEF Call, execute, executemany, enter, exit, fetch, commit_now, network

LEMMA StepInStep ==
  ASSUME QueuesInv, NEW t \in Threads, Step(t)
  PROVE  (QueuesTyped /\ InStep)'
<1> USE DEF QueuesInv
<1>1. CASE UNCHANGED <<queues, wire>>
  BY <1>1 DEF queues, QueuesTyped, InStep, Owner
<1>2. Sound(cache) /\ TodoTyped  BY DEF CacheInv
<1>3. CASE start_enqueued(t)
  <2>1. <<Simple("begin")>> \o Sync \in Seq(InternalType)  BY <1>2, InternalCommands
  <2> QED  BY <1>3, <2>1, EnqueueAllInStep DEF start_enqueued, network
<1>4. CASE execute_enqueued(t)
  <2> DEFINE q == Head(todo[t]).query
             got == Get(cache, q, Head(todo[t]).prepare)
             cs == PrepareCommands(q, got) \o <<RunCommand(q, got)>>
  <2>1. q \in Queries  BY <1>2, <1>4, AtPhase DEF execute_enqueued
  <2>2. /\ cs \in Seq(CommandType) /\ Slots(q, got) \in Seq(SlotType)
        /\ Matched(cs, Slots(q, got))
    BY <1>2, <2>1, ExecuteCommands
  <2>3. Enqueue(cs, Slots(q, got)) /\ UNCHANGED wire
    BY <1>4 DEF execute_enqueued, network
  <2> HIDE DEF cs
  <2> QED  BY <2>2, <2>3, EnqueueInStep
<1>5. CASE maintain_enqueued(t)
  <2>1. Deallocations(cache) \in Seq(InternalType)  BY <1>2, InternalCommands
  <2> QED  BY <1>5, <2>1, EnqueueAllInStep DEF maintain_enqueued, network
<1>6. CASE transmit(t)
  <2> DEFINE c == Head(commands)
             owner == IF c.op \in {"run", "run prepared"} THEN c.query ELSE NoQuery
  <2>1. commands \in Seq(CommandType) /\ commands # <<>>
    BY <1>6 DEF QueuesTyped, transmit
  <2>2. c \in CommandType  BY <2>1, HeadTailProperties
  <2>3. PICK a \in Answers(server, c) :
          wire' = Append(wire, [query |-> owner, status |-> a.status,
                                tx |-> a.server.status])
    BY <1>6 DEF transmit
  <2> DEFINE r == [query |-> owner, status |-> a.status, tx |-> a.server.status]
  <2>4. a.server \in ServerType /\ a.status \in AnswerTypes
    BY <2>2, AnswersTyped
  <2>5. a.server.status \in Statuses  BY <2>4 DEF ServerType
  <2>6. owner \in AnyQuery /\ owner = Owner(c)
    BY <2>2 DEF CommandType, AnyQuery, Owner
  <2>7. r \in ResultType /\ r.query = Owner(c)
    BY <2>4, <2>5, <2>6 DEF ResultType
  <2> HIDE DEF r
  <2>8. wire' = Append(wire, r)  BY <2>3 DEF r
  <2>9. commands' = Tail(commands) /\ UNCHANGED results  BY <1>6 DEF transmit
  <2> QED  BY <2>1, <2>7, <2>8, <2>9, SentInStep
<1>7. CASE receive(t)
  BY <1>7, ReadInStep DEF receive
<1>8. CASE enter_syncs(t)
  BY <1>2, <1>8, InternalCommands, EnqueueAllInStep DEF enter_syncs, network
<1>9. CASE exit_gen(t)
  BY <1>2, <1>9, InternalCommands, EnqueueAllInStep DEF exit_gen, network
<1>10. CASE rollback_enqueued(t)
  <2>1. Sound(Clear(cache))  BY <1>2, ClearSound
  <2>2. <<Simple("rollback")>> \o Deallocations(Clear(cache)) \o Sync
          \in Seq(InternalType)
    BY <2>1, InternalCommands
  <2> QED  BY <1>10, <2>2, EnqueueAllInStep DEF rollback_enqueued, network
<1> QED
  BY <1>1, <1>3, <1>4, <1>5, <1>6, <1>7, <1>8, <1>9, <1>10
  DEF Step, network, start_skipped, start_now, prepare_fails, execute_now, maintain_ends,
      maintain_now, batch_ends, ride, enters, leave, rollback_skipped, rollback_now

LEMMA CommandTypes ==
  /\ Simple("begin") \in CommandType /\ Simple("commit") \in CommandType
  /\ Simple("rollback") \in CommandType
<1>1. \A op \in CommandOps : op \notin {"run", "run prepared"} => Simple(op) \in CommandType
  BY SimpleTyped
<1> QED  BY <1>1 DEF CommandOps

LEMMA CallServerTyped ==
  ASSUME QueuesInv, NEW t \in Threads, Call(t)
  PROVE  server' \in ServerType
<1>1. CASE UNCHANGED server  BY <1>1 DEF QueuesInv
<1>2. CASE commit_now(t)
  BY <1>2, CommandTypes, AnswersTyped DEF commit_now, Answered, QueuesInv
<1> QED
  BY <1>1, <1>2 DEF Call, network, execute, executemany, enter, exit, sync, fetch,
                    commit_enqueued, rollback

LEMMA StepServerTyped ==
  ASSUME QueuesInv, NEW t \in Threads, Step(t)
  PROVE  server' \in ServerType
<1>1. CASE UNCHANGED server  BY <1>1 DEF QueuesInv
<1>2. server \in ServerType /\ Sound(cache) /\ TodoTyped  BY DEF QueuesInv, CacheInv
<1>3. ASSUME NEW s \in ServerType, NEW c \in CommandType, NEW a \in Answers(s, c),
             Answered(a)
      PROVE  server' \in ServerType
  BY <1>3, AnswersTyped DEF Answered
<1>4. CASE start_now(t)  BY <1>2, <1>3, <1>4, CommandTypes DEF start_now
<1>5. CASE rollback_now(t)  BY <1>2, <1>3, <1>5, CommandTypes DEF rollback_now
<1>6. CASE maintain_now(t)
  <2>1. cache.flush \in Seq(Int) /\ cache.flush # <<>>
    BY <1>2, <1>6, SoundParts DEF maintain_now
  <2>2. Deallocate(Head(cache.flush)) \in CommandType
    BY <2>1, HeadTailProperties, DeallocateTyped
  <2> QED  BY <1>2, <1>3, <1>6, <2>2 DEF maintain_now
<1>7. CASE transmit(t)
  <2>1. Head(commands) \in CommandType
    BY <1>7, HeadTailProperties DEF transmit, QueuesInv, QueuesTyped
  <2> QED  BY <1>2, <1>7, <2>1, AnswersTyped DEF transmit
<1> DEFINE q == Head(todo[t]).query
           got == Get(cache, q, Head(todo[t]).prepare)
<1>8. CASE prepare_fails(t)
  <2>1. q \in Queries  BY <1>2, <1>8, AtPhase DEF prepare_fails
  <2>2. PrepareCommand(q, got) \in CommandType  BY <1>2, <2>1, ExecuteCommands
  <2>3. PICK a \in Answers(server, PrepareCommand(q, got)) : Answered(a)
    BY <1>8 DEF prepare_fails
  <2> HIDE DEF got, q
  <2> QED  BY <1>2, <1>3, <2>2, <2>3
<1>9. CASE execute_now(t)
  <2> DEFINE prepared == {a \in Answers(server, PrepareCommand(q, got)) : a.status = "OK"}
             bases == IF got.prep = "SHOULD" THEN {a.server : a \in prepared} ELSE {server}
  <2>1. q \in Queries  BY <1>2, <1>9, AtPhase DEF execute_now
  <2>2. PrepareCommand(q, got) \in CommandType /\ RunCommand(q, got) \in CommandType
    BY <1>2, <2>1, ExecuteCommands
  <2>3. PICK s \in bases : \E a \in Answers(s, RunCommand(q, got)) : Answered(a)
    BY <1>9 DEF execute_now
  <2> HIDE DEF got, q
  <2>4. s \in ServerType  BY <1>2, <2>2, <2>3, AnswersTyped
  <2> HIDE DEF bases
  <2> QED  BY <1>3, <2>2, <2>3, <2>4
<1> QED
  BY <1>1, <1>4, <1>5, <1>6, <1>7, <1>8, <1>9
  DEF Step, network, start_skipped, start_enqueued, execute_enqueued, maintain_ends,
      maintain_enqueued, receive, batch_ends, ride, enter_syncs, enters, exit_gen, leave,
      rollback_skipped, rollback_enqueued

LEMMA QueuesCorrect == Spec => []QueuesInv
<1>1. Init => QueuesInv
  <2> SUFFICES ASSUME Init  PROVE QueuesInv
    OBVIOUS
  <2>1. commands = <<>> /\ results = <<>> /\ wire = <<>>  BY DEF Init
  <2>2. QueuesTyped  BY <2>1 DEF QueuesTyped
  <2>3. InStep  BY <2>1 DEF InStep
  <2>4. server \in ServerType  BY DEF Init, ServerType, Statuses
  <2> QED  BY <2>2, <2>3, <2>4, InitSound DEF QueuesInv
<1>2. QueuesInv /\ [Next]_vars => QueuesInv'
  <2> SUFFICES ASSUME QueuesInv, [Next]_vars  PROVE QueuesInv'
    OBVIOUS
  <2>1. CASE UNCHANGED vars
    BY <2>1 DEF vars, queues, network, QueuesInv, CacheInv, TodoTyped, QueuesTyped,
                InStep, Owner
  <2>2. ASSUME NEW t \in Threads, Call(t)  PROVE QueuesInv'
    <3>1. CacheInv'  BY <2>2, CallTyped, CallSound DEF QueuesInv, CacheInv
    <3> QED  BY <2>2, <3>1, CallInStep, CallServerTyped DEF QueuesInv
  <2>3. ASSUME NEW t \in Threads, Step(t)  PROVE QueuesInv'
    <3>1. CacheInv'  BY <2>3, StepTyped, StepSound DEF QueuesInv, CacheInv
    <3> QED  BY <2>3, <3>1, StepInStep, StepServerTyped DEF QueuesInv
  <2> QED  BY <2>1, <2>2, <2>3 DEF Next
<1> QED  BY <1>1, <1>2, PTL DEF Spec

\* The program uses the connection in one thread.  With several threads one
\* could leave a pipeline while another uses it, and the steps of pipeline(),
\* __enter__ and __exit__ that are one action here could be interleaved.
OneThread == \A t, u \in Threads : t = u

\* Each result is given to the cursor that asked for it: result_queue is, one
\* by one, for what is on the wire and then for what is not sent yet, for one
\* thread, any programs of it and whatever the server answers and when
\* (BasePipeline).
THEOREM InStepCorrect == ASSUME OneThread PROVE Spec => []InStep
<1>1. QueuesInv => InStep  BY DEF QueuesInv
<1> QED  BY <1>1, QueuesCorrect, PTL

-----------------------------------------------------------------------------
(* The sizes of the cache, and what of it the server has.                   *)

LEMMA InsertLen ==
  ASSUME NEW d \in Seq(Entry), NEW k \in Queries, NEW v \in Int
  PROVE  Len(Insert(d, k, v)) = Len(d) + 1
<1>1. [key |-> k, value |-> v] \in Entry  BY DEF Entry
<1> QED  BY <1>1, AppendProperties DEF Insert

LEMMA DeleteLen ==
  ASSUME NEW d \in Seq(Entry), NEW k
  PROVE  /\ Len(d) \in Nat /\ Len(Delete(d, k)) \in Nat
         /\ k \notin Keys(d) => Delete(d, k) = d
         /\ k \in Keys(d) => Len(Delete(d, k)) = Len(d) - 1
         /\ Len(Delete(d, k)) <= Len(d)
<1>1. Len(d) \in Nat /\ DOMAIN d = 1..Len(d) /\ \A i \in 1..Len(d) : d[i] \in Entry
  BY SeqParts
<1>2. CASE k \notin Keys(d)
  <2>1. Delete(d, k) = d  BY <1>2, Zenon DEF Delete
  <2>2. Len(d) <= Len(d)  BY <1>1
  <2> QED  BY <1>1, <1>2, <2>1, <2>2, Zenon
<1>3. CASE k \in Keys(d)
  <2>1. Len(Delete(d, k)) = Len(d) - 1  BY <1>3, DeleteEntry
  <2>2. Delete(d, k) \in Seq(Entry)  BY DeleteEntry
  <2>3. Len(Delete(d, k)) \in Nat  BY <2>2, LenProperties
  <2> QED  BY <1>1, <1>3, <2>1, <2>3
<1> QED  BY <1>2, <1>3

\* What the server has of the cache, and the limits of its size.
Kept(c, statements) ==
  /\ Values(c.names) \subseteq statements
  /\ Len(c.counts) <= PreparedMax
  /\ Len(c.counts) + Len(c.names) <= 2 * PreparedMax

\* How maybe_add_to_cache() changes the sizes.
Adds(n, q, prep, name, a) ==
  /\ a.flush = n.flush /\ a.counts \in Seq(Entry) /\ a.names \in Seq(Entry)
  /\ Values(a.names)
       \subseteq Values(n.names) \cup (IF prep = "SHOULD" THEN {name} ELSE {})
  /\ ~IsNew(n, q) => /\ Len(a.counts) <= Len(n.counts)
                     /\ Len(a.counts) + Len(a.names)
                          <= Len(n.counts) + Len(n.names)
  /\ IsNew(n, q) =>
       \/ a.names = n.names /\ a.counts = Insert(n.counts, q, 1)
       \/ a.counts = n.counts /\ a.names = Insert(n.names, q, name)

LEMMA MaybeAddSizes ==
  ASSUME NEW n, Sound(n), NEW q \in Queries, NEW prep \in {"NO", "YES", "SHOULD"},
         NEW name \in Int, prep = "SHOULD" => q \notin Keys(n.names),
         NEW a, a = MaybeAdd(n, q, prep, name)
  PROVE  Adds(n, q, prep, name, a)
<1>1. /\ n \in CacheType /\ n.counts \in Seq(Entry) /\ n.names \in Seq(Entry)
      /\ Len(n.counts) \in Nat /\ Len(n.names) \in Nat
  BY SoundParts, LenProperties
<1>2. ASSUME NEW x, NEW y
      PROVE  /\ [n EXCEPT !.counts = x, !.names = y].counts = x
             /\ [n EXCEPT !.counts = x, !.names = y].names = y
             /\ [n EXCEPT !.counts = x, !.names = y].flush = n.flush
             /\ [n EXCEPT !.counts = x].counts = x
             /\ [n EXCEPT !.counts = x].names = n.names
             /\ [n EXCEPT !.counts = x].flush = n.flush
             /\ [n EXCEPT !.names = x].names = x
             /\ [n EXCEPT !.names = x].counts = n.counts
             /\ [n EXCEPT !.names = x].flush = n.flush
  BY <1>1 DEF CacheType
<1>3. /\ Insert(n.names, q, name) \in Seq(Entry)
      /\ Values(Insert(n.names, q, name)) = Values(n.names) \cup {name}
      /\ Len(Insert(n.names, q, name)) = Len(n.names) + 1
  BY <1>1, InsertTyped, InsertValues, InsertLen
<1>4. CASE q \in Keys(n.counts) /\ prep = "SHOULD"
  <2> DEFINE x == Delete(n.counts, q)
             y == Insert(n.names, q, name)
  <2>1. x \in Seq(Entry) /\ Len(x) = Len(n.counts) - 1
    BY <1>1, <1>4, DeleteEntry
  <2>2. a = [n EXCEPT !.counts = x, !.names = y]
    <3>1. a = Promote(n, q, name)  BY <1>4 DEF MaybeAdd, IsNew
    <3> QED  BY <3>1 DEF Promote
  <2>3. y \in Seq(Entry) /\ Values(y) = Values(n.names) \cup {name}
        /\ Len(y) = Len(n.names) + 1
    BY <1>3
  <2> HIDE DEF x, y
  <2>4. a.counts = x /\ a.names = y /\ a.flush = n.flush
    BY <2>2, <1>2
  <2>5. ~IsNew(n, q)  BY <1>4 DEF IsNew
  <2>6. Len(a.counts) + Len(a.names) <= Len(n.counts) + Len(n.names)
    <3>1. Len(a.counts) = Len(n.counts) - 1 /\ Len(a.names) = Len(n.names) + 1
      BY <2>1, <2>3, <2>4, Zenon
    <3>2. \A i, j \in Nat : (i - 1) + (j + 1) <= i + j  OBVIOUS
    <3>3. (Len(n.counts) - 1) + (Len(n.names) + 1) <= Len(n.counts) + Len(n.names)
      BY <1>1, <3>2
    <3> QED  BY <3>1, <3>3, Zenon
  <2>7. Len(a.counts) <= Len(n.counts)  BY <1>1, <2>1, <2>4
  <2> QED  BY <1>4, <2>1, <2>3, <2>4, <2>5, <2>6, <2>7 DEF Adds
<1>5. CASE q \in Keys(n.counts) /\ prep # "SHOULD"
  <2> DEFINE v == Lookup(n.counts, q) + 1
             x == MoveToEnd(n.counts, q, v)
  <2>1. v \in Int  BY <1>1, <1>5, LookupEntry
  <2>2. Delete(n.counts, q) \in Seq(Entry)
        /\ Len(Delete(n.counts, q)) = Len(n.counts) - 1
    BY <1>1, <1>5, DeleteEntry, DeleteLen
  <2>3. x \in Seq(Entry) /\ Len(x) = (Len(n.counts) - 1) + 1
    <3> HIDE DEF v
    <3> QED  BY <2>1, <2>2, InsertTyped, InsertLen DEF MoveToEnd
  <2>4. a = [n EXCEPT !.counts = x]  BY <1>5 DEF MaybeAdd
  <2> HIDE DEF x
  <2>5. a.counts = x /\ a.names = n.names /\ a.flush = n.flush
    BY <2>4, <1>2
  <2>6. ~IsNew(n, q)  BY <1>5 DEF IsNew
  <2> QED  BY <1>1, <1>5, <2>3, <2>5, <2>6 DEF Adds
<1>6. CASE q \in Keys(n.names) /\ q \notin Keys(n.counts)
  <2> DEFINE v == Lookup(n.names, q)
             d == Delete(n.names, q)
             x == MoveToEnd(n.names, q, v)
  <2>1. v \in Int /\ v \in Values(n.names)  BY <1>1, <1>6, LookupEntry
  <2>2. d \in Seq(Entry) /\ Len(d) = Len(n.names) - 1
        /\ Values(d) \subseteq Values(n.names)
    BY <1>1, <1>6, DeleteEntry, DeleteLen, WithinKeeps
  <2>3. x = Insert(d, q, v)  BY DEF MoveToEnd
  <2> HIDE DEF v, d, x
  <2>4. x \in Seq(Entry) /\ Len(x) = Len(d) + 1 /\ Values(x) = Values(d) \cup {v}
    BY <2>1, <2>2, <2>3, InsertTyped, InsertLen, InsertValues
  <2>5. a = [n EXCEPT !.names = x]  BY <1>6 DEF MaybeAdd, x, v
  <2>6. a.counts = n.counts /\ a.names = x /\ a.flush = n.flush
    BY <2>5, <1>2
  <2>7. ~IsNew(n, q)  BY <1>6 DEF IsNew
  <2>8. Values(a.names) \subseteq Values(n.names)  BY <2>1, <2>2, <2>4, <2>6
  <2> QED  BY <1>1, <1>6, <2>2, <2>4, <2>6, <2>7, <2>8 DEF Adds
<1>7. CASE IsNew(n, q) /\ prep = "SHOULD"
  <2>1. a = [n EXCEPT !.names = Insert(n.names, q, name)]
    BY <1>7 DEF MaybeAdd, IsNew
  <2>2. a.counts = n.counts /\ a.names = Insert(n.names, q, name) /\ a.flush = n.flush
    BY <2>1, <1>2
  <2> QED  BY <1>1, <1>3, <1>7, <2>2 DEF Adds
<1>8. CASE IsNew(n, q) /\ prep # "SHOULD"
  <2>1. Insert(n.counts, q, 1) \in Seq(Entry)
    <3>1. 1 \in Int  OBVIOUS
    <3> QED  BY <1>1, <3>1, InsertTyped
  <2>2. a = [n EXCEPT !.counts = Insert(n.counts, q, 1)]
    BY <1>8 DEF MaybeAdd, IsNew
  <2>3. a.counts = Insert(n.counts, q, 1) /\ a.names = n.names /\ a.flush = n.flush
    BY <2>2, <1>2
  <2> QED  BY <1>1, <1>8, <2>1, <2>3 DEF Adds
<1> QED  BY <1>4, <1>5, <1>6, <1>7, <1>8 DEF IsNew

\* The cache with one entry more than it may keep.
OneMore(c, q) ==
  /\ \/ q \in Keys(c.names) /\ Len(c.counts) <= PreparedMax
     \/ q \in Keys(c.counts) /\ Len(c.counts) <= PreparedMax + 1
  /\ Len(c.counts) + Len(c.names) <= 2 * PreparedMax + 1

\* What a call leaves to deallocate.
FewToFlush(c) == /\ Len(c.flush) <= 1
                 /\ c.flush # <<>> /\ c.flush[1] = All => c.names = <<>>

LEMMA Sizes ==
  ASSUME NEW c, Sound(c)
  PROVE  Len(c.counts) \in Nat /\ Len(c.names) \in Nat /\ PreparedMax \in Nat
BY SoundParts, LenProperties, CacheAssumption

\* An error takes the new entry away.
LEMMA DiscardKept ==
  ASSUME NEW c, Sound(c), NEW q \in Queries, OneMore(c, q), NEW S,
         Values(c.names) \subseteq S
  PROVE  LET r == [c EXCEPT !.names = Delete(@, q), !.counts = Delete(@, q)]
         IN  Kept(r, S) /\ r.flush = c.flush
<1> DEFINE x == Delete(c.names, q)
           y == Delete(c.counts, q)
           r == [c EXCEPT !.names = x, !.counts = y]
<1>1. /\ c \in CacheType /\ c.counts \in Seq(Entry) /\ c.names \in Seq(Entry)
  BY SoundParts
<1>2. r.names = x /\ r.counts = y /\ r.flush = c.flush
  <2> HIDE DEF x, y
  <2> QED  BY <1>1 DEF CacheType
<1>3. Values(x) \subseteq Values(c.names)  BY <1>1, DeleteEntry, WithinKeeps
<1>4. /\ Len(x) \in Nat /\ Len(y) \in Nat
      /\ Len(x) <= Len(c.names) /\ Len(y) <= Len(c.counts)
      /\ q \in Keys(c.names) => Len(x) = Len(c.names) - 1
      /\ q \in Keys(c.counts) => Len(y) = Len(c.counts) - 1
  BY <1>1, DeleteLen
<1> HIDE DEF x, y, r
<1>5. Len(y) <= PreparedMax /\ Len(y) + Len(x) <= 2 * PreparedMax
  <2> DEFINE m == Len(c.counts)
             n == Len(c.names)
  <2>1. /\ m \in Nat /\ n \in Nat /\ PreparedMax \in Nat
        /\ m + n <= 2 * PreparedMax + 1
        /\ \/ m <= PreparedMax /\ Len(x) = n - 1
           \/ m <= PreparedMax + 1 /\ Len(y) = m - 1
        /\ Len(x) \in Nat /\ Len(y) \in Nat /\ Len(x) <= n /\ Len(y) <= m
    BY <1>4, Sizes, Zenon DEF OneMore
  <2> HIDE DEF m, n
  <2> QED  BY <2>1
<1>6. Kept(r, S)  BY <1>2, <1>3, <1>5 DEF Kept
<1> QED  BY <1>2, <1>6 DEF r, x, y

\* _rotate() is enough.
LEMMA RotateKept ==
  ASSUME NEW c, Sound(c), c.flush = <<>>, NEW S, Values(c.names) \subseteq S,
         Len(c.counts) <= PreparedMax + 1,
         Len(c.counts) + Len(c.names) <= 2 * PreparedMax + 1
  PROVE  Kept(Rotate(c), S) /\ FewToFlush(Rotate(c))
<1> DEFINE x == IF Len(c.counts) > PreparedMax THEN Tail(c.counts) ELSE c.counts
           d == [c EXCEPT !.counts = x]
<1>1. /\ c \in CacheType /\ c.counts \in Seq(Entry) /\ c.names \in Seq(Entry)
      /\ c.flush \in Seq(Int) /\ \A v \in Values(c.names) : v \in Nat
  BY SoundParts
<1>2. /\ Len(c.counts) > PreparedMax => Len(x) = Len(c.counts) - 1
      /\ ~(Len(c.counts) > PreparedMax) => Len(x) = Len(c.counts)
  <2>1. CASE Len(c.counts) > PreparedMax
    <3>1. c.counts # <<>>  BY <1>1, <2>1, CacheAssumption, EmptySeq
    <3>2. Len(Tail(c.counts)) = Len(c.counts) - 1  BY <1>1, <3>1, HeadTailProperties
    <3> QED  BY <2>1, <3>2
  <2>2. CASE ~(Len(c.counts) > PreparedMax)  BY <2>2
  <2> QED  BY <2>1, <2>2
<1> HIDE DEF x
<1>3. d.counts = x /\ d.names = c.names /\ d.flush = <<>> /\ d \in [counts : {x},
        names : Seq(Entry), idx : Nat, flush : Seq(Int)]
  BY <1>1 DEF CacheType
<1> HIDE DEF d
<1>4. Len(x) <= PreparedMax /\ Len(x) + Len(c.names) <= 2 * PreparedMax + 1
      /\ (Len(c.names) <= PreparedMax => Len(x) + Len(c.names) <= 2 * PreparedMax)
      /\ Len(x) \in Nat
  <2> DEFINE m == Len(c.counts)
             n == Len(c.names)
  <2>1. /\ m \in Nat /\ n \in Nat /\ PreparedMax \in Nat /\ m <= PreparedMax + 1
        /\ m + n <= 2 * PreparedMax + 1
        /\ m > PreparedMax => Len(x) = m - 1
        /\ ~(m > PreparedMax) => Len(x) = m
    BY <1>2, Sizes, Zenon
  <2> HIDE DEF m
  <2>2. /\ Len(x) <= PreparedMax /\ Len(x) + n <= 2 * PreparedMax + 1
        /\ (n <= PreparedMax => Len(x) + n <= 2 * PreparedMax)
        /\ Len(x) \in Nat
    <3> HIDE DEF n
    <3> QED  BY <2>1
  <2> QED  BY <2>2
<1>5. CASE Len(c.names) <= PreparedMax
  <2>1. EvictName(d) = d  BY <1>3, <1>5 DEF EvictName
  <2>2. Kept(d, S)  BY <1>3, <1>4, <1>5 DEF Kept
  <2>3. FewToFlush(d)  BY <1>3 DEF FewToFlush
  <2> QED  BY <2>1, <2>2, <2>3 DEF Rotate, d, x
<1>6. CASE ~(Len(c.names) <= PreparedMax)
  <2> DEFINE v == Head(c.names).value
             r == [d EXCEPT !.names = Tail(c.names), !.flush = Append(<<>>, v)]
  <2>1. EvictName(d) = r  BY <1>3, <1>6 DEF EvictName
  <2>2. c.names # <<>>  BY <1>1, <1>6, CacheAssumption, EmptySeq
  <2>3. /\ Len(Tail(c.names)) = Len(c.names) - 1
        /\ Values(Tail(c.names)) \subseteq Values(c.names)
    BY <1>1, <2>2, HeadTailProperties, TailWithin, WithinKeeps
  <2>4. v \in Nat  BY <1>1, <2>2, HeadGone
  <2> HIDE DEF v
  <2>5. r.counts = x /\ r.names = Tail(c.names) /\ r.flush = Append(<<>>, v)
    BY <1>3
  <2> HIDE DEF r
  <2>6. /\ Len(Append(<<>>, v)) = 1 /\ Append(<<>>, v)[1] = v  OBVIOUS
  <2>7. v # All  BY <2>4 DEF All
  <2>8. Len(x) + Len(Tail(c.names)) <= 2 * PreparedMax
    BY <1>4, <1>6, <2>3, Sizes
  <2>9. Kept(r, S)  BY <1>4, <2>3, <2>5, <2>8 DEF Kept
  <2>10. FewToFlush(r)  BY <2>5, <2>6, <2>7 DEF FewToFlush
  <2> QED  BY <2>1, <2>9, <2>10 DEF Rotate, d, x
<1> QED  BY <1>5, <1>6

LEMMA ClearParts ==
  ASSUME NEW c, Sound(c)
  PROVE  /\ Clear(c).counts = <<>> /\ Clear(c).names = <<>>
         /\ Clear(c).flush = IF c.names = <<>> THEN c.flush ELSE <<All>>
BY SoundParts DEF Clear, CacheType

\* The result of a new query brings the cache back to its limits.
LEMMA ValidateKept ==
  ASSUME NEW c, Sound(c), NEW q \in Queries, OneMore(c, q), c.flush = <<>>,
         NEW S, Values(c.names) \subseteq S, NEW prep, NEW ok, NEW kind
  PROVE  LET r == Validate(c, q, prep, ok, kind)
         IN  /\ Kept(r, S) /\ FewToFlush(r)
             /\ ~ok => r.flush = <<>>
<1>1. PreparedMax \in Nat /\ Values(<<>>) = {}  BY CacheAssumption DEF Values
<1>2. CASE ~ok
  <2> DEFINE r == [c EXCEPT !.names = Delete(@, q), !.counts = Delete(@, q)]
  <2>1. ~ShouldDiscard(c, prep, ok, kind)  BY <1>2 DEF ShouldDiscard
  <2>2. Validate(c, q, prep, ok, kind) = r  BY <1>2, <2>1 DEF Validate
  <2>3. Kept(r, S) /\ r.flush = <<>>  BY DiscardKept
  <2> HIDE DEF r
  <2>4. FewToFlush(r)  BY <2>3 DEF FewToFlush
  <2> QED  BY <2>2, <2>3, <2>4
<1>3. CASE ok /\ ShouldDiscard(c, prep, ok, kind)
  <2> DEFINE d == Clear(c)
  <2>1. /\ d.counts = <<>> /\ d.names = <<>> /\ Sound(d)
        /\ d.flush = IF c.names = <<>> THEN <<>> ELSE <<All>>
    BY ClearParts, ClearSound
  <2> HIDE DEF d
  <2>2. CASE c.names # <<>>
    <3>1. Validate(c, q, prep, ok, kind) = d  BY <1>3, <2>2 DEF Validate, d
    <3>2. d.flush = <<All>>  BY <2>1, <2>2
    <3>3. Kept(d, S)  BY <1>1, <2>1 DEF Kept
    <3>4. FewToFlush(d)  BY <2>1, <3>2 DEF FewToFlush
    <3> QED  BY <1>3, <3>1, <3>3, <3>4
  <2>3. CASE c.names = <<>>
    <3>1. Validate(c, q, prep, ok, kind) = Rotate(d)  BY <1>3, <2>3 DEF Validate, d
    <3>2. d.flush = <<>>  BY <2>1, <2>3
    <3>3. Len(d.counts) = 0 /\ Len(d.names) = 0 /\ Values(d.names) \subseteq S
      BY <1>1, <2>1
    <3>4. Len(d.counts) <= PreparedMax + 1
          /\ Len(d.counts) + Len(d.names) <= 2 * PreparedMax + 1
      BY <1>1, <3>3
    <3>5. Kept(Rotate(d), S) /\ FewToFlush(Rotate(d))
      BY <2>1, <3>2, <3>3, <3>4, RotateKept
    <3> QED  BY <1>3, <3>1, <3>5
  <2> QED  BY <2>2, <2>3
<1>4. CASE ok /\ ~ShouldDiscard(c, prep, ok, kind)
  <2>1. Validate(c, q, prep, ok, kind) = Rotate(c)  BY <1>4 DEF Validate
  <2>2. Len(c.counts) <= PreparedMax + 1
        /\ Len(c.counts) + Len(c.names) <= 2 * PreparedMax + 1
    <3>1. /\ Len(c.counts) <= PreparedMax \/ Len(c.counts) <= PreparedMax + 1
          /\ Len(c.counts) + Len(c.names) <= 2 * PreparedMax + 1
      BY DEF OneMore
    <3>2. \A m, k \in Nat : m <= k => m <= k + 1  OBVIOUS
    <3> QED  BY <1>1, <3>1, <3>2, Sizes, Zenon
  <2>3. Kept(Rotate(c), S) /\ FewToFlush(Rotate(c))  BY <2>2, RotateKept
  <2> QED  BY <1>4, <2>1, <2>3
<1> QED  BY <1>2, <1>3, <1>4

\* What a command may do to the statements of the server.
LEMMA AnswersStatements ==
  ASSUME NEW s \in ServerType, NEW c \in CommandType, NEW a \in Answers(s, c)
  PROVE  /\ c.op \notin {"close", "deallocate all"} => s.statements \subseteq a.server.statements
         /\ c.op = "close" => s.statements \ {c.name} \subseteq a.server.statements
         /\ c.op = "prepare" /\ a.status = "OK" => c.name \in a.server.statements
         /\ a.server.statements \subseteq
              s.statements \cup (IF c.op = "prepare" THEN {c.name} ELSE {})
<1>1. /\ Failure(s).statements = s.statements
      /\ [s EXCEPT !.aborted = FALSE].statements = s.statements
  BY DEF Failure, ServerType
<1>2. \/ a = Answer([s EXCEPT !.aborted = FALSE], "SYNC") \/ a = Answer(s, "ABORTED")
      \/ a = Answer(Success(s, c), "OK") \/ a = Answer(Failure(s), "ERROR")
  BY DEF Answers
<1>3. ASSUME NEW x, NEW st  PROVE Answer(x, st).server = x /\ Answer(x, st).status = st
  BY DEF Answer
<1>4. \/ a.server.statements = s.statements /\ a.status # "OK"
      \/ a.server = Success(s, c) /\ a.status = "OK"
  <2>1. \/ a.server = [s EXCEPT !.aborted = FALSE] /\ a.status = "SYNC"
        \/ a.server = s /\ a.status = "ABORTED"
        \/ a.server = Success(s, c) /\ a.status = "OK"
        \/ a.server = Failure(s) /\ a.status = "ERROR"
    <3>1. CASE a = Answer([s EXCEPT !.aborted = FALSE], "SYNC")  BY <1>3, <3>1
    <3>2. CASE a = Answer(s, "ABORTED")  BY <1>3, <3>2
    <3>3. CASE a = Answer(Success(s, c), "OK")  BY <1>3, <3>3
    <3>4. CASE a = Answer(Failure(s), "ERROR")  BY <1>3, <3>4
    <3> QED  BY <1>2, <3>1, <3>2, <3>3, <3>4
  <2> QED  BY <1>1, <2>1
<1>5. CASE a.server.statements = s.statements /\ a.status # "OK"  BY <1>5
<1>6. CASE a.server = Success(s, c) /\ a.status = "OK"
  <2>1. CASE c.op = "prepare"
    <3>1. Success(s, c) = [s EXCEPT !.statements = s.statements \cup {c.name}]
      BY <2>1 DEF Success
    <3>2. Success(s, c).statements = s.statements \cup {c.name}
      BY <3>1 DEF ServerType
    <3> QED  BY <1>6, <2>1, <3>2
  <2>2. CASE c.op = "close"
    <3>1. ~Ends(c) \/ Ends(c)  OBVIOUS
    <3>2. Success(s, c) \in {[s EXCEPT !.statements = s.statements \ {c.name}],
                           [s EXCEPT !.status = "IDLE"]}
      BY <2>2, <3>1 DEF Success
    <3>3. Success(s, c).statements \in {s.statements \ {c.name}, s.statements}
      BY <3>2 DEF ServerType
    <3> QED  BY <1>6, <2>2, <3>3
  <2>3. CASE c.op = "deallocate all"
    <3>1. ~Ends(c) \/ Ends(c)  OBVIOUS
    <3>2. Success(s, c) \in {[s EXCEPT !.statements = {}], [s EXCEPT !.status = "IDLE"]}
      BY <2>3, <3>1 DEF Success
    <3>3. Success(s, c).statements \in {{}, s.statements}
      BY <3>2 DEF ServerType
    <3> QED  BY <1>6, <2>3, <3>3
  <2>4. CASE c.op \notin {"prepare", "close", "deallocate all"}
    <3>1. Success(s, c) \in {[s EXCEPT !.status = "INTRANS"],
                           [s EXCEPT !.status = "IDLE"], s}
      BY <2>4 DEF Success
    <3>2. Success(s, c).statements = s.statements
      BY <3>1 DEF ServerType
    <3> QED  BY <1>6, <2>4, <3>2
  <2> QED  BY <2>1, <2>2, <2>3, <2>4
<1> QED  BY <1>4, <1>5, <1>6

-----------------------------------------------------------------------------
(* What is left of a call.                                                  *)

LEMMA TailParts ==
  ASSUME NEW S, NEW s \in Seq(S), s # <<>>
  PROVE  /\ Tail(s) \in Seq(S) /\ Len(s) \in Nat /\ Len(s) >= 1
         /\ Len(Tail(s)) = Len(s) - 1 /\ Head(s) = s[1]
         /\ \A i \in 1..Len(Tail(s)) : Tail(s)[i] = s[i + 1]
<1>1. /\ Tail(s) \in Seq(S) /\ Len(Tail(s)) = Len(s) - 1
      /\ \A i \in 1..Len(Tail(s)) : Tail(s)[i] = s[i + 1]
  BY HeadTailProperties
<1>2. Len(s) \in Nat /\ Len(s) # 0  BY LenProperties, EmptySeq
<1> QED  BY <1>1, <1>2

\* An exception goes to the first "finally".
LEMMA RaiseParts ==
  ASSUME TodoTyped, NEW t \in Threads, Raise(t)
  PROVE  \E i \in 2..(Len(todo[t]) + 1), s \in Seq(PhaseType) :
           /\ todo' = [todo EXCEPT ![t] = s]
           /\ Len(todo[t]) \in Nat /\ Len(s) = Len(todo[t]) - (i - 1)
           /\ \A j \in 1..Len(s) : s[j] = todo[t][j + (i - 1)]
           /\ i <= Len(todo[t]) => todo[t][i].op \in Finally
           /\ \A j \in 2..(i - 1) : todo[t][j].op \notin Finally
<1> DEFINE T == todo[t]
<1>1. /\ T \in Seq(PhaseType) /\ Len(T) \in Nat
      /\ \A j \in 1..Len(T) : T[j] \in PhaseType
  BY SeqParts DEF TodoTyped
<1>2. PICK i \in 2..(Len(T) + 1) :
        /\ ~(i <= Len(T) /\ T[i].op \notin Finally)
        /\ \A j \in 2..(i - 1) : j <= Len(T) /\ T[j].op \notin Finally
        /\ todo' = [todo EXCEPT ![t] = SubSeq(T, i, Len(T))]
  BY DEF Raise
<1> HIDE DEF T
<1> DEFINE s == SubSeq(T, i, Len(T))
<1>3. /\ s \in Seq(PhaseType) /\ Len(s) = Len(T) - (i - 1)
      /\ \A j \in 1..Len(s) : s[j] = T[j + (i - 1)]
  <2>1. \A j \in i..Len(T) : T[j] \in PhaseType  BY <1>1, <1>2
  <2>2. i \in Int /\ Len(T) \in Int  BY <1>1, <1>2
  <2>3. /\ s \in Seq(PhaseType)
        /\ Len(s) = IF i <= Len(T) THEN Len(T) - i + 1 ELSE 0
        /\ \A j \in 1..(Len(T) - i + 1) : s[j] = T[i + j - 1]
    BY <2>1, <2>2, SubSeqProperties
  <2> HIDE DEF s
  <2>4. Len(s) = Len(T) - (i - 1)
    <3> DEFINE n == Len(T)
    <3>1. n \in Nat /\ i \in 2..(n + 1) /\ Len(s) = IF i <= n THEN n - i + 1 ELSE 0
      BY <1>1, <1>2, <2>3
    <3> HIDE DEF n
    <3>2. Len(s) = n - (i - 1)  BY <3>1
    <3> QED  BY <3>2 DEF n
  <2>5. Len(s) = Len(T) - i + 1  BY <1>1, <1>2, <2>4
  <2>6. ASSUME NEW j \in 1..Len(s)  PROVE s[j] = T[j + (i - 1)]
    <3>1. i + j - 1 = j + (i - 1) /\ j \in 1..(Len(T) - i + 1)
      BY <1>1, <1>2, <2>5
    <3> QED  BY <2>3, <3>1
  <2> QED  BY <2>3, <2>4, <2>6
<1> HIDE DEF s
<1>4. todo' = [todo EXCEPT ![t] = s]  BY <1>2 DEF s
<1>5. /\ i <= Len(T) => T[i].op \in Finally
      /\ \A j \in 2..(i - 1) : T[j].op \notin Finally
  BY <1>2
<1> QED  BY <1>1, <1>2, <1>3, <1>4, <1>5 DEF T

-----------------------------------------------------------------------------
(* The cache and the server, without pipelines.                             *)

\* The phases of the calls made outside of pipelines: a query is followed by
\* maintain_gen().
PlainPhases == {"start", "send", "maintain", "rollback"}
Plain(T) ==
  \A i \in 1..Len(T) :
    /\ T[i].op \in PlainPhases
    /\ T[i].op = "send" => i < Len(T) /\ T[i + 1].op = "maintain"
PlainTodo(T) == T # <<>> => Plain(T)

\* Holds the lock of the connection; at most one thread does.
Working(t) == todo[t] # <<>> /\ Head(todo[t]).op \notin Unlocked
OneWorks == \A t, u \in Threads : Working(t) /\ Working(u) => t = u

PastTyped == past \in [piped : BOOLEAN, skipped : BOOLEAN]

PlainInv ==
  /\ PastTyped
  /\ ~past.piped =>
       /\ level = 0 /\ wire = <<>>
       /\ \A t \in Threads : PlainTodo(todo[t])
       /\ OneWorks
       /\ Kept(cache, server.statements) /\ FewToFlush(cache)
       /\ cache.flush # <<>> => \E t \in Threads : At(t, "maintain")

LEMMA OneWorksKept ==
  ASSUME TodoTyped, OneWorks, NEW t \in Threads, Free \/ Working(t), NEW X,
         todo' = [todo EXCEPT ![t] = X]
  PROVE  OneWorks'
<1>1. todo'[t] = X /\ \A u \in Threads : u # t => todo'[u] = todo[u]
  BY DEF TodoTyped
<1>2. ASSUME NEW u \in Threads, u # t, Working(u)'  PROVE Working(u)
  BY <1>1, <1>2 DEF Working
<1>3. ASSUME NEW u \in Threads, u # t, Working(u)  PROVE FALSE
  <2>1. CASE Free  BY <1>3, <2>1 DEF Free, Working
  <2>2. CASE Working(t)  BY <1>3, <2>2 DEF OneWorks
  <2> QED  BY <2>1, <2>2
<1>4. \A u \in Threads : Working(u)' => u = t  BY <1>2, <1>3
<1> QED  BY <1>4 DEF OneWorks

\* Names wait only for the thread that is about to deallocate them.
LEMMA NothingToFlush ==
  ASSUME PlainInv, ~past.piped, NEW t \in Threads,
         Free \/ (Working(t) /\ ~At(t, "maintain"))
  PROVE  cache.flush = <<>>
<1> SUFFICES ASSUME NEW u \in Threads, At(u, "maintain")  PROVE FALSE
  BY DEF PlainInv
<1>1. Working(u)  BY DEF At, Working, Unlocked
<1>2. CASE Free  BY <1>1, <1>2 DEF Free, Working
<1>3. CASE Working(t) /\ ~At(t, "maintain")
  <2>1. t = u  BY <1>1, <1>3 DEF PlainInv, OneWorks
  <2> QED  BY <1>3, <2>1
<1> QED  BY <1>2, <1>3

\* A step of a call outside of pipelines.
LEMMA PlainNext ==
  ASSUME TodoTyped, PlainInv, ~past.piped, NEW t \in Threads, Free \/ Working(t),
         NEW X, todo' = [todo EXCEPT ![t] = X], PlainTodo(X),
         UNCHANGED <<level, wire, past>>,
         Kept(cache, server.statements)', FewToFlush(cache'),
         cache'.flush # <<>> => X # <<>> /\ Head(X).op = "maintain"
  PROVE  PlainInv'
<1>1. PastTyped'  BY DEF PlainInv, PastTyped
<1>2. todo'[t] = X /\ \A u \in Threads : u # t => todo'[u] = todo[u]
  BY DEF TodoTyped
<1>3. OneWorks'  BY OneWorksKept DEF PlainInv
<1>4. (\A u \in Threads : PlainTodo(todo[u]))'
  <2> SUFFICES ASSUME NEW u \in Threads  PROVE PlainTodo(todo'[u])
    OBVIOUS
  <2>1. CASE u = t  BY <1>2, <2>1
  <2>2. CASE u # t  BY <1>2, <2>2 DEF PlainInv
  <2> QED  BY <2>1, <2>2
<1>5. (cache.flush # <<>> => \E u \in Threads : At(u, "maintain"))'
  BY <1>2 DEF At
<1>6. (level = 0 /\ wire = <<>>)'  BY DEF PlainInv
<1> QED  BY <1>1, <1>3, <1>4, <1>5, <1>6 DEF PlainInv

\* What a plain call goes on with.
LEMMA PlainRest ==
  ASSUME TodoTyped, NEW t \in Threads, todo[t] # <<>>, Head(todo[t]).op # "enter",
         PlainTodo(todo[t]), NEW k \in Nat \ {0}, NEW s \in Seq(PhaseType),
         Len(s) = Len(todo[t]) - k,
         \A j \in 1..Len(s) : s[j] = todo[t][j + k]
  PROVE  Plain(s) /\ PlainTodo(s)
<1> DEFINE T == todo[t]
<1>1. T \in Seq(PhaseType) /\ Len(T) \in Nat /\ T[1] = Head(T)
  BY TailParts DEF TodoTyped
<1>2. Len(s) \in Nat  BY LenProperties
<1>3. \A i \in 1..Len(T) :
        /\ T[i].op \in PlainPhases
        /\ T[i].op = "send" => i < Len(T) /\ T[i + 1].op = "maintain"
  BY <1>1 DEF PlainTodo, Plain
<1> DEFINE n == Len(T)
           m == Len(s)
<1>4. /\ m = n - k /\ n \in Nat /\ m \in Nat /\ k \in Nat /\ k >= 1
      /\ \A j \in 1..m : s[j] = T[j + k]
      /\ \A i \in 1..n :
           /\ T[i].op \in PlainPhases
           /\ T[i].op = "send" => i < n /\ T[i + 1].op = "maintain"
  BY <1>1, <1>2, <1>3
<1> HIDE DEF T, n, m
<1>5. ASSUME NEW i \in 1..m
      PROVE  s[i].op \in PlainPhases
             /\ (s[i].op = "send" => i < m /\ s[i + 1].op = "maintain")
  <2>1. PICK h \in 1..n : h = i + k  BY <1>4
  <2>2. s[i] = T[h]  BY <1>4, <2>1
  <2>3. T[h].op \in PlainPhases /\ (T[h].op = "send" => h < n /\ T[h + 1].op = "maintain")
    BY <1>4
  <2>4. ASSUME s[i].op = "send"  PROVE i < m /\ s[i + 1].op = "maintain"
    <3>1. h < n /\ T[h + 1].op = "maintain"  BY <2>2, <2>3, <2>4
    <3>2. i + 1 \in 1..m
      <4>1. h < n /\ m = n - k /\ n \in Nat /\ k \in Nat  BY <3>1, <1>4
      <4> QED  BY <4>1, <2>1
    <3>3. PICK g \in 1..m : g = i + 1  BY <3>2
    <3>4. g + k = h + 1
      <4>1. k \in Nat  BY <1>4
      <4> QED  BY <4>1, <2>1, <3>3
    <3>5. s[g] = T[h + 1]  BY <1>4, <3>4
    <3>6. i < m
      <4>1. m \in Nat  BY <1>4
      <4> QED  BY <3>2, <4>1
    <3> QED  BY <3>1, <3>3, <3>5, <3>6
  <2> QED  BY <2>2, <2>3, <2>4
<1> QED  BY <1>5 DEF PlainTodo, Plain, m

LEMMA PlainContinues ==
  ASSUME TodoTyped, NEW t \in Threads, todo[t] # <<>>, Head(todo[t]).op # "enter",
         PlainTodo(todo[t]), NEW ok, ContinueIf(ok, t)
  PROVE  \E s : /\ todo' = [todo EXCEPT ![t] = s] /\ PlainTodo(s)
                /\ ok => s = Tail(todo[t])
<1>1. CASE ok
  <2> DEFINE s == Tail(todo[t])
  <2>1. todo[t] \in Seq(PhaseType)  BY DEF TodoTyped
  <2>2. /\ s \in Seq(PhaseType) /\ Len(s) = Len(todo[t]) - 1
        /\ \A j \in 1..Len(s) : s[j] = todo[t][j + 1]
    BY <2>1, TailParts
  <2>3. todo' = [todo EXCEPT ![t] = <<>> \o s]  BY <1>1 DEF ContinueIf, Continue
  <2>4. <<>> \o s = s  BY <2>2
  <2>5. 1 \in Nat \ {0}  OBVIOUS
  <2> HIDE DEF s
  <2>6. PlainTodo(s)  BY <2>2, <2>5, PlainRest
  <2> QED  BY <2>3, <2>4, <2>6 DEF s
<1>2. CASE ~ok
  <2>1. PICK i \in 2..(Len(todo[t]) + 1), s \in Seq(PhaseType) :
          /\ todo' = [todo EXCEPT ![t] = s]
          /\ Len(todo[t]) \in Nat /\ Len(s) = Len(todo[t]) - (i - 1)
          /\ \A j \in 1..Len(s) : s[j] = todo[t][j + (i - 1)]
    BY <1>2, RaiseParts DEF ContinueIf
  <2>2. i - 1 \in Nat \ {0}  BY <2>1
  <2>3. PlainTodo(s)  BY <2>1, <2>2, PlainRest
  <2> QED  BY <1>2, <2>1, <2>3
<1> QED  BY <1>1, <1>2

LEMMA ThreeConcat ==
  ASSUME NEW a, NEW b, NEW c
  PROVE  <<a, b>> \o <<>> \o <<c>> = <<a, b, c>>
<1> DEFINE S == {a, b, c}
           p == <<a, b>>
           z == <<c>>
           r == p \o z
           s == <<a, b, c>>
<1>1. p \in Seq(S) /\ z \in Seq(S) /\ Len(p) = 2 /\ Len(z) = 1
      /\ p[1] = a /\ p[2] = b /\ z[1] = c
  OBVIOUS
<1>2. s \in Seq(S) /\ Len(s) = 3 /\ s[1] = a /\ s[2] = b /\ s[3] = c
  OBVIOUS
<1> HIDE DEF p, z, s
<1>3. r \in Seq(S) /\ Len(r) = 3 /\ r[1] = p[1] /\ r[2] = p[2] /\ r[3] = z[1]
  <2>1. /\ r \in Seq(S) /\ Len(r) = Len(p) + Len(z)
        /\ \A i \in 1..(Len(p) + Len(z)) : r[i] = IF i <= Len(p) THEN p[i] ELSE z[i - Len(p)]
    BY <1>1, ConcatProperties
  <2> HIDE DEF r
  <2>2. \A i \in 1..3 : r[i] = IF i <= 2 THEN p[i] ELSE z[i - 2]  BY <1>1, <2>1
  <2> QED  BY <1>1, <2>1, <2>2
<1> HIDE DEF r
<1>4. \A i \in 1..3 : r[i] = s[i]  BY <1>1, <1>2, <1>3
<1>5. r = s  BY <1>2, <1>3, <1>4, SeqEqual
<1>6. p \o <<>> = p  BY <1>1
<1> QED  BY <1>5, <1>6 DEF r, s, p, z

LEMMA ExecuteIsPlain ==
  ASSUME NEW q, NEW prepare, level = 0
  PROVE  PlainTodo(ExecutePhases(q, prepare))
<1> DEFINE T == ExecutePhases(q, prepare)
<1>1. T = <<Do("start"), Send(q, prepare)>> \o <<>> \o <<Do("maintain")>>
  BY DEF ExecutePhases
<1>2. T = <<Do("start"), Send(q, prepare), Do("maintain")>>
  BY <1>1, ThreeConcat
<1>3. /\ Do("start").op = "start" /\ Send(q, prepare).op = "send"
      /\ Do("maintain").op = "maintain"
  BY DEF Do, Send
<1>4. Len(T) = 3 /\ T[1].op = "start" /\ T[2].op = "send" /\ T[3].op = "maintain"
  BY <1>2, <1>3
<1> HIDE DEF T
<1>5. ASSUME NEW i \in 1..3
      PROVE  T[i].op \in PlainPhases /\ (T[i].op = "send" => i < 3 /\ T[i + 1].op = "maintain")
  <2>1. i = 1 \/ i = 2 \/ i = 3  OBVIOUS
  <2> QED  BY <1>4, <2>1 DEF PlainPhases
<1> QED  BY <1>4, <1>5 DEF PlainTodo, Plain, T

LEMMA DoOp == \A op : Do(op).op = op
BY DEF Do, Send

LEMMA SingleIsPlain ==
  ASSUME NEW op, op \in {"maintain", "rollback"}
  PROVE  PlainTodo(<<Do(op)>>) /\ <<Do(op)>> # <<>> /\ Head(<<Do(op)>>).op = op
<1>1. Do(op).op = op  BY DoOp
<1> DEFINE x == Do(op)
           T == <<x>>
<1>2. T # <<>> /\ Head(T) = x /\ Len(T) = 1 /\ T[1] = x
  <2> HIDE DEF x
  <2> QED  OBVIOUS
<1> HIDE DEF T
<1>3. ASSUME NEW i \in 1..Len(T)
      PROVE  T[i].op \in PlainPhases /\ T[i].op # "send"
  <2>1. i = 1  BY <1>2
  <2> QED  BY <1>1, <1>2, <1>3, <2>1 DEF PlainPhases
<1>4. PlainTodo(T)  BY <1>1, <1>2, <1>3 DEF PlainTodo, Plain
<1> QED  BY <1>1, <1>2, <1>4 DEF T

LEMMA PlainCall ==
  ASSUME QueuesInv, PlainInv, ~past.piped, NEW t \in Threads, Call(t)
  PROVE  PlainInv'
<1>1. /\ TodoTyped /\ level = 0 /\ Kept(cache, server.statements) /\ FewToFlush(cache)
      /\ server \in ServerType
  BY DEF QueuesInv, CacheInv, PlainInv
<1>2. ASSUME Idle(t), NEW X, Start(t, X), PlainTodo(X), UNCHANGED <<level, wire, past, cache>>,
             Kept(cache, server'.statements)
      PROVE  PlainInv'
  <2>1. Free  BY <1>2 DEF Idle
  <2>2. cache.flush = <<>>  BY <2>1, NothingToFlush
  <2>3. todo' = [todo EXCEPT ![t] = X]  BY <1>2 DEF Start
  <2>4. Kept(cache, server.statements)'  BY <1>2
  <2>5. FewToFlush(cache')  BY <1>1, <1>2
  <2> QED  BY <1>1, <1>2, <2>1, <2>2, <2>3, <2>4, <2>5, PlainNext
<1>3. ASSUME NEW q \in Queries, NEW prepare \in {"auto", "yes", "no"},
             execute(t, q, prepare)
      PROVE  PlainInv'
  <2>1. PlainTodo(ExecutePhases(q, prepare))  BY <1>1, ExecuteIsPlain
  <2> QED  BY <1>1, <1>2, <1>3, <2>1 DEF execute, network
<1>4. ASSUME past' = PipelineUsed  PROVE PlainInv'
  <2>1. past' = [past EXCEPT !.piped = TRUE] /\ PastTyped
    BY <1>4 DEF PipelineUsed, PlainInv
  <2>2. past' \in [piped : BOOLEAN, skipped : BOOLEAN] /\ past'.piped
    BY <2>1 DEF PastTyped
  <2> QED  BY <2>2 DEF PlainInv, PastTyped
<1>5. ASSUME enter(t) \/ \E q \in Queries, returning \in BOOLEAN : executemany(t, q, returning)
      PROVE  PlainInv'
  BY <1>4, <1>5 DEF enter, executemany
<1>6. CASE rollback(t)
  <2>1. PlainTodo(<<Do("rollback")>>)  BY SingleIsPlain
  <2>2. Start(t, <<Do("rollback")>>) /\ Idle(t)  BY <1>1, <1>6 DEF rollback
  <2> QED  BY <1>1, <1>2, <1>6, <2>1, <2>2 DEF rollback, network
<1>7. CASE commit_now(t)
  <2>1. todo[t] = <<>> /\ Idle(t)  BY <1>7 DEF commit_now, Idle
  <2>2. Start(t, <<>>)  BY <1>1, <1>7, <2>1 DEF commit_now, Start, TodoTyped
  <2>3. PlainTodo(<<>>)  BY DEF PlainTodo
  <2>4. Simple("commit") \in CommandType /\ Simple("commit").op = "commit"
    BY CommandTypes DEF Simple, Command
  <2>5. server.statements \subseteq server'.statements
    BY <1>1, <1>7, <2>4, AnswersStatements DEF commit_now, Answered
  <2>6. Kept(cache, server'.statements)  BY <1>1, <2>5 DEF Kept
  <2> QED  BY <1>2, <1>7, <2>1, <2>2, <2>3, <2>6 DEF commit_now
<1>8. ~exit(t) /\ ~sync(t) /\ ~fetch(t) /\ ~commit_enqueued(t)
  BY <1>1 DEF exit, sync, fetch, commit_enqueued
<1> QED  BY <1>3, <1>4, <1>5, <1>6, <1>7, <1>8 DEF Call

LEMMA NextNameParts ==
  ASSUME NEW c, Sound(c), NEW prep
  PROVE  LET n == NextName(c, prep)
         IN  n.counts = c.counts /\ n.names = c.names /\ n.flush = c.flush
BY SoundParts DEF NextName, CacheType

LEMMA AtPlain ==
  ASSUME PlainInv, ~past.piped, TodoTyped, NEW t \in Threads, NEW phase, At(t, phase)
  PROVE  /\ todo[t] # <<>> /\ Head(todo[t]).op = phase /\ PlainTodo(todo[t])
         /\ phase \in PlainPhases /\ Working(t)
<1>1. todo[t] # <<>> /\ Head(todo[t]).op = phase  BY DEF At
<1>2. /\ Len(todo[t]) \in Nat /\ Len(todo[t]) >= 1 /\ Head(todo[t]) = todo[t][1]
  BY <1>1, TailParts DEF TodoTyped
<1>3. PlainTodo(todo[t])  BY DEF PlainInv
<1>4. 1 \in 1..Len(todo[t])  BY <1>2
<1>5. phase \in PlainPhases  BY <1>1, <1>2, <1>3, <1>4 DEF PlainTodo, Plain
<1> QED  BY <1>1, <1>3, <1>5 DEF Working, Unlocked, PlainPhases

\* The entry of a query that is answered: n is the cache c after get(), a after
\* maybe_add_to_cache(), and r after validate().
Answering(c, q, U, prep, name, n, a, ok, kind, r) ==
  /\ Sound(c) /\ q \in Queries /\ Values(c.names) \subseteq U
  /\ Len(c.counts) <= PreparedMax /\ Len(c.counts) + Len(c.names) <= 2 * PreparedMax
  /\ prep \in {"NO", "YES", "SHOULD"} /\ name \in Int
  /\ prep = "SHOULD" => q \notin Keys(c.names) /\ name \in U
  /\ Sound(n) /\ n.counts = c.counts /\ n.names = c.names /\ n.flush = <<>>
  /\ a = MaybeAdd(n, q, prep, name) /\ Sound(a)
  /\ r = IF IsNew(c, q) THEN Validate(a, q, prep, ok, kind) ELSE a

LEMMA AddedKept ==
  ASSUME NEW c, NEW q, NEW U, NEW prep, NEW name, NEW n, NEW a, NEW ok, NEW kind, NEW r,
         Answering(c, q, U, prep, name, n, a, ok, kind, r)
  PROVE  Kept(r, U) /\ FewToFlush(r) /\ (~ok => r.flush = <<>>)
<1> USE DEF Answering
<1>1. prep = "SHOULD" => q \notin Keys(n.names)  OBVIOUS
<1>5. IsNew(n, q) <=> IsNew(c, q)  BY Zenon DEF IsNew
<1>6. /\ a.flush = n.flush /\ a.counts \in Seq(Entry) /\ a.names \in Seq(Entry)
      /\ Values(a.names) \subseteq Values(n.names) \cup (IF prep = "SHOULD" THEN {name} ELSE {})
      /\ ~IsNew(n, q) => /\ Len(a.counts) <= Len(n.counts)
                         /\ Len(a.counts) + Len(a.names) <= Len(n.counts) + Len(n.names)
      /\ IsNew(n, q) =>
           \/ a.names = n.names /\ a.counts = Insert(n.counts, q, 1)
           \/ a.counts = n.counts /\ a.names = Insert(n.names, q, name)
  <2>1. Adds(n, q, prep, name, a)  BY <1>1, MaybeAddSizes
  <2> QED  BY <2>1 DEF Adds
<1>7. /\ Len(c.counts) \in Nat /\ Len(c.names) \in Nat /\ Len(a.counts) \in Nat
      /\ Len(a.names) \in Nat /\ PreparedMax \in Nat
  BY Sizes
<1>8. Values(a.names) \subseteq U
  BY <1>6 DEF Kept
<1>9. /\ Len(c.counts) <= PreparedMax
      /\ Len(c.counts) + Len(c.names) <= 2 * PreparedMax
  OBVIOUS
<1>10. CASE ~IsNew(c, q)
  <2>1. Len(a.counts) <= Len(c.counts)
        /\ Len(a.counts) + Len(a.names) <= Len(c.counts) + Len(c.names)
    BY <1>5, <1>6, <1>10, Zenon
  <2>2. Len(a.counts) <= PreparedMax  BY <2>1, <1>7, <1>9
  <2>3. \A i, j, k \in Nat : i <= j /\ j <= k => i <= k  OBVIOUS
  <2>4. /\ Len(a.counts) + Len(a.names) \in Nat /\ Len(c.counts) + Len(c.names) \in Nat
        /\ 2 * PreparedMax \in Nat
    <3>1. \A i, j \in Nat : i + j \in Nat /\ 2 * i \in Nat  OBVIOUS
    <3> QED  BY <1>7, <3>1, Zenon
  <2>5. Len(a.counts) + Len(a.names) <= 2 * PreparedMax
    BY <2>1, <1>9, <2>3, <2>4, Zenon
  <2>6. Kept(a, U)  BY <1>8, <2>2, <2>5 DEF Kept
  <2>7. FewToFlush(a) /\ a.flush = <<>>  BY <1>6 DEF FewToFlush
  <2>8. r = a  BY <1>10
  <2> QED  BY <2>6, <2>7, <2>8
<1>11. CASE IsNew(c, q)
  <2>1. c.counts \in Seq(Entry) /\ c.names \in Seq(Entry) /\ 1 \in Int
    BY SoundParts
  <2>2. \/ /\ Len(a.names) = Len(c.names) /\ Len(a.counts) = Len(c.counts) + 1
           /\ q \in Keys(a.counts)
        \/ /\ Len(a.counts) = Len(c.counts) /\ Len(a.names) = Len(c.names) + 1
           /\ q \in Keys(a.names)
    <3>1. CASE a.names = n.names /\ a.counts = Insert(n.counts, q, 1)
      <4>1. a.counts = Insert(c.counts, q, 1) /\ a.names = c.names  BY <3>1
      <4>2. /\ Len(Insert(c.counts, q, 1)) = Len(c.counts) + 1
            /\ Keys(Insert(c.counts, q, 1)) = Keys(c.counts) \cup {q}
        BY <2>1, InsertLen, InsertKeys
      <4> QED  BY <4>1, <4>2, Zenon
    <3>2. CASE a.counts = n.counts /\ a.names = Insert(n.names, q, name)
      <4>1. a.names = Insert(c.names, q, name) /\ a.counts = c.counts  BY <3>2
      <4> QED  BY <1>1, <2>1, <4>1, InsertLen, InsertKeys
    <3> QED  BY <1>5, <1>6, <1>11, <3>1, <3>2
  <2>3. OneMore(a, q)
    <3> DEFINE i == Len(c.counts)
               j == Len(c.names)
               x == Len(a.counts)
               y == Len(a.names)
    <3>1. /\ i \in Nat /\ j \in Nat /\ x \in Nat /\ y \in Nat /\ PreparedMax \in Nat
          /\ i <= PreparedMax /\ i + j <= 2 * PreparedMax
          /\ \/ y = j /\ x = i + 1 /\ q \in Keys(a.counts)
             \/ x = i /\ y = j + 1 /\ q \in Keys(a.names)
      BY <1>7, <1>9, <2>2
    <3> HIDE DEF i, j, x, y
    <3>2. /\ \/ q \in Keys(a.names) /\ x <= PreparedMax
             \/ q \in Keys(a.counts) /\ x <= PreparedMax + 1
          /\ x + y <= 2 * PreparedMax + 1
      BY <3>1
    <3> QED  BY <3>2 DEF OneMore, x, y
  <2>4. a.flush = <<>>  BY <1>6
  <2> DEFINE v == Validate(a, q, prep, ok, kind)
  <2>5. Kept(v, U) /\ FewToFlush(v) /\ (~ok => v.flush = <<>>)
    BY <1>8, <2>3, <2>4, ValidateKept
  <2> HIDE DEF v
  <2>6. r = v  BY <1>11 DEF v
  <2> QED  BY <2>5, <2>6
<1> QED  BY <1>10, <1>11

\* Nothing but a name is gone, or a statement added.
LEMMA KeptMore ==
  ASSUME NEW c, NEW S, Kept(c, S), NEW U, S \subseteq U
  PROVE  Kept(c, U)
BY DEF Kept

\* rollback() goes on with maintain_gen().
LEMMA PlainMaintain ==
  ASSUME NEW s \in Seq(PhaseType), Plain(s)
  PROVE  LET T == <<Do("maintain")>> \o s
         IN  PlainTodo(T) /\ T # <<>> /\ Head(T).op = "maintain"
<1> DEFINE d == <<Do("maintain")>>
           T == d \o s
<1>1. d \in Seq(PhaseType) /\ Len(d) = 1 /\ d[1].op = "maintain"
  <2>1. Do("maintain") \in PhaseType  BY DoTyped DEF PhaseOps
  <2>2. Do("maintain").op = "maintain"  BY DoOp
  <2> HIDE DEF d
  <2>3. d = <<Do("maintain")>>  BY DEF d
  <2> QED  BY <2>1, <2>2, <2>3
<1> HIDE DEF d
<1>2. Len(s) \in Nat  BY LenProperties
<1>3. /\ T \in Seq(PhaseType) /\ Len(T) = 1 + Len(s)
      /\ \A i \in 1..(1 + Len(s)) : T[i] = IF i <= 1 THEN d[i] ELSE s[i - 1]
  <2>1. /\ T \in Seq(PhaseType) /\ Len(T) = Len(d) + Len(s)
        /\ \A i \in 1..(Len(d) + Len(s)) : T[i] = IF i <= Len(d) THEN d[i] ELSE s[i - Len(d)]
    BY <1>1, ConcatProperties
  <2> HIDE DEF T
  <2> QED  BY <1>1, <2>1
<1> HIDE DEF T
<1> DEFINE n == Len(s)
<1>4. n \in Nat /\ Len(T) = 1 + n /\ T[1].op = "maintain"
      /\ \A j \in 1..n : T[j + 1] = s[j]
  <2>1. n \in Nat  BY <1>2
  <2>2. \A i \in 1..(1 + n) : T[i] = IF i <= 1 THEN d[i] ELSE s[i - 1]  BY <1>3
  <2>3. T[1] = d[1]
    <3>1. 1 \in 1..(1 + n)  BY <2>1
    <3> QED  BY <2>2, <3>1
  <2>4. ASSUME NEW j \in 1..n  PROVE T[j + 1] = s[j]
    <3> HIDE DEF n
    <3>1. j + 1 \in 1..(1 + n) /\ ~(j + 1 <= 1) /\ (j + 1) - 1 = j  BY <2>1
    <3> QED  BY <2>2, <3>1
  <2> QED  BY <1>1, <1>3, <2>1, <2>3, <2>4
<1>5. \A j \in 1..n : /\ s[j].op \in PlainPhases
                      /\ s[j].op = "send" => j < n /\ s[j + 1].op = "maintain"
  BY DEF Plain
<1> HIDE DEF n
<1>6. ASSUME NEW i \in 1..(1 + n)
      PROVE  /\ T[i].op \in PlainPhases
             /\ T[i].op = "send" => i < 1 + n /\ T[i + 1].op = "maintain"
  <2>1. CASE i = 1  BY <1>4, <2>1 DEF PlainPhases
  <2>2. CASE i # 1
    <3>1. PICK j \in 1..n : i = j + 1
      <4>1. i - 1 \in 1..n /\ i = (i - 1) + 1  BY <1>4, <2>2
      <4> QED  BY <4>1
    <3>2. T[i] = s[j]  BY <1>4, <3>1
    <3>3. ASSUME j < n  PROVE T[i + 1] = s[j + 1] /\ i < 1 + n
      <4>1. PICK k \in 1..n : k = j + 1  BY <1>4, <3>3
      <4>2. T[k + 1] = s[k]  BY <1>4
      <4>3. i < 1 + n  BY <1>4, <3>1, <3>3
      <4> QED  BY <3>1, <4>1, <4>2, <4>3
    <3> QED  BY <1>5, <3>2, <3>3
  <2> QED  BY <2>1, <2>2
<1>7. Plain(T)  BY <1>4, <1>6 DEF Plain
<1>8. T # <<>> /\ Head(T) = T[1]
  <2>1. Len(T) # 0  BY <1>4
  <2> QED  BY <1>3, <2>1
<1> QED  BY <1>4, <1>7, <1>8 DEF PlainTodo, T, d

LEMMA NothingLost ==
  ASSUME NEW s \in ServerType, NEW c \in CommandType, NEW a \in Answers(s, c),
         c.op \notin {"close", "deallocate all"}
  PROVE  s.statements \subseteq a.server.statements
BY AnswersStatements

\* The next statement to deallocate is no query's any more.
LEMMA FlushOne ==
  ASSUME NEW c, Sound(c), FewToFlush(c), c.flush # <<>>, NEW s \in ServerType,
         NEW a \in Answers(s, Deallocate(Head(c.flush))), Kept(c, s.statements)
  PROVE  Tail(c.flush) = <<>> /\ Kept(c, a.server.statements)
<1> DEFINE n == Head(c.flush)
           d == Deallocate(n)
<1>1. c.flush \in Seq(Int) /\ c.names \in Seq(Entry)  BY SoundParts
<1>2. /\ n \in Int /\ n = c.flush[1] /\ 1 \in DOMAIN c.flush
      /\ Tail(c.flush) = <<>>
  <2> DEFINE f == c.flush
  <2>1. f \in Seq(Int) /\ f # <<>> /\ Len(f) <= 1  BY <1>1 DEF FewToFlush
  <2> HIDE DEF f
  <2>2. /\ Tail(f) \in Seq(Int) /\ Len(f) \in Nat /\ Len(f) >= 1
        /\ Len(Tail(f)) = Len(f) - 1 /\ Head(f) = f[1]
    BY <2>1, TailParts
  <2>3. Len(f) = 1 /\ Len(Tail(f)) = 0  BY <2>1, <2>2
  <2>4. Tail(f) = <<>>  BY <2>2, <2>3, EmptySeq
  <2>5. Head(f) \in Int  BY <2>1, HeadTailProperties
  <2>6. 1 \in DOMAIN f  BY <2>1, <2>3, LenProperties
  <2> QED  BY <2>2, <2>4, <2>5, <2>6 DEF f
<1>3. d \in CommandType  BY <1>2, DeallocateTyped
<1>4. n \notin Values(c.names)  BY <1>2, SoundParts
<1>5. CASE n = All
  <2>1. c.names = <<>>  BY <1>2, <1>5 DEF FewToFlush
  <2>2. Values(c.names) = {}  BY <2>1 DEF Values
  <2> QED  BY <1>2, <2>2 DEF Kept
<1>6. CASE n # All
  <2>1. d.op = "close" /\ d.name = n  BY <1>6 DEF Deallocate, Command
  <2> HIDE DEF d, n
  <2>2. s.statements \ {n} \subseteq a.server.statements
    BY <1>3, <2>1, AnswersStatements DEF d, n
  <2>3. Values(c.names) \subseteq a.server.statements  BY <1>4, <2>2 DEF Kept
  <2> QED  BY <1>2, <2>3 DEF Kept
<1> QED  BY <1>5, <1>6

LEMMA CommandOp ==
  ASSUME NEW op, NEW q, NEW n
  PROVE  Command(op, q, n).op = op /\ Command(op, q, n).name = n /\ Simple(op).op = op
BY DEF Command, Simple

LEMMA RunOp ==
  ASSUME NEW q, NEW g
  PROVE  RunCommand(q, g).op \notin {"close", "deallocate all"}
<1>1. Command("run", q, NoName).op = "run"  BY CommandOp
<1>2. Command("run prepared", q, g.name).op = "run prepared"  BY DEF Command
<1>3. RunCommand(q, g) = Command("run", q, NoName)
      \/ RunCommand(q, g) = Command("run prepared", q, g.name)
  BY DEF RunCommand
<1> QED  BY <1>1, <1>2, <1>3

\* What is executed outside of a pipeline loses no statement.
LEMMA ExecutedKept ==
  ASSUME Sound(cache), NEW q \in Queries, NEW prepare, NEW s \in ServerType,
         NEW g, g = Get(cache, q, prepare),
         NEW s2 \in IF g.prep = "SHOULD"
                    THEN {a.server : a \in {b \in Answers(s, PrepareCommand(q, g)) : b.status = "OK"}}
                    ELSE {s},
         NEW a \in Answers(s2, RunCommand(q, g))
  PROVE  /\ s.statements \subseteq a.server.statements
         /\ g.prep = "SHOULD" => g.name \in a.server.statements
<1>1. PrepareCommand(q, g) \in CommandType /\ RunCommand(q, g) \in CommandType
  BY ExecuteCommands
<1>2. PrepareCommand(q, g).op = "prepare" /\ PrepareCommand(q, g).name = g.name
  BY CommandOp DEF PrepareCommand
<1>3. RunCommand(q, g).op \notin {"close", "deallocate all"}
  BY RunOp
<1>4. /\ s2 \in ServerType /\ s.statements \subseteq s2.statements
      /\ g.prep = "SHOULD" => g.name \in s2.statements
  <2>1. CASE g.prep = "SHOULD"
    <3>1. PICK b \in Answers(s, PrepareCommand(q, g)) : b.status = "OK" /\ s2 = b.server
      BY <2>1
    <3>2. b.server \in ServerType  BY <1>1, <3>1, AnswersTyped
    <3>3. s.statements \subseteq b.server.statements /\ g.name \in b.server.statements
      BY <1>1, <1>2, <3>1, AnswersStatements
    <3> QED  BY <3>1, <3>2, <3>3
  <2>2. CASE g.prep # "SHOULD"  BY <2>2
  <2> QED  BY <2>1, <2>2
<1>5. s2.statements \subseteq a.server.statements
  BY <1>1, <1>3, <1>4, NothingLost
<1> QED  BY <1>4, <1>5

LEMMA MaintainFollows ==
  ASSUME TodoTyped, PlainInv, ~past.piped, NEW t \in Threads, At(t, "send")
  PROVE  Tail(todo[t]) # <<>> /\ Head(Tail(todo[t])).op = "maintain"
<1> DEFINE T == todo[t]
           s == Tail(T)
<1>1. T # <<>> /\ Head(T).op = "send" /\ PlainTodo(T) /\ T \in Seq(PhaseType)
  BY AtPlain DEF TodoTyped
<1> HIDE DEF T
<1>2. /\ s \in Seq(PhaseType) /\ Len(T) \in Nat /\ Len(T) >= 1
      /\ Len(s) = Len(T) - 1 /\ Head(T) = T[1]
      /\ \A i \in 1..Len(s) : s[i] = T[i + 1]
  BY <1>1, TailParts
<1> HIDE DEF s
<1>3. Plain(T)  BY <1>1, <1>2 DEF PlainTodo
<1>4. 1 < Len(T) /\ T[1 + 1].op = "maintain"
  <2>1. 1 \in 1..Len(T)  BY <1>2
  <2> QED  BY <1>1, <1>2, <1>3, <2>1 DEF Plain
<1>5. 1 \in 1..Len(s) /\ Len(s) # 0  BY <1>2, <1>4
<1>6. s[1].op = "maintain"  BY <1>2, <1>4, <1>5
<1>7. s # <<>>  BY <1>5
<1>8. Head(s) = s[1]  BY <1>2, <1>7, TailParts
<1> QED  BY <1>6, <1>7, <1>8 DEF s, T

\* The steps outside of pipelines.
LEMMA PlainStep ==
  ASSUME QueuesInv, PlainInv, ~past.piped, NEW t \in Threads, Step(t)
  PROVE  PlainInv'
<1>1. /\ TodoTyped /\ level = 0 /\ wire = <<>> /\ Sound(cache) /\ FewToFlush(cache)
      /\ Kept(cache, server.statements) /\ server \in ServerType
  BY DEF QueuesInv, CacheInv, PlainInv
<1>2. ASSUME NEW phase \in PlainPhases, At(t, phase), NEW ok, ContinueIf(ok, t),
             UNCHANGED <<level, wire, past>>, Kept(cache', server'.statements),
             FewToFlush(cache'),
             cache'.flush # <<>> => /\ ok /\ Tail(todo[t]) # <<>>
                                    /\ Head(Tail(todo[t])).op = "maintain"
      PROVE  PlainInv'
  <2>1. /\ todo[t] # <<>> /\ Head(todo[t]).op = phase /\ PlainTodo(todo[t])
        /\ phase # "enter" /\ Working(t)
    <3>1. phase # "enter"  BY DEF PlainPhases
    <3> QED  BY <1>1, <1>2, <3>1, AtPlain
  <2>2. PICK s : /\ todo' = [todo EXCEPT ![t] = s] /\ PlainTodo(s)
                 /\ ok => s = Tail(todo[t])
    BY <1>1, <1>2, <2>1, PlainContinues
  <2>3. (Kept(cache, server.statements))'  BY <1>2
  <2>4. cache'.flush # <<>> => s # <<>> /\ Head(s).op = "maintain"
    BY <1>2, <2>2
  <2> QED  BY <1>1, <1>2, <2>1, <2>2, <2>3, <2>4, PlainNext
<1>3. ASSUME NEW phase, At(t, phase), phase # "maintain", phase # "enter"
      PROVE  cache.flush = <<>>
  <2>1. Working(t)  BY <1>1, <1>3, AtPlain
  <2>2. ~At(t, "maintain")  BY <1>3 DEF At
  <2> QED  BY <2>1, <2>2, NothingToFlush
<1>4. ASSUME NEW phase \in PlainPhases \ {"maintain"}, At(t, phase), NEW ok, ContinueIf(ok, t),
             UNCHANGED <<level, wire, past, cache>>,
             server.statements \subseteq server'.statements
      PROVE  PlainInv'
  <2>1. cache.flush = <<>>
    <3>1. phase # "enter" /\ phase # "maintain"  BY DEF PlainPhases
    <3> QED  BY <1>3, <1>4, <3>1
  <2>2. Kept(cache', server'.statements) /\ FewToFlush(cache')
    BY <1>1, <1>4, KeptMore
  <2> QED  BY <1>2, <1>4, <2>1, <2>2
<1>5. /\ "start" \in PlainPhases \ {"maintain"} /\ "send" \in PlainPhases \ {"maintain"}
      /\ "rollback" \in PlainPhases \ {"maintain"} /\ "maintain" \in PlainPhases
  BY DEF PlainPhases
<1>6. Continue(t, <<>>) => ContinueIf(TRUE, t)  BY DEF ContinueIf
<1>7. Raise(t) => ContinueIf(FALSE, t)  BY DEF ContinueIf
<1>8. CASE start_skipped(t)
  BY <1>4, <1>5, <1>6, <1>8 DEF start_skipped, network
<1>9. CASE start_now(t)
  <2>1. PICK a \in Answers(server, Simple("begin")) : Answered(a) /\ ContinueIf(a.status = "OK", t)
    BY <1>9 DEF start_now
  <2>2. Simple("begin") \in CommandType /\ Simple("begin").op = "begin"
    BY CommandTypes, CommandOp
  <2>3. server.statements \subseteq server'.statements
    BY <1>1, <2>1, <2>2, NothingLost DEF Answered
  <2> QED  BY <1>4, <1>5, <1>9, <2>1, <2>3 DEF start_now
<1>10. CASE prepare_fails(t)
  <2> DEFINE q == Head(todo[t]).query
             g == Get(cache, q, Head(todo[t]).prepare)
  <2>1. q \in Queries  BY <1>1, <1>10, AtPhase DEF prepare_fails
  <2>2. PrepareCommand(q, g) \in CommandType  BY <1>1, <2>1, ExecuteCommands
  <2>3. PICK a \in Answers(server, PrepareCommand(q, g)) : Answered(a)
    BY <1>10 DEF prepare_fails
  <2>4. At(t, "send") /\ cache' = NextName(cache, g.prep) /\ Raise(t)
    BY <1>10 DEF prepare_fails
  <2> HIDE DEF g, q
  <2>5. PrepareCommand(q, g).op = "prepare"  BY DEF PrepareCommand, Command
  <2>6. server.statements \subseteq server'.statements
    BY <1>1, <2>2, <2>3, <2>5, NothingLost DEF Answered
  <2>7. cache.flush = <<>>
    <3>1. "send" # "maintain" /\ "send" # "enter"  OBVIOUS
    <3> QED  BY <1>3, <2>4, <3>1
  <2>8. /\ cache'.counts = cache.counts /\ cache'.names = cache.names
        /\ cache'.flush = cache.flush
    BY <1>1, <2>4, NextNameParts
  <2>9. Kept(cache', server'.statements)  BY <1>1, <2>6, <2>8 DEF Kept
  <2>10. FewToFlush(cache')  BY <1>1, <2>8 DEF FewToFlush
  <2>11. UNCHANGED <<level, wire, past>>  BY <1>10 DEF prepare_fails
  <2> QED  BY <1>2, <1>5, <1>7, <2>4, <2>7, <2>8, <2>9, <2>10, <2>11
<1>11. CASE execute_now(t)
  <2> DEFINE q == Head(todo[t]).query
             prepare == Head(todo[t]).prepare
             g == Get(cache, q, prepare)
             n == NextName(cache, g.prep)
             added == MaybeAdd(n, q, g.prep, g.name)
             bases == IF g.prep = "SHOULD"
                      THEN {a.server : a \in {b \in Answers(server, PrepareCommand(q, g)) :
                                                b.status = "OK"}}
                      ELSE {server}
  <2>1. q \in Queries /\ At(t, "send")  BY <1>1, <1>11, AtPhase DEF execute_now
  <2>2a. PICK s \in bases : \E a \in Answers(s, RunCommand(q, g)) :
          /\ Answered(a)
          /\ cache' = IF IsNew(cache, q)
                      THEN Validate(added, q, g.prep, a.status = "OK", Kind[q])
                      ELSE added
          /\ ContinueIf(a.status = "OK", t)
    BY <1>11 DEF execute_now
  <2>2. PICK a \in Answers(s, RunCommand(q, g)) :
          /\ Answered(a)
          /\ cache' = IF IsNew(cache, q)
                      THEN Validate(added, q, g.prep, a.status = "OK", Kind[q])
                      ELSE added
          /\ ContinueIf(a.status = "OK", t)
    BY <2>2a
  <2>3. /\ g.prep \in {"NO", "YES", "SHOULD"} /\ g.name \in Int
        /\ g.prep = "SHOULD" => q \notin Keys(cache.names)
    BY <1>1, GetTypes
  <2>4. Sound(added) /\ Sound(n)  BY <1>1, <2>1, AddSound, NextNameSound
  <2>5. n.counts = cache.counts /\ n.names = cache.names /\ n.flush = cache.flush
    BY <1>1, NextNameParts
  <2>6. cache.flush = <<>>
    <3>1. "send" # "maintain" /\ "send" # "enter"  OBVIOUS
    <3> QED  BY <1>3, <2>1, <3>1
  <2> DEFINE U == a.server.statements
  <2>7. server.statements \subseteq U /\ (g.prep = "SHOULD" => g.name \in U)
    <3> HIDE DEF q, prepare
    <3>1. g = Get(cache, q, prepare)  OBVIOUS
    <3> HIDE DEF g
    <3> QED  BY <1>1, <2>1, <2>2, <3>1, ExecutedKept
  <2>8. PICK ok : ok = (a.status = "OK")  OBVIOUS
  <2>9. PICK c : c = added  OBVIOUS
  <2>10. PICK u : u = U  OBVIOUS
  <2>11. UNCHANGED <<level, wire, past>> /\ server' = a.server
    BY <1>11, <2>2 DEF execute_now, Answered
  <2>12. cache' = IF IsNew(cache, q) THEN Validate(c, q, g.prep, ok, Kind[q]) ELSE c
    BY <2>2, <2>8, <2>9
  <2>13. /\ c = MaybeAdd(n, q, g.prep, g.name) /\ Sound(c) /\ server'.statements = u
         /\ server.statements \subseteq u /\ (g.prep = "SHOULD" => g.name \in u)
         /\ ContinueIf(ok, t)
    BY <2>2, <2>4, <2>7, <2>8, <2>9, <2>10, <2>11
  <2> HIDE DEF added, U, bases
  <2>14. PICK m : m = n  OBVIOUS
  <2>15. /\ Sound(m) /\ m.counts = cache.counts /\ m.names = cache.names /\ m.flush = <<>>
         /\ c = MaybeAdd(m, q, g.prep, g.name)
    BY <2>4, <2>5, <2>6, <2>13, <2>14
  <2> HIDE DEF n
  <2>16. PICK prep, name : prep = g.prep /\ name = g.name  OBVIOUS
  <2>17. PICK kind : kind = Kind[q]  OBVIOUS
  <2>18. /\ prep \in {"NO", "YES", "SHOULD"} /\ name \in Int
         /\ (prep = "SHOULD" => q \notin Keys(cache.names) /\ name \in u)
         /\ c = MaybeAdd(m, q, prep, name)
         /\ cache' = IF IsNew(cache, q) THEN Validate(c, q, prep, ok, kind) ELSE c
    BY <2>3, <2>12, <2>13, <2>15, <2>16, <2>17
  <2> HIDE DEF g
  <2>19. /\ Values(cache.names) \subseteq u /\ Len(cache.counts) <= PreparedMax
         /\ Len(cache.counts) + Len(cache.names) <= 2 * PreparedMax
    BY <1>1, <2>13 DEF Kept
  <2>20. Kept(cache', u) /\ FewToFlush(cache') /\ (~ok => cache'.flush = <<>>)
    <3> HIDE DEF q
    <3>1. PICK r : r = cache'  OBVIOUS
    <3>2. r = IF IsNew(cache, q) THEN Validate(c, q, prep, ok, kind) ELSE c
      BY <2>18, <3>1
    <3>3. PICK old : old = cache  OBVIOUS
    <3>4. /\ Sound(old) /\ Values(old.names) \subseteq u /\ Len(old.counts) <= PreparedMax
          /\ Len(old.counts) + Len(old.names) <= 2 * PreparedMax
          /\ (prep = "SHOULD" => q \notin Keys(old.names) /\ name \in u)
          /\ Sound(m) /\ m.counts = old.counts /\ m.names = old.names /\ m.flush = <<>>
          /\ c = MaybeAdd(m, q, prep, name) /\ Sound(c)
          /\ r = IF IsNew(old, q) THEN Validate(c, q, prep, ok, kind) ELSE c
          /\ q \in Queries /\ prep \in {"NO", "YES", "SHOULD"} /\ name \in Int
      BY <1>1, <2>1, <2>13, <2>15, <2>18, <2>19, <3>2, <3>3
    <3>5. Kept(r, u) /\ FewToFlush(r) /\ (~ok => r.flush = <<>>)
      <4>1. Answering(old, q, u, prep, name, m, c, ok, kind, r)  BY <3>4 DEF Answering
      <4> QED  BY <4>1, AddedKept
    <3> QED  BY <3>1, <3>5
  <2>21. Tail(todo[t]) # <<>> /\ Head(Tail(todo[t])).op = "maintain"
    BY <1>1, <2>1, MaintainFollows
  <2> QED  BY <1>2, <1>5, <2>1, <2>11, <2>13, <2>20, <2>21
<1>12. CASE maintain_ends(t)
  BY <1>1, <1>2, <1>5, <1>6, <1>12 DEF maintain_ends, network
<1>13. CASE maintain_now(t)
  <2>1. PICK a \in Answers(server, Deallocate(Head(cache.flush))) :
          Answered(a) /\ IF a.status = "OK" THEN UNCHANGED todo ELSE Raise(t)
    BY <1>13 DEF maintain_now
  <2>2. /\ cache' = [cache EXCEPT !.flush = Tail(cache.flush)] /\ cache.flush # <<>>
        /\ At(t, "maintain") /\ UNCHANGED <<level, wire, past>>
    BY <1>13 DEF maintain_now
  <2>3. Tail(cache.flush) = <<>> /\ Kept(cache, a.server.statements)
    BY <1>1, <2>1, <2>2, FlushOne
  <2>4. /\ cache'.flush = <<>> /\ cache'.counts = cache.counts
        /\ cache'.names = cache.names
    BY <1>1, <2>2, <2>3, SoundParts DEF CacheType
  <2>5. Kept(cache', server'.statements) /\ FewToFlush(cache')
    <3>1. Kept(cache', server'.statements)  BY <2>1, <2>3, <2>4 DEF Kept, Answered
    <3>2. Len(cache'.flush) <= 1  BY <2>4
    <3> QED  BY <2>4, <3>1, <3>2 DEF FewToFlush
  <2>6. CASE Raise(t)
    BY <1>2, <1>5, <1>7, <2>2, <2>4, <2>5, <2>6
  <2>7. CASE UNCHANGED todo
    <3>1. todo' = [todo EXCEPT ![t] = todo[t]]  BY <1>1, <2>7 DEF TodoTyped
    <3>2. Working(t) /\ PlainTodo(todo[t])
      <4>1. "maintain" # "enter"  OBVIOUS
      <4> QED  BY <1>1, <2>2, <4>1, AtPlain
    <3>3. (Kept(cache, server.statements))'  BY <2>5
    <3> QED  BY <1>1, <2>2, <2>4, <2>5, <3>1, <3>2, <3>3, PlainNext
  <2> QED  BY <2>1, <2>6, <2>7
<1>14. CASE rollback_skipped(t)
  BY <1>4, <1>5, <1>6, <1>14 DEF rollback_skipped, network
<1>15. CASE rollback_now(t)
  <2>1. /\ At(t, "rollback") /\ cache' = Clear(cache) /\ Continue(t, <<Do("maintain")>>)
        /\ UNCHANGED <<level, wire, past>>
    BY <1>15 DEF rollback_now
  <2>2. "rollback" # "enter" /\ "rollback" # "maintain"  OBVIOUS
  <2>3. cache.flush = <<>>  BY <1>3, <2>1, <2>2
  <2>4. /\ todo[t] # <<>> /\ Head(todo[t]).op # "enter" /\ PlainTodo(todo[t])
        /\ Working(t)
    BY <1>1, <2>1, <2>2, AtPlain
  <2> DEFINE s == Tail(todo[t])
             T == <<Do("maintain")>> \o s
  <2>5. /\ s \in Seq(PhaseType) /\ Len(s) = Len(todo[t]) - 1
        /\ \A j \in 1..Len(s) : s[j] = todo[t][j + 1]
    BY <1>1, <2>4, TailParts DEF TodoTyped
  <2>6. todo' = [todo EXCEPT ![t] = T]  BY <2>1 DEF Continue
  <2> HIDE DEF s
  <2>7. Plain(s)
    <3>1. 1 \in Nat \ {0}  OBVIOUS
    <3> QED  BY <1>1, <2>4, <2>5, <3>1, PlainRest
  <2>8. PlainTodo(T) /\ T # <<>> /\ Head(T).op = "maintain"
    BY <2>5, <2>7, PlainMaintain
  <2> HIDE DEF T
  <2>9. /\ cache'.counts = <<>> /\ cache'.names = <<>>
        /\ cache'.flush = IF cache.names = <<>> THEN <<>> ELSE <<All>>
    BY <1>1, <2>1, <2>3, ClearParts
  <2>10. (Kept(cache, server.statements))'
    <3>1. PreparedMax \in Nat /\ Values(<<>>) = {}  BY CacheAssumption DEF Values
    <3>2. Values(cache'.names) = {} /\ Len(cache'.counts) = 0 /\ Len(cache'.names) = 0
      BY <2>9, <3>1
    <3>3. Kept(cache', server'.statements)  BY <3>1, <3>2 DEF Kept
    <3> QED  BY <3>3
  <2>11. FewToFlush(cache')
    <3>1. Len(cache'.flush) <= 1
      <4>1. CASE cache.names = <<>>  BY <2>9, <4>1
      <4>2. CASE cache.names # <<>>  BY <2>9, <4>2
      <4> QED  BY <4>1, <4>2
    <3> QED  BY <2>9, <3>1 DEF FewToFlush
  <2> QED  BY <1>1, <2>1, <2>4, <2>6, <2>8, <2>10, <2>11, PlainNext
<1>17. ASSUME NEW phase \in {"communicate", "fetch", "exit_fetch", "ride", "exit", "leave", "enter",
                            "entered"},
              At(t, phase)
       PROVE  FALSE
  <2>1. phase \in PlainPhases  BY <1>1, <1>17, AtPlain
  <2> QED  BY <2>1 DEF PlainPhases
<1>18. /\ ~start_enqueued(t) /\ ~execute_enqueued(t) /\ ~maintain_enqueued(t)
       /\ ~rollback_enqueued(t) /\ ~enter_syncs(t)
  BY <1>1 DEF start_enqueued, execute_enqueued, maintain_enqueued, rollback_enqueued,
              enter_syncs, InProgress
<1>19. /\ ~transmit(t) /\ ~receive(t) /\ ~batch_ends(t) /\ ~ride(t) /\ ~exit_gen(t)
       /\ ~leave(t) /\ ~enters(t)
  BY <1>17 DEF transmit, receive, batch_ends, ride, exit_gen, leave, enters
<1> QED
  BY <1>8, <1>9, <1>10, <1>11, <1>12, <1>13, <1>14, <1>15, <1>18, <1>19 DEF Step

LEMMA PlainInit == Init => PlainInv
<1> SUFFICES ASSUME Init  PROVE PlainInv
  OBVIOUS
<1>1. /\ past = [piped |-> FALSE, skipped |-> FALSE] /\ level = 0 /\ wire = <<>>
      /\ todo = [t \in Threads |-> <<>>] /\ cache = NewCache
  BY DEF Init
<1>2. PastTyped  BY <1>1 DEF PastTyped
<1>3. \A t \in Threads : PlainTodo(todo[t]) /\ ~Working(t)
  BY <1>1 DEF PlainTodo, Working
<1>4. cache.counts = <<>> /\ cache.names = <<>> /\ cache.flush = <<>>
  BY <1>1 DEF NewCache
<1>5. Kept(cache, server.statements) /\ FewToFlush(cache)
  <2>1. PreparedMax \in Nat /\ Values(<<>>) = {}  BY CacheAssumption DEF Values
  <2>2. Len(cache.counts) = 0 /\ Len(cache.names) = 0 /\ Values(cache.names) = {}
    BY <1>4, <2>1
  <2>3. Len(cache.flush) <= 1  BY <1>4
  <2> QED  BY <1>4, <2>1, <2>2, <2>3 DEF Kept, FewToFlush
<1> QED  BY <1>1, <1>2, <1>3, <1>4, <1>5 DEF PlainInv, OneWorks

\* How the history changes.
LEMMA PastSteps ==
  ASSUME PastTyped, [Next]_vars
  PROVE  \/ past' = past \/ (\E b \in BOOLEAN : past' = [past EXCEPT !.skipped = b])
         \/ past' = [past EXCEPT !.piped = TRUE]
<1>1. ASSUME NEW t \in Threads, batch_ends(t)
      PROVE  \E b \in BOOLEAN : past' = [past EXCEPT !.skipped = b]
  <2>1. past' = [past EXCEPT !.skipped = past.skipped \/ (raised /\ wire # <<>>)]
    BY <1>1 DEF batch_ends
  <2>2. (past.skipped \/ (raised /\ wire # <<>>)) \in BOOLEAN  OBVIOUS
  <2> QED  BY <2>1, <2>2
<1>2. ASSUME NEW t \in Threads, leave(t)
      PROVE  \E b \in BOOLEAN : past' = [past EXCEPT !.skipped = b]
  <2>1. past' = [past EXCEPT !.skipped = past.skipped /\ Left > 0]
    BY <1>2 DEF leave
  <2>2. (past.skipped /\ Left > 0) \in BOOLEAN  OBVIOUS
  <2> QED  BY <2>1, <2>2
<1>3. ASSUME NEW t \in Threads, Call(t)
      PROVE  past' = past \/ past' = [past EXCEPT !.piped = TRUE]
  BY <1>3 DEF Call, execute, executemany, PipelineUsed, enter, exit, sync, fetch,
              commit_now, commit_enqueued, rollback
<1>5. ASSUME NEW t \in Threads, Step(t)
      PROVE  past' = past \/ batch_ends(t) \/ leave(t)
  BY <1>5 DEF Step, start_skipped, start_now, start_enqueued, prepare_fails, execute_now,
      execute_enqueued, maintain_ends, maintain_now, maintain_enqueued, transmit, receive,
      ride, enter_syncs, enters, exit_gen, rollback_skipped, rollback_now, rollback_enqueued
<1> QED  BY <1>1, <1>2, <1>3, <1>5 DEF Next, vars

LEMMA PlainCorrect == Spec => []PlainInv
<1>1. QueuesInv /\ PlainInv /\ [Next]_vars => PlainInv'
  <2> SUFFICES ASSUME QueuesInv, PlainInv, [Next]_vars  PROVE PlainInv'
    OBVIOUS
  <2>1. CASE past.piped
    <3>1. PastTyped' /\ past'.piped
      <4>1. past' = past \/ (\E b \in BOOLEAN : past' = [past EXCEPT !.skipped = b])
            \/ past' = [past EXCEPT !.piped = TRUE]
        BY PastSteps DEF PlainInv
      <4>2. past \in [piped : BOOLEAN, skipped : BOOLEAN]  BY DEF PlainInv, PastTyped
      <4> QED  BY <2>1, <4>1, <4>2 DEF PastTyped
    <3> QED  BY <3>1 DEF PlainInv
  <2>2. CASE ~past.piped
    <3>1. CASE Next  BY <2>2, <3>1, PlainCall, PlainStep DEF Next
    <3>2. CASE UNCHANGED vars
      BY <3>2 DEF vars, queues, network, PlainInv, PastTyped, OneWorks, Working, At
    <3> QED  BY <3>1, <3>2
  <2> QED  BY <2>1, <2>2
<1> QED  BY <1>1, PlainInit, QueuesCorrect, PTL DEF Spec

\* Without pipelines, every name in the cache is a statement of the server
\* between calls, and the cache keeps no more than twice prepared_max: for any
\* number of threads, any failures, rollbacks and DROPs (PrepareManager).
THEOREM CacheSoundCorrect == Spec => []CacheSound
<1>1. QueuesInv /\ PlainInv => CacheSound
  <2> SUFFICES ASSUME QueuesInv, PlainInv, ~past.piped, Resting
      PROVE  /\ Values(cache.names) \subseteq server.statements
             /\ Len(cache.counts) <= PreparedMax
             /\ Len(cache.names) <= 2 * PreparedMax
    BY DEF CacheSound, CachedIsPrepared, CacheBounded
  <2>1. Kept(cache, server.statements)  BY DEF PlainInv
  <2>2. Len(cache.counts) \in Nat /\ Len(cache.names) \in Nat /\ PreparedMax \in Nat
    BY Sizes DEF QueuesInv, CacheInv
  <2> DEFINE m == Len(cache.counts)
             n == Len(cache.names)
  <2>3. m + n <= 2 * PreparedMax  BY <2>1 DEF Kept
  <2>4. n <= 2 * PreparedMax
    <3>1. m \in Nat /\ n \in Nat  BY <2>2
    <3> HIDE DEF m, n
    <3> QED  BY <2>2, <2>3, <3>1
  <2> QED  BY <2>1, <2>4 DEF Kept
<1> QED  BY <1>1, QueuesCorrect, PlainCorrect, PTL

-----------------------------------------------------------------------------
(* The phases of a call, in order.                                          *)

Op(s, i) == IF i \in 1..Len(s) THEN s[i].op ELSE "none"
Ops(s) == {s[i].op : i \in 1..Len(s)}

\* What phase may follow another in a call, and how far from the phase in
\* progress.
Link(p, o) ==
  /\ o # "enter" /\ p # "leave"
  /\ o = "communicate" => p = "send"
  /\ o = "send" => p \in {"start", "communicate", "fetch"}
  /\ o = "fetch" => p = "communicate"
  /\ o = "exit_fetch" => p = "communicate"
  /\ o = "leave" => p \in {"exit", "exit_fetch"}
Near(i, p, o) == /\ o = "exit_fetch" => i <= 2
                 /\ p = "fetch" /\ o = "send" => i <= 3
Ordered(s) ==
  \A i \in 2..Len(s) : Link(s[i - 1].op, s[i].op) /\ Near(i, s[i - 1].op, s[i].op)

\* The phases of a pipeline are in one, or are about to enter it; there, a query is sent at once.
PipedOps == {"communicate", "fetch", "exit", "exit_fetch", "leave", "entered"}
Entered(s, l) == l > 0 \/ Op(s, 1) = "enter"
Piped(s, l) ==
  /\ Ops(s) \cap PipedOps # {} => Entered(s, l)
  /\ Entered(s, l) =>
       \A i \in 1..Len(s) : s[i].op = "send" => Op(s, i + 1) = "communicate"

\* The first phase of a call: the others follow one.
LEMMA OpParts ==
  ASSUME NEW s \in Seq(PhaseType)
  PROVE  /\ Len(s) \in Nat
         /\ \A i \in 1..Len(s) : Op(s, i) = s[i].op /\ s[i].op \in PhaseOps /\ s[i].op \in Ops(s)
         /\ \A i \in Int : i \notin 1..Len(s) => Op(s, i) = "none"
         /\ s = <<>> <=> Len(s) = 0
         /\ s # <<>> => Op(s, 1) = Head(s).op /\ 1 \in 1..Len(s)
         /\ s = <<>> => Op(s, 1) = "none" /\ Ops(s) = {}
<1>1. Len(s) \in Nat /\ \A i \in 1..Len(s) : s[i] \in PhaseType  BY SeqParts
<1>2. s = <<>> <=> Len(s) = 0  BY EmptySeq
<1>3. \A i \in 1..Len(s) : s[i].op \in PhaseOps  BY <1>1 DEF PhaseType
<1>4. s # <<>> => 1 \in 1..Len(s) /\ Head(s) = s[1]  BY <1>1, <1>2
<1>5. s = <<>> => 1..Len(s) = {}  BY <1>1, <1>2
<1> QED  BY <1>1, <1>2, <1>3, <1>4, <1>5 DEF Op, Ops

\* The queries of X are among those of T.
SendsOf(T, X) ==
  \A i \in 1..Len(X) : X[i].op = "send" =>
    \E j \in 1..Len(T) : T[j].op = "send" /\ Op(X, i + 1) = Op(T, j + 1)

\* What is left of a call, after its first phase or after an exception.
Rest(T, X) ==
  /\ Ordered(X) /\ Ops(X) \subseteq Ops(T)
  /\ Op(X, 1) # "none" => Link(Op(T, 1), Op(X, 1))
  /\ Op(X, 1) = "exit_fetch" => Op(T, 2) = "exit_fetch"
  /\ Op(X, 1) = "communicate" => Op(X, 2) # "exit_fetch"
  /\ ~(Op(X, 1) = "communicate" /\ Op(X, 2) = "fetch" /\ Op(X, 3) = "send")
  /\ Op(X, 1) = "fetch" /\ Op(X, 2) = "send" => Op(T, 2) = "fetch" /\ Op(T, 3) = "send"
  /\ SendsOf(T, X)

LEMMA RestParts ==
  ASSUME NEW T \in Seq(PhaseType), T # <<>>, Ordered(T), NEW X \in Seq(PhaseType),
         NEW k \in 1..Len(T), Len(X) = Len(T) - k,
         \A j \in 1..Len(X) : X[j] = T[j + k],
         k # 1 => /\ k + 1 <= Len(T) => T[k + 1].op \in Finally
                  /\ \A j \in 2..k : T[j].op \notin Finally
  PROVE  Rest(T, X) /\ (k = 1 => Op(X, 1) = Op(T, 2) /\ Op(X, 2) = Op(T, 3))
         /\ (k # 1 => Op(X, 1) \in Finally \cup {"none"})
<1>1. /\ Len(T) \in Nat /\ Len(X) \in Nat /\ k \in Nat /\ k >= 1
      /\ \A i \in 1..Len(T) : Op(T, i) = T[i].op /\ T[i].op \in PhaseOps /\ T[i].op \in Ops(T)
      /\ \A i \in 1..Len(X) : Op(X, i) = X[i].op /\ X[i].op \in PhaseOps /\ X[i].op \in Ops(X)
      /\ \A i \in Int : i \notin 1..Len(T) => Op(T, i) = "none"
      /\ \A i \in Int : i \notin 1..Len(X) => Op(X, i) = "none"
  BY OpParts
<1> DEFINE n == Len(T)
           m == Len(X)
<1>2. n \in Nat /\ m \in Nat /\ m = n - k  BY <1>1
<1> HIDE DEF n, m
<1>3. ASSUME NEW i \in Nat, i >= 1  PROVE Op(X, i) = Op(T, i + k)
  <2>1. CASE i \in 1..m
    <3>1. i + k \in 1..n  BY <1>1, <1>2, <2>1
    <3> QED  BY <3>1, <2>1, <1>1 DEF n, m
  <2>2. CASE i \notin 1..m
    <3>1. i + k \notin 1..n  BY <1>1, <1>2, <1>3, <2>2
    <3> QED  BY <3>1, <2>2, <1>1 DEF n, m
  <2> QED  BY <2>1, <2>2
<1>4. \A i \in 2..n : Link(Op(T, i - 1), Op(T, i)) /\ Near(i, Op(T, i - 1), Op(T, i))
  <2> SUFFICES ASSUME NEW i \in 2..n
               PROVE  Link(Op(T, i - 1), Op(T, i)) /\ Near(i, Op(T, i - 1), Op(T, i))
    OBVIOUS
  <2>1. i \in 1..n /\ i - 1 \in 1..n  BY <1>2
  <2>2. Op(T, i) = T[i].op /\ Op(T, i - 1) = T[i - 1].op  BY <2>1, <1>1 DEF n
  <2> QED  BY <2>2 DEF Ordered, n
<1>5. ASSUME NEW i \in 2..m  PROVE Link(Op(X, i - 1), Op(X, i)) /\ Near(i, Op(X, i - 1), Op(X, i))
  <2>1. /\ i + k \in 2..n /\ i - 1 \in Nat /\ i - 1 >= 1 /\ i \in Nat
        /\ (i - 1) + k = (i + k) - 1 /\ i <= i + k
    BY <1>1, <1>2
  <2>2. Op(X, i) = Op(T, i + k) /\ Op(X, i - 1) = Op(T, (i + k) - 1)
    <3>1. Op(X, i - 1) = Op(T, (i - 1) + k)  BY <2>1, <1>3
    <3> QED  BY <3>1, <2>1, <1>3
  <2>3. Link(Op(T, (i + k) - 1), Op(T, i + k)) /\ Near(i + k, Op(T, (i + k) - 1), Op(T, i + k))
    BY <2>1, <1>4
  <2>4. \A a, b : Near(i + k, a, b) => Near(i, a, b)  BY <1>1 DEF Near
  <2> QED  BY <2>2, <2>3, <2>4
<1>6. Ordered(X)
  <2> SUFFICES ASSUME NEW i \in 2..Len(X)
               PROVE  Link(X[i - 1].op, X[i].op) /\ Near(i, X[i - 1].op, X[i].op)
    BY DEF Ordered
  <2>1. i \in 1..Len(X) /\ i - 1 \in 1..Len(X)  BY <1>1
  <2>2. Op(X, i) = X[i].op /\ Op(X, i - 1) = X[i - 1].op  BY <2>1, <1>1
  <2> QED  BY <1>5, <2>2 DEF m
<1>7. Ops(X) \subseteq Ops(T)
  <2> SUFFICES ASSUME NEW i \in 1..m  PROVE X[i].op \in Ops(T)
    BY DEF Ops, m
  <2>1. PICK j \in 1..n : j = i + k  BY <1>1, <1>2
  <2>2. X[i] = T[j]  BY <2>1 DEF m
  <2>3. T[j].op \in Ops(T)  BY <1>1 DEF n
  <2> QED  BY <2>2, <2>3
<1>8. Op(X, 1) = Op(T, 1 + k) /\ Op(X, 2) = Op(T, 2 + k) /\ Op(X, 3) = Op(T, 3 + k)
  <2>1. \A i \in Nat : i >= 1 => Op(X, i) = Op(T, i + k)  BY <1>3
  <2>2. 1 \in Nat /\ 1 >= 1 /\ 2 \in Nat /\ 2 >= 1 /\ 3 \in Nat /\ 3 >= 1  OBVIOUS
  <2>3. Op(X, 1) = Op(T, 1 + k)  BY <2>1, <2>2
  <2>4. Op(X, 2) = Op(T, 2 + k)  BY <2>1, <2>2
  <2>5. Op(X, 3) = Op(T, 3 + k)  BY <2>1, <2>2
  <2> QED  BY <2>3, <2>4, <2>5
<1>9. k # 1 => Op(X, 1) \in Finally \cup {"none"}
  <2> SUFFICES ASSUME k # 1  PROVE Op(T, k + 1) \in Finally \cup {"none"}
    BY <1>8
  <2>1. CASE k + 1 <= n
    <3>1. k + 1 \in 1..n  BY <2>1, <1>1, <1>2
    <3> QED  BY <3>1, <2>1, <1>1 DEF n
  <2>2. CASE ~(k + 1 <= n)
    <3>1. k + 1 \notin 1..n /\ k + 1 \in Int  BY <2>2, <1>1, <1>2
    <3> QED  BY <3>1, <1>1 DEF n
  <2> QED  BY <2>1, <2>2
<1>10. k = 1 => Op(X, 1) = Op(T, 2) /\ Op(X, 2) = Op(T, 3)  BY <1>8
<1>11. Op(X, 1) # "none" => k + 1 \in 2..n
  <2>1. k + 1 \notin 1..n => Op(T, k + 1) = "none"  BY <1>1 DEF n
  <2> QED  BY <2>1, <1>8, <1>1, <1>2
<1>12. Op(X, 1) = "exit_fetch" => k = 1
  <2> SUFFICES ASSUME Op(X, 1) = "exit_fetch"  PROVE k = 1
    OBVIOUS
  <2>1. Near(k + 1, Op(T, (k + 1) - 1), Op(T, k + 1))  BY <1>4, <1>11
  <2> QED  BY <2>1, <1>1, <1>8 DEF Near
<1>13. Op(X, 1) # "none" => Link(Op(T, 1), Op(X, 1))
  <2> SUFFICES ASSUME Op(X, 1) # "none"  PROVE Link(Op(T, 1), Op(X, 1))
    OBVIOUS
  <2>1. Link(Op(T, (k + 1) - 1), Op(T, k + 1))  BY <1>4, <1>11
  <2>2. (k + 1) - 1 = k /\ 1 + k = k + 1  BY <1>1
  <2>3. CASE k = 1  BY <2>1, <2>3, <1>8
  <2>4. CASE k # 1
    <3>1. Op(X, 1) \in {"exit", "leave"}  BY <1>9, <1>12, <2>4 DEF Finally
    <3>2. k \in 2..k /\ k \in 1..n  BY <2>4, <1>1, <1>2, <1>11
    <3>3. Op(T, k) \notin Finally  BY <3>2, <2>4, <1>1 DEF n
    <3>4. Op(X, 1) = "leave" => FALSE  BY <2>1, <2>2, <3>3, <1>8 DEF Link, Finally
    <3>5. Op(T, 1) # "leave"
      <4>1. 2 \in 2..n  BY <1>2, <1>11, <1>1
      <4>2. Link(Op(T, 2 - 1), Op(T, 2))  BY <4>1, <1>4
      <4> QED  BY <4>2 DEF Link
    <3> QED  BY <3>1, <3>4, <3>5 DEF Link
  <2> QED  BY <2>3, <2>4
<1>14. /\ Op(X, 1) = "communicate" => Op(X, 2) # "exit_fetch"
       /\ ~(Op(X, 1) = "communicate" /\ Op(X, 2) = "fetch" /\ Op(X, 3) = "send")
  <2>1. ASSUME Op(X, 2) = "exit_fetch"  PROVE FALSE
    <3>1. 2 + k \in 1..n  BY <2>1, <1>1, <1>8 DEF n
    <3>2. 2 + k \in 2..n /\ ~(2 + k <= 2)  BY <3>1, <1>1, <1>2
    <3>3. Near(2 + k, Op(T, (2 + k) - 1), Op(T, 2 + k))  BY <3>2, <1>4
    <3> QED  BY <2>1, <3>2, <3>3, <1>8 DEF Near
  <2>2. ASSUME Op(X, 2) = "fetch", Op(X, 3) = "send"  PROVE FALSE
    <3>1. 3 + k \in 1..n  BY <2>2, <1>1, <1>8 DEF n
    <3>2. 3 + k \in 2..n /\ ~(3 + k <= 3) /\ (3 + k) - 1 = 2 + k
      BY <3>1, <1>1, <1>2
    <3>3. Near(3 + k, Op(T, (3 + k) - 1), Op(T, 3 + k))  BY <3>2, <1>4
    <3> QED  BY <2>2, <3>2, <3>3, <1>8 DEF Near
  <2> QED  BY <2>1, <2>2
<1>15. Op(X, 1) = "fetch" /\ Op(X, 2) = "send" => Op(T, 2) = "fetch" /\ Op(T, 3) = "send"
  BY <1>9, <1>10 DEF Finally
<1>16. ASSUME NEW i \in 1..Len(X), X[i].op = "send"
       PROVE  \E j \in 1..Len(T) : T[j].op = "send" /\ Op(X, i + 1) = Op(T, j + 1)
  <2>1. PICK j \in 1..n : j = i + k  BY <1>1, <1>2 DEF m
  <2>2. X[i] = T[j]  BY <2>1
  <2>3. Op(X, i + 1) = Op(T, j + 1)
    <3>1. i + 1 \in Nat /\ i + 1 >= 1 /\ (i + 1) + k = j + 1  BY <2>1, <1>1
    <3> QED  BY <3>1, <1>3
  <2> QED  BY <2>2, <2>3, <1>16 DEF n
<1> QED  BY <1>6, <1>7, <1>9, <1>10, <1>12, <1>13, <1>14, <1>15, <1>16 DEF Rest, SendsOf

\* A phase is replaced by others.
LEMMA PrefixParts ==
  ASSUME NEW T \in Seq(PhaseType), T # <<>>, Ordered(T), Op(T, 1) # "communicate",
         NEW new \in Seq(PhaseType), new # <<>>, Ordered(new), "send" \notin Ops(new),
         \A o : Link(Op(T, 1), o) => Link(new[Len(new)].op, o),
         new[Len(new)].op = "fetch" => Len(new) <= 2
  PROVE  LET X == new \o Tail(T)
         IN  /\ X \in Seq(PhaseType) /\ Ordered(X) /\ Ops(X) \subseteq Ops(new) \cup Ops(T)
             /\ \A i \in 1..Len(new) : Op(X, i) = Op(new, i)
             /\ Op(X, Len(new) + 1) = Op(T, 2)
             /\ SendsOf(T, X)
<1> DEFINE X == new \o Tail(T)
           n == Len(new)
           m == Len(T)
<1>1. /\ n \in Nat /\ n >= 1 /\ m \in Nat /\ m >= 1
      /\ Tail(T) \in Seq(PhaseType) /\ Len(Tail(T)) = m - 1
      /\ \A i \in 1..(m - 1) : Tail(T)[i] = T[i + 1]
  BY TailParts
<1>2. /\ X \in Seq(PhaseType) /\ Len(X) = n + m - 1
      /\ \A i \in 1..(n + m - 1) : X[i] = IF i <= n THEN new[i] ELSE Tail(T)[i - n]
  <2>1. n + Len(Tail(T)) = n + m - 1  BY <1>1
  <2> QED  BY <1>1, <2>1, ConcatProperties
<1> HIDE DEF X, n, m
<1>3. /\ \A i \in 1..n : i \in 1..Len(X) /\ X[i] = new[i]
      /\ \A i \in 2..m : n + i - 1 \in 1..Len(X) /\ X[n + i - 1] = T[i]
      /\ \A i \in 1..Len(X) : i \in 1..n \/ \E j \in 2..m : i = n + j - 1
  <2>1. \A i \in 1..n : i \in 1..Len(X) /\ X[i] = new[i]  BY <1>1, <1>2
  <2>2. ASSUME NEW i \in 2..m  PROVE n + i - 1 \in 1..Len(X) /\ X[n + i - 1] = T[i]
    <3>1. /\ n + i - 1 \in 1..(n + m - 1) /\ ~(n + i - 1 <= n)
          /\ (n + i - 1) - n = i - 1 /\ i - 1 \in 1..(m - 1) /\ (i - 1) + 1 = i
      BY <1>1
    <3>2. X[n + i - 1] = Tail(T)[i - 1]  BY <3>1, <1>2
    <3>3. Tail(T)[i - 1] = T[(i - 1) + 1]  BY <3>1, <1>1
    <3> QED  BY <3>1, <3>2, <3>3, <1>2
  <2>3. ASSUME NEW i \in 1..Len(X), i \notin 1..n  PROVE \E j \in 2..m : i = n + j - 1
    <3>1. i - n + 1 \in 2..m /\ i = n + (i - n + 1) - 1  BY <2>3, <1>1, <1>2
    <3> QED  BY <3>1
  <2> QED  BY <2>1, <2>2, <2>3
<1>4. /\ \A i \in 1..m : Op(T, i) = T[i].op /\ T[i].op \in Ops(T)
      /\ \A i \in 1..n : Op(new, i) = new[i].op /\ new[i].op \in Ops(new)
      /\ \A i \in 1..Len(X) : Op(X, i) = X[i].op
  BY <1>2, OpParts DEF m, n
<1>5. \A i \in 1..n : Op(X, i) = Op(new, i)  BY <1>3, <1>4
<1>6. ASSUME NEW j \in 1..m  PROVE Op(X, n + j) = Op(T, j + 1)
  <2>1. CASE j + 1 \in 2..m
    <3>1. PICK i \in 2..m : i = j + 1  BY <2>1
    <3>2. n + i - 1 = n + j  BY <3>1, <1>1
    <3>3. n + i - 1 \in 1..Len(X) /\ X[n + i - 1] = T[i]  BY <3>1, <1>3
    <3>4. PICK h \in 1..Len(X) : h = n + j  BY <3>2, <3>3
    <3>5. i \in 1..m  BY <3>1, <1>1
    <3>6. Op(X, h) = X[h].op /\ Op(T, i) = T[i].op  BY <3>5, <1>4
    <3> QED  BY <3>1, <3>2, <3>3, <3>4, <3>6
  <2>2. CASE j + 1 \notin 2..m
    <3>1. j + 1 \notin 1..m /\ n + j \notin 1..Len(X) /\ j + 1 \in Int /\ n + j \in Int
      BY <2>2, <1>1, <1>2
    <3> QED  BY <3>1, <1>2, OpParts DEF m
  <2> QED  BY <2>1, <2>2
<1>7. Op(X, n + 1) = Op(T, 2)
  <2>1. 1 \in 1..m /\ 1 + 1 = 2  BY <1>1
  <2> QED  BY <2>1, <1>6
<1>8. Ops(X) \subseteq Ops(new) \cup Ops(T)
  <2> SUFFICES ASSUME NEW i \in 1..Len(X)  PROVE X[i].op \in Ops(new) \cup Ops(T)
    BY DEF Ops
  <2>1. CASE i \in 1..n  BY <2>1, <1>3, <1>4
  <2>2. CASE \E j \in 2..m : i = n + j - 1
    <3>1. PICK j \in 2..m : i = n + j - 1  BY <2>2
    <3>2. X[i] = T[j] /\ j \in 1..m  BY <3>1, <1>3, <1>1
    <3> QED  BY <3>2, <1>4
  <2> QED  BY <2>1, <2>2, <1>3
<1>9. SendsOf(T, X)
  <2> SUFFICES ASSUME NEW i \in 1..Len(X), X[i].op = "send"
               PROVE  \E j \in 1..m : T[j].op = "send" /\ Op(X, i + 1) = Op(T, j + 1)
    BY DEF SendsOf, m
  <2>1. i \notin 1..n  BY <1>3, <1>4
  <2>2. PICK j \in 2..m : i = n + j - 1  BY <2>1, <1>3
  <2>3. X[i] = T[j] /\ j \in 1..m /\ i + 1 = n + j  BY <2>2, <1>3, <1>1
  <2> QED  BY <2>3, <1>6
<1>10. Ordered(X)
  <2> SUFFICES ASSUME NEW i \in 2..Len(X)
               PROVE  Link(X[i - 1].op, X[i].op) /\ Near(i, X[i - 1].op, X[i].op)
    BY DEF Ordered
  <2>1. CASE i \in 1..n
    <3>1. i \in 2..n /\ i - 1 \in 1..n  BY <2>1, <1>1
    <3>2. X[i] = new[i] /\ X[i - 1] = new[i - 1]  BY <3>1, <2>1, <1>3
    <3> QED  BY <3>1, <3>2 DEF Ordered, n
  <2>2. CASE i = n + 1
    <3>1. n \in 1..n /\ i - 1 = n /\ i \notin 1..n /\ i \in 1..Len(X)  BY <2>2, <1>1
    <3>2. PICK j \in 2..m : i = n + j - 1  BY <3>1, <1>3
    <3>3. j = 2 /\ 2 \in 2..m  BY <3>2, <2>2, <1>1
    <3>4. X[i] = T[2] /\ X[i - 1] = new[n]  BY <3>1, <3>2, <3>3, <1>3
    <3>5. Link(T[2 - 1].op, T[2].op)  BY <3>3 DEF Ordered, m
    <3>6. Op(T, 1) = T[1].op /\ 2 - 1 = 1  BY <1>1, <1>4
    <3>7. Link(Op(T, 1), T[2].op)  BY <3>5, <3>6
    <3>8. Link(new[n].op, T[2].op)  BY <3>7 DEF n
    <3>9. T[2].op # "exit_fetch"  BY <3>7 DEF Link
    <3>10. new[n].op = "fetch" => n <= 2  BY DEF n
    <3>11. Near(i, new[n].op, T[2].op)  BY <3>9, <3>10, <2>2, <1>1 DEF Near
    <3> QED  BY <3>4, <3>8, <3>11
  <2>3. CASE i \notin 1..n /\ i # n + 1
    <3>1. PICK j \in 2..m : i = n + j - 1  BY <2>3, <1>3
    <3>2. /\ j - 1 \in 2..m /\ i - 1 = n + (j - 1) - 1 /\ j \in 3..m
      BY <3>1, <2>3, <1>1
    <3>3. X[i] = T[j] /\ X[i - 1] = T[j - 1]
      <4>1. X[i] = T[j]  BY <3>1, <1>3
      <4>2. PICK h \in 2..m : h = j - 1  BY <3>2
      <4>3. X[n + h - 1] = T[h]  BY <1>3
      <4> QED  BY <4>1, <4>2, <4>3, <3>2
    <3>4. Link(T[j - 1].op, T[j].op) /\ Near(j, T[j - 1].op, T[j].op)
      BY <3>1 DEF Ordered, m
    <3>5. T[j].op # "exit_fetch"  BY <3>2, <3>4, <1>1 DEF Near
    <3>6. ~(T[j - 1].op = "fetch" /\ T[j].op = "send")
      <4> SUFFICES ASSUME T[j - 1].op = "fetch", T[j].op = "send"  PROVE FALSE
        OBVIOUS
      <4>1. j = 3  BY <3>2, <3>4, <1>1 DEF Near
      <4>2. 2 \in 2..m /\ T[2].op = "fetch"  BY <4>1, <3>2, <1>1
      <4>3. Link(T[2 - 1].op, T[2].op)  BY <4>2 DEF Ordered, m
      <4>4. Op(T, 1) = T[1].op /\ 2 - 1 = 1  BY <1>1, <1>4
      <4>5. Link(Op(T, 1), "fetch")  BY <4>2, <4>3, <4>4
      <4>6. Op(T, 1) = "communicate"  BY <4>5 DEF Link
      <4> QED  BY <4>6
    <3>7. Near(i, T[j - 1].op, T[j].op)  BY <3>5, <3>6 DEF Near
    <3> QED  BY <3>3, <3>4, <3>7
  <2> QED  BY <2>1, <2>2, <2>3
<1> QED  BY <1>2, <1>5, <1>7, <1>8, <1>9, <1>10 DEF X, n

LEMMA PipedKept ==
  ASSUME NEW T, NEW X, NEW l, Piped(T, l), SendsOf(T, X),
         \/ l > 0
         \/ Op(T, 1) # "enter" /\ Op(X, 1) # "enter" /\ Ops(X) \cap PipedOps \subseteq Ops(T)
  PROVE  Piped(X, l)
<1>1. CASE l > 0
  BY <1>1 DEF Piped, Entered, SendsOf
<1>2. CASE ~(l > 0)
  BY <1>2 DEF Piped, Entered, SendsOf
<1> QED  BY <1>1, <1>2

\* A call goes on, or an exception ends it.
LEMMA Moves ==
  ASSUME TodoTyped, NEW t \in Threads, todo[t] # <<>>, Ordered(todo[t]), NEW ok,
         ContinueIf(ok, t)
  PROVE  LET T == todo[t]
             X == todo'[t]
         IN  /\ X \in Seq(PhaseType) /\ Rest(T, X)
             /\ ok => X = Tail(T) /\ Op(X, 1) = Op(T, 2) /\ Op(X, 2) = Op(T, 3)
             /\ ~ok => Op(X, 1) \in Finally \cup {"none"}
<1>1. todo[t] \in Seq(PhaseType) /\ Len(todo[t]) \in Nat /\ Len(todo[t]) >= 1
  BY TailParts DEF TodoTyped
<1>2. CASE ok
  <2> DEFINE s == Tail(todo[t])
  <2>1. /\ s \in Seq(PhaseType) /\ Len(s) = Len(todo[t]) - 1
        /\ \A j \in 1..Len(s) : s[j] = todo[t][j + 1]
    BY <1>1, TailParts
  <2>2. todo' = [todo EXCEPT ![t] = <<>> \o s]  BY <1>2 DEF ContinueIf, Continue
  <2>3. <<>> \o s = s  BY <2>1
  <2>4. todo'[t] = s  BY <2>2, <2>3 DEF TodoTyped
  <2> HIDE DEF s
  <2>5. 1 \in 1..Len(todo[t])  BY <1>1
  <2>6. Rest(todo[t], s) /\ Op(s, 1) = Op(todo[t], 2) /\ Op(s, 2) = Op(todo[t], 3)
    BY <1>1, <2>1, <2>5, RestParts
  <2> QED  BY <1>2, <2>1, <2>4, <2>6 DEF s
<1>3. CASE ~ok
  <2>1. PICK i \in 2..(Len(todo[t]) + 1), s \in Seq(PhaseType) :
          /\ todo' = [todo EXCEPT ![t] = s]
          /\ Len(todo[t]) \in Nat /\ Len(s) = Len(todo[t]) - (i - 1)
          /\ \A j \in 1..Len(s) : s[j] = todo[t][j + (i - 1)]
          /\ i <= Len(todo[t]) => todo[t][i].op \in Finally
          /\ \A j \in 2..(i - 1) : todo[t][j].op \notin Finally
    BY <1>3, RaiseParts DEF ContinueIf
  <2>2. PICK k \in 1..Len(todo[t]) : k = i - 1  BY <2>1, <1>1
  <2>3. todo'[t] = s  BY <2>1 DEF TodoTyped
  <2>4. k + 1 = i  BY <2>2
  <2>5. /\ Rest(todo[t], s)
        /\ k = 1 => Op(s, 1) = Op(todo[t], 2)
        /\ k # 1 => Op(s, 1) \in Finally \cup {"none"}
    BY <1>1, <2>1, <2>2, <2>4, RestParts
  <2>6. k = 1 => Op(s, 1) \in Finally \cup {"none"}
    BY <2>1, <2>4, <2>5 DEF Op
  <2> QED  BY <1>3, <2>1, <2>3, <2>5, <2>6
<1> QED  BY <1>2, <1>3

-----------------------------------------------------------------------------
(* The phases a call starts with, and those that replace one of them.       *)

\* In a pipeline, one phase after another of a call that begins.
Adjacent(p, o) == /\ Link(p, o) /\ o # "exit_fetch" /\ ~(p = "fetch" /\ o = "send")
                  /\ p = "send" => o = "communicate"
Whole(s) == \A i \in 2..Len(s) : Adjacent(s[i - 1].op, s[i].op)

LEMMA WholeParts ==
  ASSUME NEW s \in Seq(PhaseType), s # <<>>, Whole(s), s[Len(s)].op # "send",
         NEW l, Entered(s, l)
  PROVE  Ordered(s) /\ Piped(s, l)
<1>1. Len(s) \in Nat /\ Len(s) >= 1 /\ \A i \in 1..Len(s) : Op(s, i) = s[i].op
  BY TailParts, OpParts
<1>2. Ordered(s)
  <2> SUFFICES ASSUME NEW i \in 2..Len(s)
               PROVE  Link(s[i - 1].op, s[i].op) /\ Near(i, s[i - 1].op, s[i].op)
    BY DEF Ordered
  <2>1. Adjacent(s[i - 1].op, s[i].op)  BY DEF Whole
  <2> QED  BY <2>1 DEF Adjacent, Near
<1>3. ASSUME NEW i \in 1..Len(s), s[i].op = "send"  PROVE Op(s, i + 1) = "communicate"
  <2>1. i # Len(s)  BY <1>3
  <2>2. i + 1 \in 2..Len(s) /\ i + 1 \in 1..Len(s) /\ (i + 1) - 1 = i  BY <2>1, <1>1
  <2>3. Adjacent(s[(i + 1) - 1].op, s[i + 1].op)  BY <2>2 DEF Whole
  <2> QED  BY <2>2, <2>3, <1>1, <1>3 DEF Adjacent
<1> QED  BY <1>2, <1>3 DEF Piped

LEMMA JoinWhole ==
  ASSUME NEW u \in Seq(PhaseType), u # <<>>, Whole(u),
         NEW v \in Seq(PhaseType), v # <<>>, Whole(v),
         Adjacent(u[Len(u)].op, v[1].op)
  PROVE  /\ u \o v \in Seq(PhaseType) /\ u \o v # <<>> /\ Whole(u \o v)
         /\ (u \o v)[1] = u[1] /\ (u \o v)[Len(u \o v)] = v[Len(v)]
<1> DEFINE r == u \o v
           n == Len(u)
           m == Len(v)
<1>1. n \in Nat /\ n >= 1 /\ m \in Nat /\ m >= 1  BY TailParts
<1>2. /\ r \in Seq(PhaseType) /\ Len(r) = n + m
      /\ \A i \in 1..(n + m) : r[i] = IF i <= n THEN u[i] ELSE v[i - n]
  BY ConcatProperties
<1> HIDE DEF r, n, m
<1>3. /\ \A i \in 1..n : r[i] = u[i]
      /\ \A i \in 1..m : r[n + i] = v[i]
  <2>1. \A i \in 1..n : r[i] = u[i]  BY <1>1, <1>2
  <2>2. ASSUME NEW i \in 1..m  PROVE r[n + i] = v[i]
    <3>1. n + i \in 1..(n + m) /\ ~(n + i <= n) /\ (n + i) - n = i  BY <1>1
    <3> QED  BY <3>1, <1>2
  <2> QED  BY <2>1, <2>2
<1>4. r # <<>>  BY <1>1, <1>2, EmptySeq
<1>5. r[1] = u[1] /\ r[n + m] = v[m]
  <2>1. 1 \in 1..n /\ m \in 1..m  BY <1>1
  <2> QED  BY <2>1, <1>3
<1>6. ASSUME NEW i \in 2..(n + m)  PROVE Adjacent(r[i - 1].op, r[i].op)
  <2>1. CASE i \in 2..n
    <3>1. i \in 1..n /\ i - 1 \in 1..n  BY <2>1, <1>1
    <3>2. r[i] = u[i] /\ r[i - 1] = u[i - 1]  BY <3>1, <1>3
    <3> QED  BY <2>1, <3>2 DEF Whole, n
  <2>2. CASE i = n + 1
    <3>1. n \in 1..n /\ 1 \in 1..m /\ i - 1 = n  BY <2>2, <1>1
    <3>2. r[n + 1] = v[1] /\ r[n] = u[n]  BY <3>1, <1>3
    <3> QED  BY <2>2, <3>1, <3>2 DEF n
  <2>3. CASE i \notin 2..n /\ i # n + 1
    <3>1. PICK j \in 2..m : i = n + j
      <4>1. i - n \in 2..m /\ i = n + (i - n)  BY <2>3, <1>1
      <4> QED  BY <4>1
    <3>2. j \in 1..m /\ j - 1 \in 1..m /\ i - 1 = n + (j - 1)  BY <3>1, <1>1
    <3>3. r[n + j] = v[j] /\ r[n + (j - 1)] = v[j - 1]  BY <3>2, <1>3
    <3> QED  BY <3>1, <3>2, <3>3 DEF Whole, m
  <2> QED  BY <2>1, <2>2, <2>3
<1>7. Whole(r)  BY <1>2, <1>6 DEF Whole
<1> QED  BY <1>2, <1>4, <1>5, <1>7 DEF r, n, m

LEMMA OnePhase ==
  ASSUME NEW op \in PhaseOps, op # "send"
  PROVE  LET s == <<Do(op)>>
         IN  /\ s \in Seq(PhaseType) /\ s # <<>> /\ Len(s) = 1 /\ s[1].op = op
             /\ Whole(s) /\ Ordered(s) /\ Ops(s) = {op}
             /\ Op(s, 1) = op /\ \A i \in Int : i > 1 => Op(s, i) = "none"
<1> DEFINE x == Do(op)
           s == <<x>>
<1>1. x \in PhaseType /\ x.op = op  BY DoTyped, DoOp
<1> HIDE DEF x
<1>2. s \in Seq(PhaseType) /\ s # <<>> /\ Len(s) = 1 /\ s[1].op = op  BY <1>1
<1> HIDE DEF s
<1>3. Whole(s) /\ Ordered(s)  BY <1>2 DEF Whole, Ordered
<1>4. Ops(s) = {op}  BY <1>2 DEF Ops
<1>5. Op(s, 1) = op /\ \A i \in Int : i > 1 => Op(s, i) = "none"  BY <1>2 DEF Op
<1> QED  BY <1>2, <1>3, <1>4, <1>5 DEF s, x

LEMMA TwoPhases ==
  ASSUME NEW a \in PhaseOps, NEW b \in PhaseOps, a # "send", b # "send", Link(a, b)
  PROVE  LET s == <<Do(a), Do(b)>>
         IN  /\ s \in Seq(PhaseType) /\ s # <<>> /\ Len(s) = 2 /\ s[1].op = a /\ s[2].op = b
             /\ Ordered(s) /\ Ops(s) = {a, b} /\ (b # "exit_fetch" => Whole(s))
             /\ Op(s, 1) = a /\ Op(s, 2) = b /\ \A i \in Int : i > 2 => Op(s, i) = "none"
<1> DEFINE x == Do(a)
           y == Do(b)
           s == <<x, y>>
<1>1. x \in PhaseType /\ x.op = a /\ y \in PhaseType /\ y.op = b  BY DoTyped, DoOp
<1> HIDE DEF x, y
<1>2. s \in Seq(PhaseType) /\ s # <<>> /\ Len(s) = 2 /\ s[1].op = a /\ s[2].op = b
  BY <1>1
<1> HIDE DEF s
<1>3. \A i \in 2..2 : i = 2 /\ i - 1 = 1  OBVIOUS
<1>4. Ordered(s)
  <2>1. Near(2, a, b)  BY DEF Near
  <2> QED  BY <1>2, <1>3, <2>1 DEF Ordered
<1>5. b # "exit_fetch" => Whole(s)  BY <1>2, <1>3 DEF Whole, Adjacent
<1>6. Ops(s) = {a, b}
  <2>1. 1..2 = {1, 2}  OBVIOUS
  <2> QED  BY <2>1, <1>2 DEF Ops
<1>7. Op(s, 1) = a /\ Op(s, 2) = b /\ \A i \in Int : i > 2 => Op(s, i) = "none"
  BY <1>2 DEF Op
<1> QED  BY <1>2, <1>4, <1>5, <1>6, <1>7 DEF s, x, y

\* _sync_gen(), and what follows it
LEMMA SyncPhases ==
  /\ SyncGen \in Seq(PhaseType) /\ SyncGen # <<>> /\ Len(SyncGen) = 2
  /\ SyncGen[1].op = "communicate" /\ SyncGen[2].op = "fetch"
  /\ Ordered(SyncGen) /\ Whole(SyncGen) /\ Ops(SyncGen) = {"communicate", "fetch"}
  /\ Op(SyncGen, 1) = "communicate" /\ Op(SyncGen, 2) = "fetch" /\ Op(SyncGen, 3) = "none"
<1>1. {"communicate", "fetch"} \subseteq PhaseOps /\ Link("communicate", "fetch")
  BY DEF PhaseOps, Link
<1> QED  BY <1>1, TwoPhases DEF SyncGen

LEMMA SyncThen ==
  ASSUME NEW op \in PhaseOps, op \notin {"send", "exit_fetch"}, Link("fetch", op)
  PROVE  LET s == SyncGen \o <<Do(op)>>
         IN  /\ s \in Seq(PhaseType) /\ s # <<>> /\ Len(s) = 3 /\ s[3].op = op
             /\ Ordered(s) /\ Whole(s) /\ "send" \notin Ops(s)
             /\ Op(s, 1) = "communicate" /\ Op(s, 2) = "fetch" /\ Op(s, 3) = op
<1> DEFINE z == <<Do(op)>>
           s == SyncGen \o z
<1>1. /\ z \in Seq(PhaseType) /\ z # <<>> /\ Len(z) = 1 /\ z[1].op = op /\ Whole(z)
  BY OnePhase
<1> HIDE DEF z
<1>2. Adjacent(SyncGen[Len(SyncGen)].op, z[1].op)
  BY SyncPhases, <1>1 DEF Adjacent
<1>3. s \in Seq(PhaseType) /\ s # <<>> /\ Whole(s) /\ s[1] = SyncGen[1] /\ s[Len(s)] = z[Len(z)]
  BY <1>1, <1>2, SyncPhases, JoinWhole
<1>4. Len(s) = 3 /\ s[2] = SyncGen[2]
  <2>1. /\ Len(s) = Len(SyncGen) + Len(z)
        /\ \A i \in 1..(Len(SyncGen) + Len(z)) :
             s[i] = IF i <= Len(SyncGen) THEN SyncGen[i] ELSE z[i - Len(SyncGen)]
    <3>1. SyncGen \in Seq(PhaseType) /\ z \in Seq(PhaseType)  BY <1>1, SyncPhases
    <3> QED  BY <3>1, ConcatProperties
  <2> HIDE DEF s
  <2>2. \A i \in 1..3 : s[i] = IF i <= 2 THEN SyncGen[i] ELSE z[i - 2]
    BY <2>1, <1>1, SyncPhases
  <2> QED  BY <2>1, <2>2, <1>1, SyncPhases
<1> HIDE DEF s
<1>5. s[1].op = "communicate" /\ s[2].op = "fetch" /\ s[3].op = op
  BY <1>1, <1>3, <1>4, SyncPhases
<1>6. Entered(s, 1)  BY DEF Entered
<1>7. s[Len(s)].op # "send"  BY <1>4, <1>5
<1>8. Ordered(s)  BY <1>3, <1>6, <1>7, WholeParts
<1>9. Op(s, 1) = "communicate" /\ Op(s, 2) = "fetch" /\ Op(s, 3) = op
  BY <1>4, <1>5 DEF Op
<1>10. "send" \notin Ops(s)
  <2>1. 1..3 = {1, 2, 3}  OBVIOUS
  <2> QED  BY <2>1, <1>4, <1>5 DEF Ops
<1> QED  BY <1>3, <1>4, <1>5, <1>8, <1>9, <1>10 DEF s, z

LEMMA SendOp == \A q, prepare : Send(q, prepare).op = "send"
BY DEF Send

LEMMA ExecutePiped ==
  ASSUME NEW q \in Queries, NEW prepare \in {"auto", "yes", "no"}, level \in Nat
  PROVE  LET s == ExecutePhases(q, prepare)
         IN  Ordered(s) /\ Piped(s, level) /\ Op(s, 1) = "start"
<1> DEFINE a == Do("start")
           b == Send(q, prepare)
           c == Do("communicate")
           d == Do("maintain")
           s == ExecutePhases(q, prepare)
<1>1. a.op = "start" /\ b.op = "send" /\ c.op = "communicate" /\ d.op = "maintain"
  BY DoOp, SendOp
<1>2. /\ a \in PhaseType /\ b \in PhaseType /\ c \in PhaseType
      /\ <<d>> \in Seq(PhaseType) /\ <<d>> # <<>> /\ Whole(<<d>>) /\ <<d>>[1].op = "maintain"
      /\ Len(<<d>>) = 1
  <2>1. {"start", "communicate", "maintain"} \subseteq PhaseOps  BY DEF PhaseOps
  <2>2. <<d>> \in Seq(PhaseType) /\ <<d>> # <<>> /\ Whole(<<d>>) /\ <<d>>[1].op = "maintain"
        /\ Len(<<d>>) = 1
    BY <2>1, OnePhase
  <2> QED  BY <2>1, <2>2, DoTyped, SendTyped
<1>3. CASE level = 0
  <2>1. s = <<a, b>> \o <<>> \o <<d>>  BY <1>3 DEF ExecutePhases
  <2>2. s = <<a, b, d>>  BY <2>1, ThreeConcat
  <2> HIDE DEF a, b, d
  <2>3. Len(s) = 3 /\ s[1].op = "start" /\ s[2].op = "send" /\ s[3].op = "maintain"
    BY <1>1, <2>2
  <2> HIDE DEF s
  <2>4. Ordered(s)
    <3>1. \A i \in 2..3 : (i = 2 /\ i - 1 = 1) \/ (i = 3 /\ i - 1 = 2)  OBVIOUS
    <3> QED  BY <2>3, <3>1 DEF Ordered, Link, Near
  <2>5. Op(s, 1) = "start"  BY <2>3 DEF Op
  <2>6. Ops(s) \cap PipedOps = {}
    <3>1. \A i \in 1..3 : i = 1 \/ i = 2 \/ i = 3  OBVIOUS
    <3>2. \A i \in 1..3 : s[i].op \notin PipedOps  BY <2>3, <3>1 DEF PipedOps
    <3>3. ASSUME NEW x \in Ops(s)  PROVE x \notin PipedOps
      <4>1. PICK i \in 1..Len(s) : x = s[i].op  BY <3>3 DEF Ops
      <4> QED  BY <4>1, <3>2, <2>3
    <3> QED  BY <3>3
  <2>7. Piped(s, level)  BY <1>3, <2>5, <2>6 DEF Piped, Entered
  <2> QED  BY <2>4, <2>5, <2>7 DEF s
<1>4. CASE level # 0
  <2>0. level > 0  BY <1>4
  <2> DEFINE p == <<a, b, c>>
  <2>1. <<a, b>> \o <<c>> = p
    <3>1. <<a, b>> \o <<>> = <<a, b>>  BY <1>2
    <3>2. <<a, b>> \o <<>> \o <<c>> = p  BY ThreeConcat
    <3> QED  BY <3>1, <3>2
  <2>2. s = p \o <<d>>  BY <2>0, <2>1 DEF ExecutePhases
  <2> HIDE DEF a, b, c, s
  <2>3. p \in Seq(PhaseType) /\ Len(p) = 3 /\ p # <<>>
        /\ p[1].op = "start" /\ p[2].op = "send" /\ p[3].op = "communicate"
    BY <1>1, <1>2
  <2> HIDE DEF p, d
  <2>4. Whole(p)
    <3>1. \A i \in 2..3 : (i = 2 /\ i - 1 = 1) \/ (i = 3 /\ i - 1 = 2)  OBVIOUS
    <3> QED  BY <2>3, <3>1 DEF Whole, Adjacent, Link
  <2>5. Adjacent(p[Len(p)].op, <<d>>[1].op)  BY <2>3, <1>2 DEF Adjacent, Link
  <2>6. s \in Seq(PhaseType) /\ s # <<>> /\ Whole(s) /\ s[1] = p[1] /\ s[Len(s)] = <<d>>[Len(<<d>>)]
    BY <1>2, <2>2, <2>3, <2>4, <2>5, JoinWhole
  <2>7. s[Len(s)].op # "send"  BY <2>6, <1>2
  <2>8. Op(s, 1) = "start"  BY <2>3, <2>6, OpParts
  <2> QED  BY <2>0, <2>6, <2>7, <2>8, WholeParts DEF Entered, s
<1> QED  BY <1>3, <1>4

LEMMA ManyWhole ==
  ASSUME NEW q \in Queries, NEW returning \in BOOLEAN
  PROVE  LET s == ManyPhases(q, returning)
         IN  /\ s \in Seq(PhaseType) /\ s # <<>> /\ Whole(s) /\ s[1].op = "start"
             /\ s[Len(s)].op = "maintain"
<1> DEFINE a == Do("start")
           b == Send(q, "yes")
           c == Do("communicate")
           p == <<a, b, c, b, c>>
           f == <<Do("fetch")>>
           d == <<Do("maintain")>>
<1>1. a.op = "start" /\ b.op = "send" /\ c.op = "communicate"  BY DoOp, SendOp
<1>2. a \in PhaseType /\ b \in PhaseType /\ c \in PhaseType
  <2>1. {"start", "communicate"} \subseteq PhaseOps /\ "yes" \in {"auto", "yes", "no"}
    BY DEF PhaseOps
  <2> QED  BY <2>1, DoTyped, SendTyped
<1>3. /\ f \in Seq(PhaseType) /\ f # <<>> /\ Whole(f) /\ f[1].op = "fetch" /\ Len(f) = 1
      /\ d \in Seq(PhaseType) /\ d # <<>> /\ Whole(d) /\ d[1].op = "maintain" /\ Len(d) = 1
  <2>1. {"fetch", "maintain"} \subseteq PhaseOps  BY DEF PhaseOps
  <2> QED  BY <2>1, OnePhase
<1>4. ManyPhases(q, returning) = p \o (IF returning THEN f ELSE <<>>) \o d  BY DEF ManyPhases
<1> HIDE DEF a, b, c, f, d
<1>5. /\ p \in Seq(PhaseType) /\ Len(p) = 5 /\ p # <<>> /\ p[1].op = "start" /\ p[2].op = "send"
      /\ p[3].op = "communicate" /\ p[4].op = "send" /\ p[5].op = "communicate"
  BY <1>1, <1>2
<1> HIDE DEF p
<1>6. Whole(p)
  <2>1. \A i \in 2..5 : \/ i = 2 /\ i - 1 = 1
                        \/ i = 3 /\ i - 1 = 2
                        \/ i = 4 /\ i - 1 = 3
                        \/ i = 5 /\ i - 1 = 4
    OBVIOUS
  <2> QED  BY <1>5, <2>1 DEF Whole, Adjacent, Link
<1> DEFINE g == p \o (IF returning THEN f ELSE <<>>)
<1>7. g \in Seq(PhaseType) /\ g # <<>> /\ Whole(g) /\ g[1].op = "start"
      /\ g[Len(g)].op \in {"communicate", "fetch"}
  <2>1. CASE returning
    <3>1. Adjacent(p[Len(p)].op, f[1].op)  BY <1>3, <1>5 DEF Adjacent, Link
    <3>2. /\ p \o f \in Seq(PhaseType) /\ p \o f # <<>> /\ Whole(p \o f) /\ (p \o f)[1] = p[1]
          /\ (p \o f)[Len(p \o f)] = f[Len(f)]
      BY <1>3, <1>5, <1>6, <3>1, JoinWhole
    <3>3. g = p \o f  BY <2>1
    <3> QED  BY <1>3, <1>5, <3>2, <3>3
  <2>2. CASE ~returning
    <3>1. p \o <<>> = p  BY <1>5
    <3>2. g = p  BY <2>2, <3>1
    <3> HIDE DEF g
    <3>3. g[Len(g)].op = "communicate"  BY <1>5, <3>2
    <3> QED  BY <1>5, <1>6, <3>2, <3>3
  <2> QED  BY <2>1, <2>2
<1> HIDE DEF g
<1>8. Adjacent(g[Len(g)].op, d[1].op)  BY <1>3, <1>7 DEF Adjacent, Link
<1>9. /\ g \o d \in Seq(PhaseType) /\ g \o d # <<>> /\ Whole(g \o d) /\ (g \o d)[1] = g[1]
      /\ (g \o d)[Len(g \o d)] = d[Len(d)]
  BY <1>3, <1>7, <1>8, JoinWhole
<1>10. ManyPhases(q, returning) = g \o d  BY <1>4 DEF g
<1> QED  BY <1>3, <1>7, <1>9, <1>10

LEMMA ManyPiped ==
  ASSUME NEW q \in Queries, NEW returning \in BOOLEAN
  PROVE  LET s == ManyPhases(q, returning)
             e == <<Do("enter"), Do("ride")>> \o s \o Exit
         IN  /\ level > 0 => Ordered(s) /\ Piped(s, level) /\ Op(s, 1) = "start"
             /\ Ordered(e) /\ Piped(e, level) /\ Op(e, 1) = "enter"
<1> DEFINE s == ManyPhases(q, returning)
           h == <<Do("enter"), Do("ride")>>
<1>1. /\ s \in Seq(PhaseType) /\ s # <<>> /\ Whole(s) /\ s[1].op = "start"
      /\ s[Len(s)].op = "maintain"
  BY ManyWhole
<1> HIDE DEF s
<1>2. ASSUME level > 0  PROVE Ordered(s) /\ Piped(s, level) /\ Op(s, 1) = "start"
  <2>1. Op(s, 1) = "start"  BY <1>1, OpParts
  <2>2. Entered(s, level) /\ s[Len(s)].op # "send"  BY <1>1, <1>2 DEF Entered
  <2> QED  BY <1>1, <2>1, <2>2, WholeParts
<1>3. /\ h \in Seq(PhaseType) /\ h # <<>> /\ Whole(h) /\ Len(h) = 2 /\ h[1].op = "enter"
      /\ h[2].op = "ride"
  <2>1. {"enter", "ride"} \subseteq PhaseOps /\ Link("enter", "ride")  BY DEF PhaseOps, Link
  <2> QED  BY <2>1, TwoPhases
<1>4. /\ Exit \in Seq(PhaseType) /\ Exit # <<>> /\ Whole(Exit) /\ Len(Exit) = 2
      /\ Exit[1].op = "exit" /\ Exit[2].op = "leave"
  <2>1. {"exit", "leave"} \subseteq PhaseOps /\ Link("exit", "leave")  BY DEF PhaseOps, Link
  <2> QED  BY <2>1, TwoPhases DEF Exit
<1> HIDE DEF h
<1> DEFINE g == h \o s
           e == g \o Exit
<1>5. /\ g \in Seq(PhaseType) /\ g # <<>> /\ Whole(g) /\ g[1] = h[1] /\ g[Len(g)] = s[Len(s)]
  <2>1. Adjacent(h[Len(h)].op, s[1].op)  BY <1>1, <1>3 DEF Adjacent, Link
  <2> QED  BY <1>1, <1>3, <2>1, JoinWhole
<1> HIDE DEF g
<1>6. /\ e \in Seq(PhaseType) /\ e # <<>> /\ Whole(e) /\ e[1] = g[1] /\ e[Len(e)] = Exit[Len(Exit)]
  <2>1. Adjacent(g[Len(g)].op, Exit[1].op)  BY <1>1, <1>4, <1>5 DEF Adjacent, Link
  <2> QED  BY <1>4, <1>5, <2>1, JoinWhole
<1> HIDE DEF e
<1>7. Op(e, 1) = "enter"
  <2>1. e[1].op = "enter"  BY <1>3, <1>5, <1>6
  <2>2. 1 \in 1..Len(e)  BY <1>6, OpParts
  <2> QED  BY <2>1, <2>2 DEF Op
<1>8. Ordered(e) /\ Piped(e, level)
  <2>1. Entered(e, level) /\ e[Len(e)].op # "send"  BY <1>4, <1>6, <1>7 DEF Entered
  <2> QED  BY <1>6, <2>1, WholeParts
<1>9. h \o s \o Exit = e  BY DEF e, g
<1> QED  BY <1>2, <1>7, <1>8, <1>9 DEF s, h

-----------------------------------------------------------------------------
(* When the last pipeline is left.                                          *)

\* What a command may do to the transaction and to the aborted pipeline.
LEMMA AnswersStatus ==
  ASSUME NEW s \in ServerType, NEW c \in CommandType, NEW a \in Answers(s, c)
  PROVE  /\ a.server \in ServerType /\ a.status \in AnswerTypes
         /\ c.op = "sync" => /\ a.status = "SYNC" /\ ~a.server.aborted
                            /\ a.server.status = s.status
         /\ c.op # "sync" => a.status # "SYNC"
         /\ level = 0 /\ ~s.aborted => ~a.server.aborted
         /\ ~Ends(c) /\ s.status # "IDLE" => a.server.status # "IDLE"
         /\ c.op = "begin" /\ ~Ends(c) => \/ a.server.status # "IDLE"
                                         \/ a.status \in {"ERROR", "ABORTED"}
<1>0. a.server \in ServerType /\ a.status \in AnswerTypes  BY AnswersTyped
<1>1. ASSUME NEW x, NEW st  PROVE Answer(x, st).server = x /\ Answer(x, st).status = st
  BY DEF Answer
<1>2. \/ /\ c.op = "sync" /\ a.server = [s EXCEPT !.aborted = FALSE] /\ a.status = "SYNC"
      \/ c.op # "sync" /\ a.server = s /\ a.status = "ABORTED"
      \/ c.op # "sync" /\ a.server = Success(s, c) /\ a.status = "OK"
      \/ c.op # "sync" /\ a.server = Failure(s) /\ a.status = "ERROR"
  <2>1. CASE c.op = "sync"  BY <1>1, <2>1 DEF Answers
  <2>2. CASE c.op # "sync" /\ s.aborted  BY <1>1, <2>2 DEF Answers
  <2>3. CASE c.op # "sync" /\ ~s.aborted
    <3>1. a = Answer(Success(s, c), "OK") \/ a = Answer(Failure(s), "ERROR")
      BY <2>3 DEF Answers
    <3> QED  BY <1>1, <2>3, <3>1
  <2> QED  BY <2>1, <2>2, <2>3
<1>3. s.status \in Statuses /\ s.aborted \in BOOLEAN  BY DEF ServerType
<1>4. /\ [s EXCEPT !.aborted = FALSE].aborted = FALSE
      /\ [s EXCEPT !.aborted = FALSE].status = s.status
  BY DEF ServerType
<1>5. /\ Failure(s).status = (IF s.status = "INTRANS" THEN "INERROR" ELSE s.status)
      /\ Failure(s).aborted = (level > 0)
  BY DEF Failure, ServerType
<1>6. Success(s, c).aborted = s.aborted
  <2>1. c.op = "prepare" => Success(s, c) \in {[s EXCEPT !.statements = s.statements \cup {c.name}]}
    BY DEF Success
  <2>2. c.op # "prepare" => Success(s, c) \in
          {[s EXCEPT !.statements = s.statements \ {c.name}], [s EXCEPT !.statements = {}],
           [s EXCEPT !.status = "INTRANS"], [s EXCEPT !.status = "IDLE"], s}
    <3>1. ~Ends(c) \/ Ends(c)  OBVIOUS
    <3>2. CASE c.op = "close"  BY <3>1, <3>2 DEF Success
    <3>3. CASE c.op = "deallocate all"  BY <3>1, <3>3 DEF Success
    <3>4. CASE c.op = "begin"  BY <3>1, <3>4 DEF Success
    <3>5. CASE c.op \notin {"prepare", "close", "deallocate all", "begin"}
      BY <3>1, <3>5 DEF Success
    <3> QED  BY <3>2, <3>3, <3>4, <3>5
  <2> QED  BY <2>1, <2>2 DEF ServerType
<1>7. ~Ends(c) => /\ c.op = "begin" => Success(s, c).status = "INTRANS"
                  /\ c.op # "begin" => Success(s, c).status = s.status
  <2> SUFFICES ASSUME ~Ends(c)
               PROVE  /\ c.op = "begin" => Success(s, c).status = "INTRANS"
                      /\ c.op # "begin" => Success(s, c).status = s.status
    OBVIOUS
  <2>1. ASSUME NEW x  PROVE /\ [s EXCEPT !.statements = x].status = s.status
                            /\ [s EXCEPT !.status = x].status = x
    BY DEF ServerType
  <2>2. CASE c.op = "begin"
    <3>1. Success(s, c) = [s EXCEPT !.status = "INTRANS"]  BY <2>2 DEF Success
    <3> QED  BY <2>1, <2>2, <3>1
  <2>3. CASE c.op = "prepare"
    <3>1. Success(s, c) = [s EXCEPT !.statements = s.statements \cup {c.name}]
      BY <2>3 DEF Success
    <3> QED  BY <2>1, <2>3, <3>1
  <2>4. CASE c.op \notin {"begin", "prepare"}
    <3>1. \/ Success(s, c) = [s EXCEPT !.statements = s.statements \ {c.name}]
          \/ Success(s, c) = [s EXCEPT !.statements = {}]
          \/ Success(s, c) = s
      BY <2>4 DEF Success
    <3> QED  BY <2>1, <2>4, <3>1
  <2> QED  BY <2>2, <2>3, <2>4
<1>8. level = 0 => ~(level > 0)  OBVIOUS
<1>9. CASE c.op = "sync" /\ a.server = [s EXCEPT !.aborted = FALSE] /\ a.status = "SYNC"
  BY <1>0, <1>4, <1>9
<1>10. CASE c.op # "sync" /\ a.server = s /\ a.status = "ABORTED"  BY <1>0, <1>10
<1>11. CASE c.op # "sync" /\ a.server = Success(s, c) /\ a.status = "OK"
  BY <1>0, <1>6, <1>7, <1>11
<1>12. CASE c.op # "sync" /\ a.server = Failure(s) /\ a.status = "ERROR"
  BY <1>0, <1>3, <1>5, <1>8, <1>12
<1> QED  BY <1>2, <1>9, <1>10, <1>11, <1>12

Clean == wire = <<>> /\ commands = <<>> /\ results = <<>> /\ ~server.aborted

\* The last command is a Sync, sent or not; what libpq knows once its result
\* is read is the truth.
Synced ==
  IF commands # <<>> THEN commands[Len(commands)].op = "sync"
  ELSE /\ ~server.aborted
       /\ IF wire # <<>> THEN /\ wire[Len(wire)].status = "SYNC"
                              /\ wire[Len(wire)].tx = server.status
          ELSE seen = server.status

\* All is sent, then all is read, before a pipeline is left.
Leaving(t) ==
  LET T == todo[t]
  IN  /\ Op(T, 1) = "communicate" /\ Op(T, 2) = "exit_fetch" => Synced
      /\ Op(T, 1) = "exit_fetch" => Synced /\ commands = <<>>
      /\ Op(T, 1) = "leave" => Synced /\ commands = <<>> /\ wire = <<>>

InOrder(t) == Ordered(todo[t]) /\ Piped(todo[t], level)
LeaveInv == /\ level \in Nat /\ (level = 0 => Clean)
            /\ \A t \in Threads : InOrder(t) /\ Leaving(t)

\* A Sync is queued.
LEMMA SyncQueued ==
  ASSUME QueuesTyped, NEW cs \in Seq(CommandType), cs # <<>>, cs[Len(cs)].op = "sync",
         commands' = commands \o cs
  PROVE  Synced'
<1>1. /\ commands \in Seq(CommandType) /\ Len(commands) \in Nat
      /\ Len(cs) \in Nat /\ Len(cs) >= 1
  BY TailParts, SeqParts DEF QueuesTyped
<1>2. /\ commands' \in Seq(CommandType) /\ Len(commands') = Len(commands) + Len(cs)
      /\ \A i \in 1..(Len(commands) + Len(cs)) :
           commands'[i] = IF i <= Len(commands) THEN commands[i] ELSE cs[i - Len(commands)]
  BY <1>1, ConcatProperties
<1>3. commands'[Len(commands')] = cs[Len(cs)]
  <2> DEFINE n == Len(commands)
             m == Len(cs)
  <2>1. n \in Nat /\ m \in Nat /\ m >= 1  BY <1>1
  <2>2. \A i \in 1..(n + m) : commands'[i] = IF i <= n THEN commands[i] ELSE cs[i - n]
    BY <1>2
  <2> HIDE DEF n, m
  <2>3. n + m \in 1..(n + m) /\ ~(n + m <= n) /\ (n + m) - n = m  BY <2>1
  <2>4. commands'[n + m] = cs[m]  BY <2>2, <2>3
  <2> QED  BY <2>4, <1>2 DEF n, m
<1>4. commands' # <<>>
  <2>1. Len(commands') # 0  BY <1>1, <1>2
  <2> QED  BY <1>2, <2>1, EmptySeq
<1> QED  BY <1>3, <1>4 DEF Synced

LEMMA SyncedSent ==
  ASSUME QueuesInv, Synced, NEW t \in Threads, transmit(t)
  PROVE  Synced'
<1> DEFINE c == Head(commands)
<1>1. /\ commands \in Seq(CommandType) /\ commands # <<>> /\ wire \in Seq(ResultType)
      /\ server \in ServerType
  BY DEF transmit, QueuesInv, QueuesTyped
<1>2. /\ Len(commands) \in Nat /\ Len(commands) >= 1 /\ c = commands[1]
      /\ commands' \in Seq(CommandType) /\ Len(commands') = Len(commands) - 1
      /\ \A i \in 1..Len(commands') : commands'[i] = commands[i + 1]
  BY <1>1, TailParts DEF transmit
<1>3. c \in CommandType  BY <1>1, HeadTailProperties
<1>4. PICK a \in Answers(server, c) :
        /\ server' = a.server
        /\ wire' = Append(wire, [query |-> IF c.op \in {"run", "run prepared"}
                                           THEN c.query ELSE NoQuery,
                                 status |-> a.status, tx |-> a.server.status])
  BY DEF transmit
<1> DEFINE r == [query |-> IF c.op \in {"run", "run prepared"} THEN c.query ELSE NoQuery,
                 status |-> a.status, tx |-> a.server.status]
<1>8. r.query \in AnyQuery /\ r.status = a.status /\ r.tx = a.server.status
      /\ r = [query |-> r.query, status |-> a.status, tx |-> a.server.status]
  BY <1>3 DEF CommandType, AnyQuery
<1>9. wire' = Append(wire, r)  BY <1>4
<1> HIDE DEF r
<1> HIDE DEF c
<1>5. commands[Len(commands)].op = "sync"  BY <1>1 DEF Synced
<1>6. CASE Len(commands) = 1
  <2>1. commands' = <<>>  BY <1>2, <1>6, EmptySeq
  <2>2. c.op = "sync"  BY <1>2, <1>5, <1>6
  <2>3. a.status = "SYNC" /\ ~a.server.aborted  BY <1>1, <1>3, <2>2, AnswersStatus
  <2>4. a.server \in ServerType /\ a.status \in AnswerTypes  BY <1>1, <1>3, AnswersStatus
  <2>5. r \in ResultType  BY <1>8, <2>4 DEF ResultType, ServerType
  <2>6. /\ wire' \in Seq(ResultType) /\ Len(wire') = Len(wire) + 1 /\ wire'[Len(wire) + 1] = r
    BY <1>1, <1>9, <2>5, AppendProperties
  <2>7. wire' # <<>>
    <3>1. Len(wire') # 0  BY <1>1, <2>6, LenProperties
    <3> QED  BY <2>6, <3>1, EmptySeq
  <2>8. wire'[Len(wire')] = r  BY <2>6
  <2> QED  BY <1>4, <1>8, <2>1, <2>3, <2>7, <2>8 DEF Synced
<1>7. CASE Len(commands) # 1
  <2> DEFINE n == Len(commands)
  <2>1. n \in Nat /\ n >= 2 /\ Len(commands') = n - 1
        /\ \A i \in 1..(n - 1) : commands'[i] = commands[i + 1]
    BY <1>2, <1>7
  <2> HIDE DEF n
  <2>2. n - 1 \in 1..(n - 1) /\ (n - 1) + 1 = n  BY <2>1
  <2>3. commands'[n - 1] = commands[n]
    <3>1. PICK i \in 1..(n - 1) : i = n - 1  BY <2>2
    <3>2. commands'[i] = commands[i + 1]  BY <2>1
    <3> QED  BY <3>1, <3>2, <2>2
  <2>4. commands' # <<>>
    <3>1. Len(commands') # 0  BY <2>1
    <3> QED  BY <1>2, <3>1, EmptySeq
  <2> QED  BY <1>5, <2>1, <2>3, <2>4 DEF Synced, n
<1> QED  BY <1>6, <1>7

LEMMA SyncedRead ==
  ASSUME QueuesInv, Synced, NEW t \in Threads, receive(t)
  PROVE  Synced'
<1>1. /\ wire \in Seq(ResultType) /\ wire # <<>> /\ UNCHANGED <<commands, server>>
      /\ wire' = Tail(wire)
      /\ seen' = IF Head(wire).status = "SYNC" THEN Head(wire).tx ELSE seen
  BY DEF receive, QueuesInv, QueuesTyped
<1>2. CASE commands # <<>>  BY <1>1, <1>2 DEF Synced
<1>3. CASE commands = <<>>
  <2> DEFINE n == Len(wire)
  <2>1. /\ n \in Nat /\ n >= 1 /\ Head(wire) = wire[1]
        /\ wire' \in Seq(ResultType) /\ Len(wire') = n - 1
        /\ \A i \in 1..(n - 1) : wire'[i] = wire[i + 1]
    BY <1>1, TailParts
  <2>2. ~server.aborted /\ wire[n].status = "SYNC" /\ wire[n].tx = server.status
    BY <1>1, <1>3 DEF Synced
  <2> HIDE DEF n
  <2>3. CASE n = 1
    <3>1. wire' = <<>>  BY <2>1, <2>3, EmptySeq
    <3>2. seen' = server.status  BY <1>1, <2>1, <2>2, <2>3
    <3> QED  BY <1>1, <1>3, <2>2, <3>1, <3>2 DEF Synced
  <2>4. CASE n # 1
    <3>1. PICK i \in 1..(n - 1) : i = n - 1  BY <2>1, <2>4
    <3>2. i + 1 = n  BY <2>1, <3>1
    <3>3. wire'[Len(wire')] = wire[n]  BY <2>1, <3>1, <3>2
    <3>4. wire' # <<>>
      <4>1. Len(wire') # 0  BY <2>1, <2>4
      <4> QED  BY <2>1, <4>1, EmptySeq
    <3> QED  BY <1>1, <1>3, <2>2, <3>3, <3>4 DEF Synced
  <2> QED  BY <2>3, <2>4
<1> QED  BY <1>2, <1>3

LEMMA LeaveNext ==
  ASSUME OneThread, NEW t \in Threads, level' \in Nat, level' = 0 => Clean',
         Ordered(todo'[t]), Piped(todo'[t], level'), Leaving(t)'
  PROVE  LeaveInv'
<1>1. ASSUME NEW u \in Threads  PROVE Ordered(todo'[u]) /\ Piped(todo'[u], level') /\ Leaving(u)'
  <2>1. u = t  BY DEF OneThread
  <2> QED  BY <2>1
<1> QED  BY <1>1 DEF LeaveInv, InOrder

LEMMA OpHead ==
  ASSUME TodoTyped, NEW t \in Threads, NEW phase, At(t, phase)
  PROVE  Op(todo[t], 1) = phase /\ todo[t] # <<>> /\ todo[t] \in Seq(PhaseType)
BY OpParts DEF At, TodoTyped

\* Phases of which nothing follows from the order of the queues.
Outside == {"start", "send", "maintain", "ride", "rollback", "enter", "entered"}

LEMMA MovesOn ==
  ASSUME TodoTyped, LeaveInv, NEW t \in Threads, todo[t] # <<>>, NEW ok, ContinueIf(ok, t),
         Op(todo[t], 1) # "enter" \/ level' > 0, level' \in Nat,
         Entered(todo[t], level') <=> Entered(todo[t], level)
  PROVE  /\ todo'[t] \in Seq(PhaseType) /\ Rest(todo[t], todo'[t])
         /\ ok => Op(todo'[t], 1) = Op(todo[t], 2) /\ Op(todo'[t], 2) = Op(todo[t], 3)
         /\ ~ok => Op(todo'[t], 1) \in Finally \cup {"none"}
         /\ Ordered(todo'[t]) /\ Piped(todo'[t], level')
         /\ Op(todo[t], 1) \in Outside => Leaving(t)'
<1>1. Ordered(todo[t]) /\ Piped(todo[t], level) /\ level \in Nat  BY DEF LeaveInv, InOrder
<1>2. /\ todo'[t] \in Seq(PhaseType) /\ Rest(todo[t], todo'[t])
      /\ ok => Op(todo'[t], 1) = Op(todo[t], 2) /\ Op(todo'[t], 2) = Op(todo[t], 3)
      /\ ~ok => Op(todo'[t], 1) \in Finally \cup {"none"}
  BY <1>1, Moves
<1> DEFINE T == todo[t]
           X == todo'[t]
<1>3. Ordered(X)  BY <1>2 DEF Rest
<1>4. /\ Op(X, 1) # "none" => Link(Op(T, 1), Op(X, 1))
      /\ Op(X, 1) = "communicate" => Op(X, 2) # "exit_fetch"
      /\ Ops(X) \subseteq Ops(T) /\ SendsOf(T, X)
  BY <1>2 DEF Rest
<1>5. Op(T, 1) \in Outside => Leaving(t)'
  BY <1>4 DEF Link, Outside, Leaving
<1> HIDE DEF T, X
<1>6. Op(X, 1) # "enter"  BY <1>4 DEF Link
<1>7. Piped(X, level')
  <2>1. Piped(T, level')  BY <1>1 DEF Piped, T
  <2>2. level' > 0 \/ Op(T, 1) # "enter"  BY DEF T
  <2> QED  BY <1>4, <1>6, <2>1, <2>2, PipedKept
<1> QED  BY <1>2, <1>3, <1>5, <1>7 DEF T, X

\* A phase becomes others.
LEMMA Becomes ==
  ASSUME TodoTyped, LeaveInv, NEW t \in Threads, todo[t] # <<>>,
         Op(todo[t], 1) # "communicate",
         NEW new \in Seq(PhaseType), new # <<>>, Ordered(new), "send" \notin Ops(new),
         \A o : Link(Op(todo[t], 1), o) => Link(new[Len(new)].op, o),
         new[Len(new)].op = "fetch" => Len(new) <= 2,
         Continue(t, new), UNCHANGED level,
         \/ level > 0
         \/ Op(todo[t], 1) # "enter" /\ Op(new, 1) # "enter" /\ Ops(new) \cap PipedOps = {}
  PROVE  /\ todo'[t] \in Seq(PhaseType)
         /\ Ordered(todo'[t]) /\ Piped(todo'[t], level')
         /\ \A i \in 1..Len(new) : Op(todo'[t], i) = Op(new, i)
         /\ Op(todo'[t], Len(new) + 1) = Op(todo[t], 2)
<1> DEFINE T == todo[t]
           X == new \o Tail(T)
<1>1. Ordered(T) /\ Piped(T, level) /\ level \in Nat /\ T \in Seq(PhaseType)
  BY DEF LeaveInv, InOrder, TodoTyped
<1>2. /\ X \in Seq(PhaseType) /\ Ordered(X) /\ Ops(X) \subseteq Ops(new) \cup Ops(T)
      /\ \A i \in 1..Len(new) : Op(X, i) = Op(new, i)
      /\ Op(X, Len(new) + 1) = Op(T, 2)
      /\ SendsOf(T, X)
  BY <1>1, PrefixParts
<1>3. todo'[t] = X  BY DEF Continue, TodoTyped
<1> HIDE DEF T, X
<1>4. 1 \in 1..Len(new)  BY OpParts
<1>5. Op(X, 1) = Op(new, 1)  BY <1>2, <1>4
<1>6. \/ level > 0
      \/ Op(T, 1) # "enter" /\ Op(X, 1) # "enter" /\ Ops(X) \cap PipedOps \subseteq Ops(T)
  BY <1>2, <1>5 DEF T
<1>7. Piped(X, level)  BY <1>1, <1>2, <1>6, PipedKept
<1> QED  BY <1>2, <1>3, <1>7 DEF T

\* The server answers at once, outside of pipelines.
LEMMA CleanAnswer ==
  ASSUME LeaveInv, level = 0, NEW s \in ServerType, ~s.aborted, NEW c \in CommandType,
         NEW a \in Answers(s, c)
  PROVE  ~a.server.aborted /\ a.server \in ServerType
BY AnswersStatus

LEMMA StartedInOrder ==
  ASSUME TodoTyped, NEW t \in Threads, NEW new \in Seq(PhaseType), Start(t, new)
  PROVE  todo'[t] = new
BY DEF Start, TodoTyped

LEMMA NotLeaving ==
  ASSUME NEW t \in Threads,
         LET X == todo'[t]
         IN  \/ Op(X, 1) \notin {"communicate", "exit_fetch", "leave"}
             \/ Op(X, 1) = "communicate" /\ Op(X, 2) # "exit_fetch"
  PROVE  Leaving(t)'
BY DEF Leaving

\* A call starts with these phases.
LEMMA CallStarts ==
  ASSUME TodoTyped, OneThread, NEW t \in Threads, NEW new \in Seq(PhaseType), new # <<>>,
         Start(t, new), Ordered(new), Piped(new, level),
         \/ Op(new, 1) \in {"start", "enter", "exit", "fetch", "rollback"}
         \/ Op(new, 1) = "communicate" /\ Op(new, 2) = "fetch",
         LeaveInv, UNCHANGED <<level, network>>, level = 0 => UNCHANGED queues
  PROVE  LeaveInv'
<1>1. todo'[t] = new  BY StartedInOrder
<1>2. Leaving(t)'  BY <1>1, NotLeaving
<1>3. level' \in Nat /\ (level' = 0 => Clean')
  BY DEF LeaveInv, Clean, queues, network
<1>4. Ordered(todo'[t]) /\ Piped(todo'[t], level')  BY <1>1
<1> QED  BY <1>2, <1>3, <1>4, LeaveNext

LEMMA LeaveCall ==
  ASSUME QueuesInv, LeaveInv, OneThread, NEW t \in Threads, Call(t)
  PROVE  LeaveInv'
<1>1. /\ TodoTyped /\ level \in Nat /\ server \in ServerType
      /\ level = 0 => Clean
  BY DEF QueuesInv, CacheInv, LeaveInv
<1>2. ASSUME NEW new \in Seq(PhaseType), new # <<>>, Whole(new), new[Len(new)].op # "send",
             Start(t, new), level > 0 \/ Op(new, 1) = "enter",
             \/ Op(new, 1) \in {"start", "enter", "exit", "fetch", "rollback"}
             \/ Op(new, 1) = "communicate" /\ Op(new, 2) = "fetch",
             UNCHANGED <<level, network>>, level = 0 => UNCHANGED queues
      PROVE  LeaveInv'
  <2>1. Ordered(new) /\ Piped(new, level)  BY <1>2, WholeParts DEF Entered
  <2> QED  BY <1>1, <1>2, <2>1, CallStarts
<1>3. ASSUME NEW q \in Queries, NEW prepare \in {"auto", "yes", "no"}, execute(t, q, prepare)
      PROVE  LeaveInv'
  <2> DEFINE new == ExecutePhases(q, prepare)
  <2>1. Ordered(new) /\ Piped(new, level) /\ Op(new, 1) = "start"  BY <1>1, ExecutePiped
  <2>2. new \in Seq(PhaseType)
    <3>1. TRUE \in BOOLEAN  OBVIOUS
    <3> QED  BY <3>1, PhasesTyped
  <2>3. Start(t, new) /\ UNCHANGED <<level, queues, network>>  BY <1>3 DEF execute
  <2> HIDE DEF new
  <2>4. new # <<>>  BY <2>1, <2>2, OpParts
  <2> QED  BY <1>1, <2>1, <2>2, <2>3, <2>4, CallStarts
<1>4. ASSUME NEW q \in Queries, NEW returning \in BOOLEAN, executemany(t, q, returning)
      PROVE  LeaveInv'
  <2> DEFINE s == ManyPhases(q, returning)
             e == <<Do("enter"), Do("ride")>> \o s \o Exit
  <2>1. /\ level > 0 => Ordered(s) /\ Piped(s, level) /\ Op(s, 1) = "start"
        /\ Ordered(e) /\ Piped(e, level) /\ Op(e, 1) = "enter"
    BY ManyPiped
  <2>2. s \in Seq(PhaseType) /\ e \in Seq(PhaseType)
    <3>1. "yes" \in {"auto", "yes", "no"}  OBVIOUS
    <3>2. /\ s \in Seq(PhaseType) /\ Exit \in Seq(PhaseType)
          /\ <<Do("enter"), Do("ride")>> \in Seq(PhaseType)
      BY <3>1, PhasesTyped
    <3> HIDE DEF s
    <3> QED  BY <3>2, ConcatProperties
  <2>3. Start(t, IF level > 0 THEN s ELSE e) /\ UNCHANGED <<level, queues, network>>
    BY <1>4 DEF executemany
  <2> HIDE DEF s, e
  <2>4. (level > 0 => s # <<>>) /\ e # <<>>  BY <2>1, <2>2, OpParts
  <2>5. CASE level > 0
    <3>1. Start(t, s)  BY <2>3, <2>5
    <3> QED  BY <1>1, <2>1, <2>2, <2>3, <2>4, <2>5, <3>1, CallStarts
  <2>6. CASE ~(level > 0)
    <3>1. Start(t, e)  BY <2>3, <2>6
    <3> QED  BY <1>1, <2>1, <2>2, <2>3, <2>4, <2>6, <3>1, CallStarts
  <2> QED  BY <2>5, <2>6
<1>5. ASSUME NEW op \in {"enter", "fetch"}, Start(t, <<Do(op)>>), level > 0 \/ op = "enter",
             UNCHANGED <<level, queues, network>>
      PROVE  LeaveInv'
  <2> DEFINE s == <<Do(op)>>
  <2>1. op \in PhaseOps /\ op # "send"  BY DEF PhaseOps
  <2>2. /\ s \in Seq(PhaseType) /\ s # <<>> /\ Len(s) = 1 /\ s[1].op = op /\ Whole(s)
        /\ Op(s, 1) = op
    BY <2>1, OnePhase
  <2> HIDE DEF s
  <2>3. Start(t, s)  BY <1>5 DEF s
  <2> QED  BY <1>2, <1>5, <2>1, <2>2, <2>3
<1>6. CASE enter(t)  BY <1>5, <1>6 DEF enter
<1>7. CASE fetch(t)  BY <1>5, <1>7 DEF fetch
<1>8. CASE exit(t)
  <2>1. {"exit", "leave"} \subseteq PhaseOps /\ Link("exit", "leave")  BY DEF PhaseOps, Link
  <2>2. /\ Exit \in Seq(PhaseType) /\ Exit # <<>> /\ Len(Exit) = 2 /\ Exit[2].op = "leave"
        /\ Whole(Exit) /\ Op(Exit, 1) = "exit"
    BY <2>1, TwoPhases DEF Exit
  <2>3. Start(t, Exit) /\ level > 0 /\ UNCHANGED <<level, queues, network>>  BY <1>8 DEF exit
  <2> QED  BY <1>2, <2>2, <2>3
<1>9. CASE sync(t) \/ commit_enqueued(t)
  <2>1. Start(t, SyncGen) /\ level > 0 /\ UNCHANGED <<level, network>>
    BY <1>9 DEF sync, commit_enqueued
  <2> QED  BY <1>1, <1>2, <2>1, SyncPhases
<1>10. CASE commit_now(t)
  <2>1. PICK a \in Answers(server, Simple("commit")) : Answered(a)  BY <1>10 DEF commit_now
  <2>2. level = 0 /\ UNCHANGED <<level, queues, wire, todo>> /\ todo[t] = <<>>
    BY <1>10 DEF commit_now, Idle
  <2>3. ~server.aborted /\ wire = <<>> /\ commands = <<>> /\ results = <<>>
    BY <1>1, <2>2 DEF Clean
  <2>4. ~a.server.aborted
    BY <1>1, <2>1, <2>2, <2>3, CommandTypes, CleanAnswer
  <2>5. Clean'
    BY <2>1, <2>2, <2>3, <2>4 DEF Clean, queues, Answered
  <2>6. Op(todo'[t], 1) = "none"
    <3>1. todo'[t] = <<>>  BY <2>2
    <3> QED  BY <3>1 DEF Op
  <2>7. Leaving(t)'  BY <2>6, NotLeaving
  <2>8. Ordered(todo'[t]) /\ Piped(todo'[t], level')  BY <2>2 DEF LeaveInv, InOrder
  <2> QED  BY <1>1, <2>2, <2>5, <2>7, <2>8, LeaveNext
<1>11. CASE rollback(t)
  <2>1. CASE level = 0
    <3> DEFINE s == <<Do("rollback")>>
    <3>1. Start(t, s) /\ UNCHANGED <<level, queues, network>>  BY <1>11, <2>1 DEF rollback
    <3>2. "rollback" \in PhaseOps  BY DEF PhaseOps
    <3>3. /\ s \in Seq(PhaseType) /\ s # <<>> /\ Ordered(s) /\ Ops(s) = {"rollback"}
          /\ Op(s, 1) = "rollback"
      BY <3>2, OnePhase
    <3> HIDE DEF s
    <3>4. Piped(s, level)  BY <2>1, <3>3 DEF Piped, Entered, PipedOps
    <3> QED  BY <1>1, <3>1, <3>3, <3>4, CallStarts
  <2>2. CASE level # 0
    <3> DEFINE s == SyncGen \o <<Do("rollback")>>
    <3>1. Start(t, s) /\ UNCHANGED <<level, network>> /\ level > 0
      BY <1>1, <1>11, <2>2 DEF rollback
    <3>2. /\ "rollback" \in PhaseOps /\ "rollback" \notin {"send", "exit_fetch"}
          /\ Link("fetch", "rollback")
      BY DEF PhaseOps, Link
    <3>3. /\ s \in Seq(PhaseType) /\ s # <<>> /\ Len(s) = 3 /\ s[3].op = "rollback"
          /\ Whole(s) /\ Op(s, 1) = "communicate" /\ Op(s, 2) = "fetch"
      BY <3>2, SyncThen
    <3> HIDE DEF s
    <3>4. s[Len(s)].op # "send"  BY <3>3
    <3>5. Entered(s, level)  BY <3>1 DEF Entered
    <3>6. Ordered(s) /\ Piped(s, level)  BY <3>3, <3>4, <3>5, WholeParts
    <3> QED  BY <1>1, <3>1, <3>3, <3>6, CallStarts
  <2> QED  BY <2>1, <2>2
<1> QED
  BY <1>3, <1>4, <1>6, <1>7, <1>8, <1>9, <1>10, <1>11 DEF Call

\* The phases of the pipelines are reached in one.
LEMMA InPipeline ==
  ASSUME QueuesInv, LeaveInv, NEW t \in Threads, NEW phase \in PipedOps, At(t, phase)
  PROVE  level > 0
<1>1. TodoTyped /\ Piped(todo[t], level)  BY DEF QueuesInv, CacheInv, LeaveInv, InOrder
<1>2. Op(todo[t], 1) = phase /\ todo[t] # <<>> /\ todo[t] \in Seq(PhaseType)
  BY <1>1, OpHead
<1>3. phase \in Ops(todo[t]) /\ phase # "enter"  BY <1>2, OpParts DEF PipedOps
<1> QED  BY <1>1, <1>2, <1>3 DEF Piped, Entered

\* Phases end with no consequence for the queues in pipelines.
LEMMA PhaseEnds ==
  ASSUME QueuesInv, LeaveInv, OneThread, NEW t \in Threads,
         NEW phase \in Outside \ {"enter"}, At(t, phase), NEW ok, ContinueIf(ok, t),
         UNCHANGED level, level = 0 => Clean'
  PROVE  LeaveInv'
<1>1. TodoTyped /\ level \in Nat  BY DEF QueuesInv, CacheInv, LeaveInv
<1>2. Op(todo[t], 1) = phase /\ todo[t] # <<>>  BY <1>1, OpHead
<1>3. level' \in Nat /\ (Entered(todo[t], level') <=> Entered(todo[t], level))
  BY <1>1
<1>4. Ordered(todo'[t]) /\ Piped(todo'[t], level') /\ Leaving(t)'
  BY <1>1, <1>2, <1>3, MovesOn
<1> QED  BY <1>3, <1>4, LeaveNext

\* A Sync is queued, with what remains of _sync_gen().
LEMMA SyncBecomes ==
  ASSUME QueuesInv, LeaveInv, OneThread, NEW t \in Threads, NEW phase \in {"start", "rollback"},
         At(t, phase), Continue(t, SyncGen), UNCHANGED level, level > 0
  PROVE  /\ LeaveInv'
         /\ Op(todo'[t], 1) = "communicate" /\ Op(todo'[t], 2) = "fetch"
         /\ Op(todo'[t], 3) = Op(todo[t], 2)
<1>1. TodoTyped /\ level \in Nat  BY DEF QueuesInv, CacheInv, LeaveInv
<1>2. Op(todo[t], 1) = phase /\ todo[t] # <<>>  BY <1>1, OpHead
<1>3. \A o : Link(Op(todo[t], 1), o) => Link(SyncGen[Len(SyncGen)].op, o)
  BY <1>2, SyncPhases DEF Link
<1>4. "send" \notin Ops(SyncGen) /\ Op(todo[t], 1) # "communicate" /\ Len(SyncGen) <= 2
  BY <1>2, SyncPhases
<1>5. /\ Ordered(todo'[t]) /\ Piped(todo'[t], level')
      /\ \A i \in 1..Len(SyncGen) : Op(todo'[t], i) = Op(SyncGen, i)
      /\ Op(todo'[t], Len(SyncGen) + 1) = Op(todo[t], 2)
  BY <1>1, <1>2, <1>3, <1>4, SyncPhases, Becomes
<1>6. Op(todo'[t], 1) = "communicate" /\ Op(todo'[t], 2) = "fetch"
  BY <1>5, SyncPhases
<1>7. LeaveInv'
  <2>1. Leaving(t)'  BY <1>6, NotLeaving
  <2>2. level' \in Nat /\ level' # 0  BY <1>1
  <2> QED  BY <1>5, <2>1, <2>2, LeaveNext
<1>8. Op(todo'[t], 3) = Op(todo[t], 2)
  <2>1. Len(SyncGen) + 1 = 3  BY SyncPhases
  <2> QED  BY <1>5, <2>1
<1> QED  BY <1>6, <1>7, <1>8

\* Outside of pipelines, the server answers at once.
LEMMA CleanAnswered ==
  ASSUME QueuesInv, LeaveInv, level = 0, NEW s \in ServerType, ~s.aborted,
         NEW c \in CommandType, NEW a \in Answers(s, c), Answered(a),
         UNCHANGED <<queues, wire>>
  PROVE  Clean'
<1>1. wire = <<>> /\ commands = <<>> /\ results = <<>>  BY DEF LeaveInv, Clean
<1>2. ~a.server.aborted  BY CleanAnswer
<1> QED  BY <1>1, <1>2 DEF Clean, queues, Answered

LEMMA LeaveNow ==
  ASSUME QueuesInv, LeaveInv, OneThread, NEW t \in Threads,
         \/ start_now(t) \/ prepare_fails(t) \/ execute_now(t) \/ maintain_now(t)
         \/ rollback_now(t)
  PROVE  LeaveInv'
<1>1. TodoTyped /\ level \in Nat /\ server \in ServerType /\ Sound(cache)
  BY DEF QueuesInv, CacheInv, LeaveInv
<1>2. level = 0 => ~server.aborted  BY DEF LeaveInv, Clean
<1>3. CASE start_now(t)
  <2>1. PICK a \in Answers(server, Simple("begin")) : Answered(a) /\ ContinueIf(a.status = "OK", t)
    BY <1>3 DEF start_now
  <2>2. level = 0 /\ UNCHANGED <<level, queues, wire>> /\ At(t, "start")  BY <1>3 DEF start_now
  <2>3. Clean'  BY <1>1, <1>2, <2>1, <2>2, CommandTypes, CleanAnswered
  <2>4. "start" \in Outside \ {"enter"}  BY DEF Outside
  <2> QED  BY <2>1, <2>2, <2>3, <2>4, PhaseEnds
<1> DEFINE q == Head(todo[t]).query
           got == Get(cache, q, Head(todo[t]).prepare)
<1>4. "send" \in Outside \ {"enter"}  BY DEF Outside
<1>5. CASE prepare_fails(t)
  <2>1. q \in Queries  BY <1>1, <1>5, AtPhase DEF prepare_fails
  <2>2. PrepareCommand(q, got) \in CommandType  BY <1>1, <2>1, ExecuteCommands
  <2>3. PICK a \in Answers(server, PrepareCommand(q, got)) : Answered(a)
    BY <1>5 DEF prepare_fails
  <2>4. /\ level = 0 /\ UNCHANGED <<level, queues, wire>> /\ At(t, "send") /\ Raise(t)
    BY <1>5 DEF prepare_fails
  <2> HIDE DEF got, q
  <2>5. Clean'  BY <1>1, <1>2, <2>2, <2>3, <2>4, CleanAnswered
  <2>6. ContinueIf(FALSE, t)  BY <2>4 DEF ContinueIf
  <2> QED  BY <1>4, <2>4, <2>5, <2>6, PhaseEnds
<1>6. CASE execute_now(t)
  <2> DEFINE prepared == {a \in Answers(server, PrepareCommand(q, got)) : a.status = "OK"}
             bases == IF got.prep = "SHOULD" THEN {a.server : a \in prepared} ELSE {server}
  <2>1. q \in Queries  BY <1>1, <1>6, AtPhase DEF execute_now
  <2>2. PrepareCommand(q, got) \in CommandType /\ RunCommand(q, got) \in CommandType
    BY <1>1, <2>1, ExecuteCommands
  <2>3. PICK s \in bases : \E a \in Answers(s, RunCommand(q, got)) :
          Answered(a) /\ ContinueIf(a.status = "OK", t)
    BY <1>6 DEF execute_now
  <2>4. level = 0 /\ UNCHANGED <<level, queues, wire>> /\ At(t, "send")  BY <1>6 DEF execute_now
  <2> HIDE DEF got, q
  <2>5. s \in ServerType /\ ~s.aborted
    BY <1>1, <1>2, <2>2, <2>3, <2>4, CleanAnswer
  <2> HIDE DEF bases
  <2>6. PICK a \in Answers(s, RunCommand(q, got)) : Answered(a) /\ ContinueIf(a.status = "OK", t)
    BY <2>3
  <2>7. Clean'  BY <2>2, <2>4, <2>5, <2>6, CleanAnswered
  <2> QED  BY <1>4, <2>4, <2>6, <2>7, PhaseEnds
<1>7. CASE maintain_now(t)
  <2>1. cache.flush \in Seq(Int) /\ cache.flush # <<>>
    BY <1>1, <1>7, SoundParts DEF maintain_now
  <2>2. Deallocate(Head(cache.flush)) \in CommandType
    BY <2>1, HeadTailProperties, DeallocateTyped
  <2>3. PICK a \in Answers(server, Deallocate(Head(cache.flush))) :
          Answered(a) /\ IF a.status = "OK" THEN UNCHANGED todo ELSE Raise(t)
    BY <1>7 DEF maintain_now
  <2>4. level = 0 /\ UNCHANGED <<level, queues, wire>> /\ At(t, "maintain")
    BY <1>7 DEF maintain_now
  <2>5. Clean'  BY <1>1, <1>2, <2>2, <2>3, <2>4, CleanAnswered
  <2>6. CASE Raise(t)
    <3>1. ContinueIf(FALSE, t)  BY <2>6 DEF ContinueIf
    <3>2. "maintain" \in Outside \ {"enter"}  BY DEF Outside
    <3> QED  BY <2>4, <2>5, <3>1, <3>2, PhaseEnds
  <2>7. CASE UNCHANGED todo
    <3>1. Op(todo'[t], 1) = "maintain"  BY <1>1, <2>4, <2>7, OpHead
    <3>2. Leaving(t)'  BY <3>1, NotLeaving
    <3>3. Ordered(todo'[t]) /\ Piped(todo'[t], level')  BY <2>4, <2>7 DEF LeaveInv, InOrder
    <3> QED  BY <1>1, <2>4, <2>5, <3>2, <3>3, LeaveNext
  <2> QED  BY <2>3, <2>6, <2>7
<1>8. CASE rollback_now(t)
  <2> DEFINE new == <<Do("maintain")>>
  <2>1. PICK a \in Answers(server, Simple("rollback")) : Answered(a)
    BY <1>8 DEF rollback_now
  <2>2. level = 0 /\ UNCHANGED <<level, queues, wire>> /\ At(t, "rollback") /\ Continue(t, new)
    BY <1>8 DEF rollback_now
  <2>3. Clean'  BY <1>1, <1>2, <2>1, <2>2, CommandTypes, CleanAnswered
  <2>4. "maintain" \in PhaseOps  BY DEF PhaseOps
  <2>5. /\ new \in Seq(PhaseType) /\ new # <<>> /\ Len(new) = 1 /\ new[1].op = "maintain"
        /\ Ordered(new) /\ Ops(new) = {"maintain"} /\ Op(new, 1) = "maintain"
    BY <2>4, OnePhase
  <2> HIDE DEF new
  <2>6. Op(todo[t], 1) = "rollback" /\ todo[t] # <<>>  BY <1>1, <2>2, OpHead
  <2>7. \A o : Link(Op(todo[t], 1), o) => Link(new[Len(new)].op, o)
    BY <2>5, <2>6 DEF Link
  <2>8. /\ "send" \notin Ops(new) /\ Op(new, 1) # "enter" /\ Ops(new) \cap PipedOps = {}
        /\ Op(todo[t], 1) \notin {"communicate", "enter"} /\ new[Len(new)].op # "fetch"
    BY <2>5, <2>6 DEF PipedOps
  <2>9. /\ Ordered(todo'[t]) /\ Piped(todo'[t], level')
        /\ \A i \in 1..Len(new) : Op(todo'[t], i) = Op(new, i)
    BY <1>1, <2>2, <2>5, <2>6, <2>7, <2>8, Becomes
  <2>10. Op(todo'[t], 1) = "maintain"
    <3>1. 1 \in 1..Len(new)  BY <2>5
    <3> QED  BY <3>1, <2>5, <2>9
  <2>11. Leaving(t)'  BY <2>10, NotLeaving
  <2> QED  BY <1>1, <2>2, <2>3, <2>9, <2>11, LeaveNext
<1> QED  BY <1>3, <1>5, <1>6, <1>7, <1>8

\* A Sync is queued before the rest of the pipeline is sent and read.
LEMMA ExitQueues ==
  ASSUME QueuesInv, LeaveInv, OneThread, NEW t \in Threads, exit_gen(t)
  PROVE  LeaveInv' /\ Op(todo'[t], 1) = "communicate" /\ Op(todo'[t], 2) = "exit_fetch" /\ Synced'
<1> DEFINE new == <<Do("communicate"), Do("exit_fetch")>>
<1>1. TodoTyped /\ level \in Nat /\ QueuesTyped /\ Sound(cache)
  BY DEF QueuesInv, CacheInv, LeaveInv
<1>2. /\ At(t, "exit") /\ Continue(t, new) /\ UNCHANGED level
      /\ commands' = commands \o Sync
  BY DEF exit_gen, EnqueueAll, Enqueue
<1>3. level > 0
  <2>1. "exit" \in PipedOps  BY DEF PipedOps
  <2> QED  BY <1>2, <2>1, InPipeline
<1>4. {"communicate", "exit_fetch"} \subseteq PhaseOps /\ Link("communicate", "exit_fetch")
  BY DEF PhaseOps, Link
<1>5. /\ new \in Seq(PhaseType) /\ new # <<>> /\ Len(new) = 2 /\ new[2].op = "exit_fetch"
      /\ Ordered(new) /\ Ops(new) = {"communicate", "exit_fetch"}
      /\ Op(new, 1) = "communicate" /\ Op(new, 2) = "exit_fetch"
  BY <1>4, TwoPhases
<1> HIDE DEF new
<1>6. Op(todo[t], 1) = "exit" /\ todo[t] # <<>>  BY <1>1, <1>2, OpHead
<1>7. \A o : Link(Op(todo[t], 1), o) => Link(new[Len(new)].op, o)
  BY <1>5, <1>6 DEF Link
<1>8. /\ "send" \notin Ops(new) /\ Op(todo[t], 1) # "communicate"
      /\ new[Len(new)].op # "fetch"
  BY <1>5, <1>6
<1>9. /\ Ordered(todo'[t]) /\ Piped(todo'[t], level')
      /\ \A i \in 1..Len(new) : Op(todo'[t], i) = Op(new, i)
  BY <1>1, <1>2, <1>3, <1>5, <1>6, <1>7, <1>8, Becomes
<1>10. Op(todo'[t], 1) = "communicate" /\ Op(todo'[t], 2) = "exit_fetch"
  <2>1. 1 \in 1..Len(new) /\ 2 \in 1..Len(new)  BY <1>5
  <2> QED  BY <2>1, <1>5, <1>9
<1>11. Synced'
  <2>1. Simple("sync") \in CommandType
    <3>1. "sync" \in CommandOps /\ "sync" \notin {"run", "run prepared"}  BY DEF CommandOps
    <3> QED  BY <3>1, SimpleTyped
  <2>2. Sync \in Seq(CommandType) /\ Sync # <<>> /\ Sync[Len(Sync)].op = "sync"
    BY <2>1 DEF Sync, Simple, Command
  <2> QED  BY <1>1, <1>2, <2>2, SyncQueued
<1>12. Leaving(t)'  BY <1>10, <1>11 DEF Leaving
<1>13. level' \in Nat /\ level' # 0  BY <1>1, <1>2, <1>3
<1> QED  BY <1>9, <1>10, <1>11, <1>12, <1>13, LeaveNext

LEMMA EnterSyncs ==
  ASSUME QueuesInv, LeaveInv, OneThread, NEW t \in Threads, enter_syncs(t)
  PROVE  LeaveInv' /\ Op(todo'[t], 1) = "communicate" /\ Op(todo'[t], 2) = "fetch"
         /\ Op(todo'[t], 3) = "entered"
<1> DEFINE new == SyncGen \o <<Do("entered")>>
<1>1. TodoTyped /\ level \in Nat  BY DEF QueuesInv, CacheInv, LeaveInv
<1>2. At(t, "enter") /\ Continue(t, new) /\ UNCHANGED level /\ level > 0
  BY DEF enter_syncs, InProgress
<1>3. /\ "entered" \in PhaseOps /\ "entered" \notin {"send", "exit_fetch"}
      /\ Link("fetch", "entered")
  BY DEF PhaseOps, Link
<1>4. /\ new \in Seq(PhaseType) /\ new # <<>> /\ Len(new) = 3 /\ new[3].op = "entered"
      /\ Ordered(new) /\ "send" \notin Ops(new)
      /\ Op(new, 1) = "communicate" /\ Op(new, 2) = "fetch" /\ Op(new, 3) = "entered"
  BY <1>3, SyncThen
<1> HIDE DEF new
<1>5. Op(todo[t], 1) = "enter" /\ todo[t] # <<>>  BY <1>1, <1>2, OpHead
<1>6. \A o : Link(Op(todo[t], 1), o) => Link(new[Len(new)].op, o)
  BY <1>4, <1>5 DEF Link
<1>7. Op(todo[t], 1) # "communicate" /\ new[Len(new)].op # "fetch"  BY <1>4, <1>5
<1>8. /\ Ordered(todo'[t]) /\ Piped(todo'[t], level')
      /\ \A i \in 1..Len(new) : Op(todo'[t], i) = Op(new, i)
  BY <1>1, <1>2, <1>4, <1>5, <1>6, <1>7, Becomes
<1>9. /\ Op(todo'[t], 1) = "communicate" /\ Op(todo'[t], 2) = "fetch"
      /\ Op(todo'[t], 3) = "entered"
  <2>1. 1 \in 1..Len(new) /\ 2 \in 1..Len(new) /\ 3 \in 1..Len(new)  BY <1>4
  <2> QED  BY <2>1, <1>4, <1>8
<1>10. Leaving(t)'  BY <1>9, NotLeaving
<1>11. level' \in Nat /\ level' # 0  BY <1>1, <1>2
<1> QED  BY <1>8, <1>9, <1>10, <1>11, LeaveNext

\* A batch of results ends; all is read when the last ones of a pipeline are.
LEMMA BatchEnds ==
  ASSUME QueuesInv, LeaveInv, OneThread, NEW t \in Threads, batch_ends(t)
  PROVE  LeaveInv'
<1>1. TodoTyped /\ level \in Nat /\ InStep /\ QueuesTyped /\ Leaving(t)
  BY DEF QueuesInv, CacheInv, LeaveInv
<1>2. /\ \/ At(t, "communicate") /\ commands = <<>>
         \/ (At(t, "fetch") \/ At(t, "exit_fetch")) /\ (results = <<>> \/ wire = <<>>)
      /\ ContinueIf(~raised, t) /\ UNCHANGED <<level, queues, network>>
  BY DEF batch_ends
<1>3. PICK phase \in {"communicate", "fetch", "exit_fetch"} : At(t, phase)  BY <1>2
<1>4. phase \in PipedOps  BY DEF PipedOps
<1>5. level > 0  BY <1>3, <1>4, InPipeline
<1>6. Op(todo[t], 1) = phase /\ todo[t] # <<>>  BY <1>1, <1>3, OpHead
<1>7. level' \in Nat /\ level' # 0 /\ (Entered(todo[t], level') <=> Entered(todo[t], level))
  BY <1>1, <1>2, <1>5
<1>8. /\ Rest(todo[t], todo'[t])
      /\ Ordered(todo'[t]) /\ Piped(todo'[t], level')
  BY <1>1, <1>2, <1>6, <1>7, MovesOn
<1> DEFINE X == todo'[t]
           T == todo[t]
<1>9. /\ Op(X, 1) # "none" => Link(Op(T, 1), Op(X, 1))
      /\ Op(X, 1) = "exit_fetch" => Op(T, 2) = "exit_fetch"
      /\ Op(X, 1) = "communicate" => Op(X, 2) # "exit_fetch"
  BY <1>8 DEF Rest
<1>10. Synced => Synced'
  <2>1. commands' = commands /\ wire' = wire /\ server' = server /\ seen' = seen
    BY <1>2 DEF queues, network
  <2> QED  BY <2>1 DEF Synced
<1>11. ASSUME Op(X, 1) = "exit_fetch"  PROVE Synced' /\ commands' = <<>>
  <2>1. phase = "communicate"  BY <1>6, <1>9, <1>11 DEF Link
  <2>2. At(t, "communicate")  BY <1>3, <2>1
  <2>3. commands = <<>>  BY <1>2, <2>2 DEF At
  <2>4. Synced  BY <1>1, <1>6, <1>9, <1>11, <2>1 DEF Leaving
  <2> QED  BY <1>2, <1>10, <2>3, <2>4 DEF queues
<1>12. ASSUME Op(X, 1) = "leave"  PROVE Synced' /\ commands' = <<>> /\ wire' = <<>>
  <2>1. phase = "exit_fetch"  BY <1>6, <1>9, <1>12 DEF Link
  <2>2. At(t, "exit_fetch")  BY <1>3, <2>1
  <2>3. results = <<>> \/ wire = <<>>  BY <1>2, <2>2 DEF At
  <2>4. Synced /\ commands = <<>>  BY <1>1, <1>6, <2>1 DEF Leaving
  <2>5. wire = <<>>
    <3>1. Len(wire) \in Nat /\ Len(commands) = 0  BY <1>1, <2>4, SeqParts DEF QueuesTyped
    <3>2. results = <<>> => Len(wire) = 0  BY <1>1, <3>1 DEF InStep
    <3>3. Len(wire) = 0 => wire = <<>>  BY <1>1, EmptySeq DEF QueuesTyped
    <3> QED  BY <2>3, <3>2, <3>3
  <2> QED  BY <1>2, <1>10, <2>4, <2>5 DEF queues, network
<1>13. Leaving(t)'  BY <1>9, <1>11, <1>12 DEF Leaving
<1> QED  BY <1>7, <1>8, <1>13, LeaveNext

LEMMA Leaves ==
  ASSUME QueuesInv, LeaveInv, OneThread, NEW t \in Threads, leave(t)
  PROVE  LeaveInv' /\ todo'[t] = <<>>
<1>1. TodoTyped /\ level \in Nat /\ InStep /\ Leaving(t) /\ Ordered(todo[t])
  BY DEF QueuesInv, CacheInv, LeaveInv, InOrder
<1>2. /\ At(t, "leave") /\ level' = level - 1 /\ Continue(t, <<>>)
      /\ UNCHANGED <<queues, network>>
  BY DEF leave, Left
<1>3. level > 0
  <2>1. "leave" \in PipedOps  BY DEF PipedOps
  <2> QED  BY <1>2, <2>1, InPipeline
<1>4. Op(todo[t], 1) = "leave" /\ todo[t] # <<>>  BY <1>1, <1>2, OpHead
<1>5. todo'[t] \in Seq(PhaseType) /\ Rest(todo[t], todo'[t])
  <2>1. ContinueIf(TRUE, t)  BY <1>2 DEF ContinueIf
  <2> QED  BY <1>1, <1>4, <2>1, Moves
<1>6. Op(todo'[t], 1) = "none"  BY <1>4, <1>5 DEF Rest, Link
<1>7. todo'[t] = <<>>
  <2> DEFINE X == todo'[t]
  <2>1. X # <<>> => Op(X, 1) = X[1].op /\ X[1].op \in PhaseOps  BY <1>5, OpParts
  <2> QED  BY <1>6, <2>1 DEF PhaseOps
<1>8. Ordered(todo'[t]) /\ Piped(todo'[t], level')
  BY <1>7 DEF Ordered, Piped, Ops
<1>9. Leaving(t)'  BY <1>6, NotLeaving
<1>10. Clean'
  <2>1. Synced /\ commands = <<>> /\ wire = <<>>  BY <1>1, <1>4 DEF Leaving
  <2>2. ~server.aborted  BY <2>1 DEF Synced
  <2>3. results = <<>>
    <3>1. Len(results) = 0  BY <1>1, <2>1 DEF InStep
    <3> QED  BY <3>1, EmptySeq DEF QueuesInv, QueuesTyped
  <2> QED  BY <1>2, <2>1, <2>2, <2>3 DEF Clean, queues, network
<1>11. level' \in Nat  BY <1>1, <1>2, <1>3
<1> QED  BY <1>7, <1>8, <1>9, <1>10, <1>11, LeaveNext

LEMMA LeaveStep ==
  ASSUME QueuesInv, LeaveInv, OneThread, NEW t \in Threads, Step(t)
  PROVE  LeaveInv'
<1>1. TodoTyped /\ level \in Nat /\ Leaving(t) /\ (level = 0 => Clean)
  BY DEF QueuesInv, CacheInv, LeaveInv
<1>2. ASSUME NEW phase \in Outside \ {"enter"}, At(t, phase), Continue(t, <<>>),
             UNCHANGED <<level, network>>, level > 0 \/ UNCHANGED queues
      PROVE  LeaveInv'
  <2>1. ContinueIf(TRUE, t)  BY <1>2 DEF ContinueIf
  <2>2. level = 0 => Clean'  BY <1>1, <1>2 DEF Clean, queues, network
  <2> QED  BY <1>2, <2>1, <2>2, PhaseEnds
<1>3. Outside \ {"enter"} = {"start", "send", "maintain", "ride", "rollback", "entered"}
  BY DEF Outside
<1>4. CASE start_skipped(t)  BY <1>2, <1>3, <1>4 DEF start_skipped
<1>5. CASE maintain_ends(t)  BY <1>2, <1>3, <1>5 DEF maintain_ends
<1>6. CASE ride(t)  BY <1>2, <1>3, <1>6 DEF ride
<1>7. CASE rollback_skipped(t)  BY <1>2, <1>3, <1>7 DEF rollback_skipped
<1>8. CASE execute_enqueued(t)  BY <1>2, <1>3, <1>8 DEF execute_enqueued
<1>9. CASE maintain_enqueued(t)  BY <1>2, <1>3, <1>9 DEF maintain_enqueued
<1>10. CASE start_enqueued(t)  BY <1>10, SyncBecomes DEF start_enqueued
<1>11. CASE rollback_enqueued(t)  BY <1>11, SyncBecomes DEF rollback_enqueued
<1>12. CASE transmit(t)
  <2>1. At(t, "communicate") /\ UNCHANGED <<level, todo>>  BY <1>12 DEF transmit
  <2>2. level > 0
    <3>1. "communicate" \in PipedOps  BY DEF PipedOps
    <3> QED  BY <2>1, <3>1, InPipeline
  <2>3. Op(todo[t], 1) = "communicate"  BY <1>1, <2>1, OpHead
  <2>4. Synced => Synced'  BY <1>12, SyncedSent
  <2>5. Leaving(t)'
    <3>1. todo'[t] = todo[t]  BY <2>1
    <3>2. Op(todo[t], 2) = "exit_fetch" => Synced  BY <1>1, <2>3 DEF Leaving
    <3> QED  BY <2>3, <2>4, <3>1, <3>2 DEF Leaving
  <2>6. Ordered(todo'[t]) /\ Piped(todo'[t], level')  BY <2>1 DEF LeaveInv, InOrder
  <2>7. level' \in Nat /\ level' # 0  BY <1>1, <2>1, <2>2
  <2> QED  BY <2>5, <2>6, <2>7, LeaveNext
<1>13. CASE receive(t)
  <2>1. PICK phase \in {"communicate", "fetch", "exit_fetch"} : At(t, phase)
    BY <1>13 DEF receive
  <2>2. UNCHANGED <<level, todo, commands>>  BY <1>13 DEF receive
  <2>3. level > 0
    <3>1. phase \in PipedOps  BY DEF PipedOps
    <3> QED  BY <2>1, <3>1, InPipeline
  <2>4. Op(todo[t], 1) = phase  BY <1>1, <2>1, OpHead
  <2>5. Synced => Synced'  BY <1>13, SyncedRead
  <2>6. Leaving(t)'
    <3>1. todo'[t] = todo[t] /\ commands' = commands  BY <2>2
    <3>2. /\ Op(todo[t], 1) = "communicate" /\ Op(todo[t], 2) = "exit_fetch" => Synced
          /\ Op(todo[t], 1) = "exit_fetch" => Synced /\ commands = <<>>
          /\ Op(todo[t], 1) # "leave"
      BY <1>1, <2>4 DEF Leaving
    <3> QED  BY <2>5, <3>1, <3>2 DEF Leaving
  <2>7. Ordered(todo'[t]) /\ Piped(todo'[t], level')  BY <2>2 DEF LeaveInv, InOrder
  <2>8. level' \in Nat /\ level' # 0  BY <1>1, <2>2, <2>3
  <2> QED  BY <2>6, <2>7, <2>8, LeaveNext
<1>14. CASE enters(t)
  <2>1. PICK phase \in {"enter", "entered"} : At(t, phase)  BY <1>14 DEF enters
  <2>2. level' = level + 1 /\ Continue(t, <<>>)  BY <1>14 DEF enters
  <2>3. ContinueIf(TRUE, t)  BY <2>2 DEF ContinueIf
  <2>4. Op(todo[t], 1) = phase /\ todo[t] # <<>>  BY <1>1, <2>1, OpHead
  <2>5. Entered(todo[t], level)
    <3>1. CASE phase = "enter"  BY <2>4, <3>1 DEF Entered
    <3>2. CASE phase = "entered"
      <4>1. "entered" \in PipedOps  BY DEF PipedOps
      <4>2. At(t, "entered")  BY <2>1, <3>2
      <4> QED  BY <4>1, <4>2, InPipeline DEF Entered
    <3> QED  BY <3>1, <3>2
  <2>6. level' \in Nat /\ level' > 0 /\ level' # 0 /\ Entered(todo[t], level')
    BY <1>1, <2>2 DEF Entered
  <2>7. phase \in Outside  BY DEF Outside
  <2>8. Ordered(todo'[t]) /\ Piped(todo'[t], level') /\ Leaving(t)'
    BY <1>1, <2>3, <2>4, <2>5, <2>6, <2>7, MovesOn
  <2> QED  BY <2>6, <2>8, LeaveNext
<1> QED
  BY <1>4, <1>5, <1>6, <1>7, <1>8, <1>9, <1>10, <1>11, <1>12, <1>13, <1>14, LeaveNow,
     ExitQueues, EnterSyncs, BatchEnds, Leaves DEF Step

LEMMA LeaveCorrect == ASSUME OneThread PROVE Spec => []LeaveInv
<1>1. Init => LeaveInv
  <2> SUFFICES ASSUME Init  PROVE LeaveInv
    OBVIOUS
  <2>1. /\ level = 0 /\ commands = <<>> /\ results = <<>> /\ wire = <<>>
        /\ ~server.aborted /\ todo = [t \in Threads |-> <<>>]
    BY DEF Init
  <2>2. ASSUME NEW t \in Threads  PROVE InOrder(t) /\ Leaving(t)
    <3>1. todo[t] = <<>>  BY <2>1
    <3>2. Op(<<>>, 1) = "none" /\ Ordered(<<>>) /\ Piped(<<>>, level)
      BY DEF Op, Ordered, Piped, Ops
    <3> QED  BY <3>1, <3>2 DEF InOrder, Leaving
  <2> QED  BY <2>1, <2>2 DEF LeaveInv, Clean
<1>2. QueuesInv /\ LeaveInv /\ [Next]_vars => LeaveInv'
  <2> SUFFICES ASSUME QueuesInv, LeaveInv, [Next]_vars  PROVE LeaveInv'
    OBVIOUS
  <2>1. CASE UNCHANGED vars
    BY <2>1 DEF vars, queues, network, LeaveInv, Clean, InOrder, Leaving, Synced
  <2>2. CASE Next  BY <2>2, LeaveCall, LeaveStep DEF Next
  <2> QED  BY <2>1, <2>2
<1> QED  BY <1>1, <1>2, QueuesCorrect, PTL DEF Spec

\* When the last pipeline is left, nothing remains to send or to read and the
\* server has left the aborted state, for any queries, failures and exceptions,
\* when one thread uses the connection (BasePipeline._exit).
THEOREM LeavesNothingCorrect == ASSUME OneThread PROVE Spec => []LeavesNothing
<1>1. LeaveInv => LeavesNothing  BY DEF LeaveInv, Clean, LeavesNothing
<1> QED  BY <1>1, LeaveCorrect, PTL

-----------------------------------------------------------------------------
(* The names given to statements.                                           *)

\* Only get() gives a name.
LEMMA SameIdx ==
  ASSUME NEW c, Sound(c), NEW x, NEW y
  PROVE  /\ [c EXCEPT !.counts = x].idx = c.idx
         /\ [c EXCEPT !.names = x].idx = c.idx
         /\ [c EXCEPT !.flush = x].idx = c.idx
         /\ [c EXCEPT !.counts = x, !.names = y].idx = c.idx
         /\ [c EXCEPT !.names = x, !.counts = y].idx = c.idx
         /\ [c EXCEPT !.names = x, !.flush = y].idx = c.idx
         /\ \A z : [c EXCEPT !.counts = x, !.names = y, !.flush = z].idx = c.idx
BY SoundParts DEF CacheType

LEMMA NextIdx ==
  ASSUME NEW c, Sound(c), NEW prep
  PROVE  NextName(c, prep).idx = IF prep = "SHOULD" THEN c.idx + 1 ELSE c.idx
BY SoundParts DEF NextName, CacheType

LEMMA AddIdx ==
  ASSUME NEW c, Sound(c), NEW q, NEW prep, NEW name
  PROVE  MaybeAdd(c, q, prep, name).idx = c.idx
<1> DEFINE r == MaybeAdd(c, q, prep, name)
<1>1. CASE q \in Keys(c.counts) /\ prep = "SHOULD"
  <2>1. r = [c EXCEPT !.counts = Delete(c.counts, q), !.names = Insert(c.names, q, name)]
    BY <1>1 DEF MaybeAdd, Promote, IsNew
  <2> QED  BY <2>1, SameIdx
<1>2. CASE q \in Keys(c.counts) /\ prep # "SHOULD"
  <2>1. r = [c EXCEPT !.counts = MoveToEnd(c.counts, q, Lookup(c.counts, q) + 1)]
    BY <1>2 DEF MaybeAdd, IsNew
  <2> QED  BY <2>1, SameIdx
<1>3. CASE q \in Keys(c.names) /\ q \notin Keys(c.counts)
  <2>1. r = [c EXCEPT !.names = MoveToEnd(c.names, q, Lookup(c.names, q))]
    BY <1>3 DEF MaybeAdd, IsNew
  <2> QED  BY <2>1, SameIdx
<1>4. CASE IsNew(c, q) /\ prep = "SHOULD"
  <2>1. r = [c EXCEPT !.names = Insert(c.names, q, name)]
    BY <1>4 DEF MaybeAdd, IsNew
  <2> QED  BY <2>1, SameIdx
<1>5. CASE IsNew(c, q) /\ prep # "SHOULD"
  <2>1. r = [c EXCEPT !.counts = Insert(c.counts, q, 1)]
    BY <1>5 DEF MaybeAdd, IsNew
  <2> QED  BY <2>1, SameIdx
<1> QED  BY <1>1, <1>2, <1>3, <1>4, <1>5 DEF IsNew

LEMMA ClearIdx ==
  ASSUME NEW c, Sound(c)
  PROVE  Clear(c).idx = c.idx
BY SameIdx DEF Clear

LEMMA ValidateIdx ==
  ASSUME NEW c, Sound(c), NEW q, NEW prep, NEW ok, NEW kind
  PROVE  Validate(c, q, prep, ok, kind).idx = c.idx
<1> DEFINE d == IF ShouldDiscard(c, prep, ok, kind) THEN Clear(c) ELSE c
           cleared == ShouldDiscard(c, prep, ok, kind) /\ c.names # <<>>
<1>1. Sound(d) /\ d.idx = c.idx  BY ClearSound, ClearIdx
<1>2. CASE cleared
  <2>1. ok  BY <1>2 DEF ShouldDiscard
  <2>2. Validate(c, q, prep, ok, kind) = d  BY <1>2, <2>1 DEF Validate
  <2> QED  BY <1>1, <2>2
<1>3. CASE ~cleared /\ ~ok
  <2>1. Validate(c, q, prep, ok, kind)
          = [d EXCEPT !.names = Delete(d.names, q), !.counts = Delete(d.counts, q)]
    BY <1>3 DEF Validate
  <2> HIDE DEF d
  <2> QED  BY <1>1, <2>1, SameIdx
<1>4. CASE ~cleared /\ ok
  <2>1. Validate(c, q, prep, ok, kind) = Rotate(d)  BY <1>4 DEF Validate
  <2> HIDE DEF d
  <2> DEFINE counts == IF Len(d.counts) > PreparedMax THEN Tail(d.counts) ELSE d.counts
             e == [d EXCEPT !.counts = counts]
  <2>2. d.counts \in Seq(Entry)  BY <1>1, SoundParts
  <2>3. counts \in Seq(Entry) /\ Within(counts, d.counts)
    <3>1. CASE Len(d.counts) > PreparedMax
      <4>1. d.counts # <<>>  BY <2>2, <3>1, CacheAssumption, EmptySeq
      <4> QED  BY <2>2, <3>1, <4>1, TailWithin
    <3>2. CASE ~(Len(d.counts) > PreparedMax)  BY <2>2, <3>2, SameWithin
    <3> QED  BY <3>1, <3>2
  <2> HIDE DEF counts
  <2>4. Sound(e) /\ e.idx = c.idx  BY <1>1, <2>3, CountsSound, SameIdx
  <2>5. Rotate(d) = EvictName(e)  BY DEF Rotate, counts
  <2> HIDE DEF e
  <2>6. EvictName(e).idx = e.idx  BY <2>4, SameIdx DEF EvictName
  <2> QED  BY <2>1, <2>4, <2>5, <2>6
<1> QED  BY <1>2, <1>3, <1>4

Given(n, idx) == n \in Nat /\ n < idx
NamesInv ==
  /\ seen \in Statuses
  /\ \A n \in server.statements : Given(n, cache.idx)
  /\ \A i \in 1..Len(commands) :
       commands[i].op = "prepare" => Given(commands[i].name, cache.idx)

LEMMA NamesNext ==
  ASSUME QueuesInv, NamesInv, seen' \in Statuses,
         cache'.idx \in Nat, cache'.idx >= cache.idx,
         \A n \in server'.statements : n \in server.statements \/ Given(n, cache'.idx),
         \/ UNCHANGED commands
         \/ commands # <<>> /\ commands' = Tail(commands)
         \/ \E cs \in Seq(CommandType) :
              /\ commands' = commands \o cs
              /\ \A i \in 1..Len(cs) : cs[i].op = "prepare" => Given(cs[i].name, cache'.idx)
  PROVE  NamesInv'
<1>1. cache.idx \in Nat /\ commands \in Seq(CommandType)
  BY SoundParts DEF QueuesInv, CacheInv, QueuesTyped
<1>2. \A n : Given(n, cache.idx) => Given(n, cache'.idx)  BY <1>1 DEF Given
<1>3. \A n \in server'.statements : Given(n, cache'.idx)  BY <1>2 DEF NamesInv
<1>4. \A i \in 1..Len(commands') :
        commands'[i].op = "prepare" => Given(commands'[i].name, cache'.idx)
  <2>1. CASE UNCHANGED commands  BY <1>2, <2>1 DEF NamesInv
  <2>2. ASSUME NEW cs \in Seq(CommandType), commands' = commands \o cs,
               \A i \in 1..Len(cs) : cs[i].op = "prepare" => Given(cs[i].name, cache'.idx)
        PROVE  \A i \in 1..Len(commands') :
                 commands'[i].op = "prepare" => Given(commands'[i].name, cache'.idx)
    <3> DEFINE n == Len(commands)
               m == Len(cs)
    <3>1. n \in Nat /\ m \in Nat  BY <1>1, SeqParts
    <3>2. /\ Len(commands') = n + m
          /\ \A i \in 1..(n + m) : commands'[i] = IF i <= n THEN commands[i] ELSE cs[i - n]
      BY <1>1, <2>2, ConcatProperties
    <3> HIDE DEF n, m
    <3> SUFFICES ASSUME NEW i \in 1..(n + m), commands'[i].op = "prepare"
                 PROVE  Given(commands'[i].name, cache'.idx)
      BY <3>2
    <3>3. CASE i <= n
      <4>1. i \in 1..n /\ commands'[i] = commands[i]  BY <3>1, <3>2, <3>3
      <4> QED  BY <4>1, <1>2 DEF NamesInv, n
    <3>4. CASE ~(i <= n)
      <4>1. PICK j \in 1..m : j = i - n  BY <3>1, <3>4
      <4>2. commands'[i] = cs[j]  BY <3>2, <3>4, <4>1
      <4> QED  BY <4>2, <2>2 DEF m
    <3> QED  BY <3>3, <3>4
  <2>3. ASSUME commands # <<>>, commands' = Tail(commands),
               NEW i \in 1..Len(commands'), commands'[i].op = "prepare"
        PROVE  Given(commands'[i].name, cache'.idx)
    <3>1. /\ Len(commands) \in Nat /\ Len(commands') = Len(commands) - 1
          /\ \A j \in 1..Len(commands') : commands'[j] = commands[j + 1]
      BY <1>1, <2>3, TailParts
    <3> DEFINE n == Len(commands)
    <3>2. n \in Nat /\ i \in 1..(n - 1)  BY <2>3, <3>1
    <3> HIDE DEF n
    <3>3. PICK j \in 1..n : j = i + 1  BY <3>2
    <3>4. commands'[i] = commands[j]  BY <2>3, <3>1, <3>3
    <3> QED  BY <2>3, <3>4, <1>2 DEF NamesInv, n
  <2> QED  BY <2>1, <2>2, <2>3
<1> QED  BY <1>3, <1>4 DEF NamesInv

\* Commands that prepare nothing.
LEMMA NoPrepare ==
  ASSUME NEW c, Sound(c)
  PROVE  /\ \A i \in 1..Len(Sync) : Sync[i].op = "sync"
         /\ LET cs == <<Simple("begin")>> \o Sync
            IN  Len(cs) = 2 /\ cs[1].op = "begin" /\ cs[2].op = "sync"
         /\ LET cs == CommitCommands
            IN  Len(cs) = 2 /\ cs[1].op = "commit" /\ cs[2].op = "sync"
         /\ \A i \in 1..Len(Deallocations(c)) : Deallocations(c)[i].op \in {"close", "deallocate all"}
         /\ LET cs == <<Simple("rollback")>> \o Deallocations(c) \o Sync
            IN  /\ \A i \in 1..Len(cs) : cs[i].op \in {"rollback", "close", "deallocate all", "sync"}
                /\ cs # <<>> /\ cs[Len(cs)].op = "sync"
<1>1. \A op : Simple(op).op = op  BY DEF Simple, Command
<1>2. \A n : Deallocate(n).op \in {"close", "deallocate all"}
  BY DEF Deallocate, Simple, Command
<1>3. /\ Simple("begin") \in CommandType /\ Simple("commit") \in CommandType
      /\ Simple("rollback") \in CommandType /\ Simple("sync") \in CommandType
  <2>1. "sync" \in CommandOps /\ "sync" \notin {"run", "run prepared"}  BY DEF CommandOps
  <2> QED  BY <2>1, SimpleTyped, CommandTypes
<1>4. Sync = <<Simple("sync")>>  BY DEF Sync
<1>5. \A i \in 1..Len(Sync) : Sync[i].op = "sync"  BY <1>1, <1>4
<1>6. LET cs == <<Simple("begin")>> \o Sync
      IN  Len(cs) = 2 /\ cs[1].op = "begin" /\ cs[2].op = "sync"
  <2> DEFINE p == <<Simple("begin")>> \o Sync
  <2>1. p = <<Simple("begin"), Simple("sync")>>  BY <1>3, <1>4, PairConcat
  <2> HIDE DEF p
  <2>2. Simple("begin").op = "begin" /\ Simple("sync").op = "sync"  BY <1>1
  <2>3. Len(p) = 2 /\ p[1].op = "begin" /\ p[2].op = "sync"  BY <2>1, <2>2
  <2> QED  BY <2>3 DEF p
<1>7. LET cs == CommitCommands
      IN  Len(cs) = 2 /\ cs[1].op = "commit" /\ cs[2].op = "sync"
  <2>1. CommitCommands = <<Simple("commit"), Simple("sync")>>
    BY <1>3, <1>4, PairConcat DEF CommitCommands
  <2> QED  BY <2>1, <1>1
<1> DEFINE D == Deallocations(c)
<1>8. /\ D \in Seq(CommandType)
      /\ \A i \in 1..Len(D) : D[i].op \in {"close", "deallocate all"}
  <2>1. Len(c.flush) \in Nat /\ DOMAIN c.flush = 1..Len(c.flush)
        /\ \A i \in 1..Len(c.flush) : c.flush[i] \in Int
    BY SoundParts, SeqParts
  <2>2. \A i \in 1..Len(c.flush) : Deallocate(c.flush[i]) \in CommandType
    BY <2>1, DeallocateTyped
  <2>3. D \in [1..Len(c.flush) -> CommandType] /\ \A i \in 1..Len(c.flush) : D[i] = Deallocate(c.flush[i])
    BY <2>1, <2>2 DEF Deallocations
  <2>4. D \in Seq(CommandType) /\ Len(D) = Len(c.flush)
    <3>1. D \in Seq(CommandType)  BY <2>1, <2>3, SeqDef
    <3>2. DOMAIN D = 1..Len(c.flush) /\ DOMAIN D = 1..Len(D) /\ Len(D) \in Nat
      BY <2>3, <3>1, LenProperties
    <3> QED  BY <2>1, <3>1, <3>2
  <2> QED  BY <1>2, <2>3, <2>4
<1> HIDE DEF D
<1> DEFINE R == <<Simple("rollback")>>
           cs == R \o D \o Sync
<1>9. /\ R \in Seq(CommandType) /\ Len(R) = 1 /\ R[1].op = "rollback"
      /\ Sync \in Seq(CommandType) /\ Len(Sync) = 1 /\ Sync[1].op = "sync"
  BY <1>1, <1>3, <1>4
<1> HIDE DEF R
<1>10. /\ \A i \in 1..Len(cs) : cs[i].op \in {"rollback", "close", "deallocate all", "sync"}
       /\ cs # <<>> /\ cs[Len(cs)].op = "sync"
  <2> DEFINE u == R \o D
             n == Len(D)
  <2>1. n \in Nat  BY <1>8, SeqParts
  <2>2. /\ u \in Seq(CommandType) /\ Len(u) = 1 + n
        /\ \A i \in 1..(1 + n) : u[i] = IF i <= 1 THEN R[i] ELSE D[i - 1]
    <3>1. /\ u \in Seq(CommandType) /\ Len(u) = Len(R) + Len(D)
          /\ \A i \in 1..(Len(R) + Len(D)) : u[i] = IF i <= Len(R) THEN R[i] ELSE D[i - Len(R)]
      BY <1>8, <1>9, ConcatProperties
    <3> HIDE DEF u
    <3> QED  BY <3>1, <1>9
  <2> HIDE DEF u
  <2>3. /\ cs \in Seq(CommandType) /\ Len(cs) = n + 2
        /\ \A i \in 1..(n + 2) : cs[i] = IF i <= n + 1 THEN u[i] ELSE Sync[i - (n + 1)]
    <3>1. cs = u \o Sync  BY DEF u
    <3>2. /\ cs \in Seq(CommandType) /\ Len(cs) = Len(u) + Len(Sync)
          /\ \A i \in 1..(Len(u) + Len(Sync)) :
               cs[i] = IF i <= Len(u) THEN u[i] ELSE Sync[i - Len(u)]
      BY <1>9, <2>2, <3>1, ConcatProperties
    <3> HIDE DEF cs
    <3>3. Len(u) + Len(Sync) = n + 2 /\ Len(u) = n + 1  BY <1>9, <2>1, <2>2
    <3> QED  BY <3>2, <3>3
  <2> HIDE DEF cs
  <2>4. ASSUME NEW i \in 1..(n + 2)
        PROVE  /\ cs[i].op \in {"rollback", "close", "deallocate all", "sync"}
               /\ i = n + 2 => cs[i].op = "sync"
    <3>1. CASE i = 1
      <4>1. cs[i] = R[1] /\ i # n + 2  BY <3>1, <2>1, <2>2, <2>3
      <4> QED  BY <4>1, <1>9
    <3>2. CASE i # 1 /\ i <= n + 1
      <4>1. PICK j \in 1..n : j = i - 1  BY <3>2, <2>1
      <4>2. cs[i] = D[j] /\ i # n + 2  BY <3>2, <4>1, <2>1, <2>2, <2>3
      <4> QED  BY <4>2, <1>8 DEF n
    <3>3. CASE i = n + 2
      <4>1. i - (n + 1) = 1 /\ ~(i <= n + 1)  BY <3>3, <2>1
      <4>2. cs[i] = Sync[i - (n + 1)]  BY <4>1, <2>3
      <4>3. cs[i] = Sync[1]  BY <4>1, <4>2
      <4> QED  BY <4>3, <1>9
    <3>4. i = 1 \/ (i # 1 /\ i <= n + 1) \/ i = n + 2
      <4> HIDE DEF n
      <4> QED  BY <2>1
    <3> QED  BY <3>1, <3>2, <3>3, <3>4
  <2>5. n + 2 \in 1..(n + 2)  BY <2>1
  <2>6. cs # <<>>
    <3>1. Len(cs) # 0  BY <2>1, <2>3
    <3> QED  BY <2>3, <3>1, EmptySeq
  <2> QED  BY <2>3, <2>4, <2>5, <2>6
<1> QED  BY <1>5, <1>6, <1>7, <1>8, <1>10 DEF D, R

\* The server has a statement more when a command prepares it.
LEMMA GivenAnswer ==
  ASSUME NEW s \in ServerType, NEW c \in CommandType, NEW a \in Answers(s, c)
  PROVE  /\ \A n \in a.server.statements : n \in s.statements \/ (c.op = "prepare" /\ n = c.name)
         /\ a.server.status \in Statuses
<1>1. a.server.statements \subseteq s.statements \cup (IF c.op = "prepare" THEN {c.name} ELSE {})
  BY AnswersStatements
<1>2. a.server \in ServerType  BY AnswersTyped
<1> QED  BY <1>1, <1>2 DEF ServerType

LEMMA NamesCall ==
  ASSUME QueuesInv, NamesInv, NEW t \in Threads, Call(t)
  PROVE  NamesInv'
<1>1. /\ Sound(cache) /\ cache.idx \in Nat /\ server \in ServerType /\ seen \in Statuses
  BY SoundParts DEF QueuesInv, CacheInv, NamesInv
<1>2. UNCHANGED cache  BY CallSound
<1>3. Sync \in Seq(CommandType) /\ CommitCommands \in Seq(CommandType)
  <2>1. Sync \in Seq(InternalType) /\ CommitCommands \in Seq(InternalType)
    BY <1>1, InternalCommands
  <2>2. InternalType \subseteq CommandType  BY DEF InternalType
  <2> QED  BY <2>1, <2>2
<1>4. ASSUME UNCHANGED <<server, seen, commands>>  PROVE NamesInv'
  BY <1>1, <1>2, <1>4, NamesNext
<1>5. ASSUME NEW cs \in Seq(CommandType), commands' = commands \o cs,
             \A i \in 1..Len(cs) : cs[i].op # "prepare", UNCHANGED <<server, seen>>
      PROVE  NamesInv'
  BY <1>1, <1>2, <1>5, NamesNext
<1>6. \A i \in 1..Len(Sync) : Sync[i].op # "prepare"  BY <1>1, NoPrepare
<1>7. CASE sync(t)
  BY <1>3, <1>5, <1>6, <1>7 DEF sync, network, EnqueueAll, Enqueue
<1>8. CASE commit_enqueued(t)
  <2> DEFINE cs == CommitCommands
  <2>1. Len(cs) = 2 /\ cs[1].op = "commit" /\ cs[2].op = "sync"  BY <1>1, NoPrepare
  <2> HIDE DEF cs
  <2>2. \A i \in 1..2 : i = 1 \/ i = 2  OBVIOUS
  <2>3. \A i \in 1..Len(cs) : cs[i].op # "prepare"  BY <2>1, <2>2
  <2>4. commands' = commands \o cs /\ UNCHANGED <<server, seen>>
    BY <1>8 DEF commit_enqueued, network, EnqueueAll, Enqueue, cs
  <2>5. cs \in Seq(CommandType)  BY <1>3 DEF cs
  <2> QED  BY <1>5, <2>3, <2>4, <2>5
<1>9. CASE rollback(t)
  <2>1. CASE UNCHANGED queues  BY <2>1, <1>4, <1>9 DEF rollback, network, queues
  <2>2. CASE EnqueueAll(Sync)
    BY <2>2, <1>3, <1>5, <1>6, <1>9 DEF rollback, network, EnqueueAll, Enqueue
  <2> QED  BY <1>9, <2>1, <2>2 DEF rollback
<1>10. CASE commit_now(t)
  <2>1. PICK a \in Answers(server, Simple("commit")) : Answered(a)  BY <1>10 DEF commit_now
  <2>2. /\ \A n \in a.server.statements :
             n \in server.statements \/ (Simple("commit").op = "prepare" /\ n = Simple("commit").name)
        /\ a.server.status \in Statuses
    BY <1>1, <2>1, CommandTypes, GivenAnswer
  <2>3. Simple("commit").op = "commit"  BY CommandOp
  <2>4. \A n \in server'.statements : n \in server.statements  BY <2>1, <2>2, <2>3 DEF Answered
  <2>5. seen' \in Statuses /\ UNCHANGED commands
    BY <1>10, <2>1, <2>2 DEF Answered, commit_now, queues
  <2> QED  BY <1>1, <1>2, <2>4, <2>5, NamesNext
<1> QED
  BY <1>4, <1>7, <1>8, <1>9, <1>10
  DEF Call, execute, executemany, enter, exit, fetch, network, queues

LEMMA NamesStep ==
  ASSUME QueuesInv, NamesInv, NEW t \in Threads, Step(t)
  PROVE  NamesInv'
<1>1. /\ Sound(cache) /\ cache.idx \in Nat /\ server \in ServerType /\ seen \in Statuses
      /\ TodoTyped /\ commands \in Seq(CommandType) /\ wire \in Seq(ResultType)
      /\ results \in Seq(SlotType)
  BY SoundParts DEF QueuesInv, CacheInv, NamesInv, QueuesTyped
<1>2. ASSUME UNCHANGED <<server, commands>>, seen' \in Statuses, cache'.idx = cache.idx
      PROVE NamesInv'
  BY <1>1, <1>2, NamesNext
<1>3. ASSUME NEW cs, cs \in Seq(InternalType), commands' = commands \o cs,
             \A i \in 1..Len(cs) : cs[i].op # "prepare", UNCHANGED <<server, seen>>,
             cache'.idx = cache.idx
      PROVE  NamesInv'
  <2>1. InternalType \subseteq CommandType  BY DEF InternalType
  <2>2. cs \in Seq(CommandType)  BY <1>3, <2>1
  <2>3. cache'.idx \in Nat /\ cache'.idx >= cache.idx  BY <1>1, <1>3
  <2>4. \A i \in 1..Len(cs) : cs[i].op = "prepare" => Given(cs[i].name, cache'.idx)
    BY <1>3
  <2>5. seen' \in Statuses /\ server' = server  BY <1>1, <1>3
  <2> QED  BY <1>3, <2>2, <2>3, <2>4, <2>5, NamesNext
<1>4. ASSUME NEW s \in ServerType, \A n \in s.statements : n \in server.statements \/ Given(n, cache'.idx),
             NEW c \in CommandType, c.op # "prepare", NEW a \in Answers(s, c), Answered(a),
             cache'.idx \in Nat, cache'.idx >= cache.idx, UNCHANGED commands
      PROVE  NamesInv'
  <2>1. /\ \A n \in a.server.statements : n \in s.statements
        /\ a.server.status \in Statuses
    BY <1>4, GivenAnswer
  <2>2. \A n \in server'.statements : n \in server.statements \/ Given(n, cache'.idx)
    BY <1>4, <2>1 DEF Answered
  <2>3. seen' \in Statuses  BY <1>4, <2>1 DEF Answered
  <2> QED  BY <1>1, <1>4, <2>2, <2>3, NamesNext
<1>5. cache.idx >= cache.idx  BY <1>1
<1>6. CASE start_now(t)
  <2>1. PICK a \in Answers(server, Simple("begin")) : Answered(a)  BY <1>6 DEF start_now
  <2>2. UNCHANGED <<cache, commands>>  BY <1>6 DEF start_now, queues
  <2>3. Simple("begin").op # "prepare"
    <3>1. Simple("begin").op = "begin"  BY CommandOp
    <3> QED  BY <3>1
  <2> QED  BY <1>1, <1>4, <1>5, <2>1, <2>2, <2>3, CommandTypes
<1>7. CASE rollback_now(t)
  <2>1. PICK a \in Answers(server, Simple("rollback")) : Answered(a)  BY <1>7 DEF rollback_now
  <2>2. cache' = Clear(cache) /\ UNCHANGED commands  BY <1>7 DEF rollback_now, queues
  <2>3. Simple("rollback").op # "prepare"
    <3>1. Simple("rollback").op = "rollback"  BY CommandOp
    <3> QED  BY <3>1
  <2>4. cache'.idx = cache.idx  BY <1>1, <2>2, ClearIdx
  <2> QED  BY <1>1, <1>4, <1>5, <2>1, <2>2, <2>3, <2>4, CommandTypes
<1>8. CASE maintain_now(t)
  <2>1. cache.flush \in Seq(Int) /\ cache.flush # <<>>
    BY <1>1, <1>8, SoundParts DEF maintain_now
  <2> DEFINE c == Deallocate(Head(cache.flush))
  <2>2. c \in CommandType /\ c.op \in {"close", "deallocate all"}
    <3>1. c \in CommandType  BY <2>1, HeadTailProperties, DeallocateTyped
    <3>2. c.op \in {"close", "deallocate all"}  BY DEF Deallocate, Simple, Command
    <3> QED  BY <3>1, <3>2
  <2>3. PICK a \in Answers(server, c) : Answered(a)  BY <1>8 DEF maintain_now
  <2>4. cache' = [cache EXCEPT !.flush = Tail(cache.flush)] /\ UNCHANGED commands
    BY <1>8 DEF maintain_now, queues
  <2>5. cache'.idx = cache.idx  BY <1>1, <2>4, SameIdx
  <2> HIDE DEF c
  <2>6. c.op # "prepare"  BY <2>2
  <2> QED  BY <1>1, <1>4, <1>5, <2>2, <2>3, <2>4, <2>5, <2>6
<1>9. CASE transmit(t)
  <2> DEFINE c == Head(commands)
  <2>1. commands # <<>> /\ commands' = Tail(commands) /\ UNCHANGED <<cache, seen>>
    BY <1>9 DEF transmit
  <2>2. PICK a \in Answers(server, c) : server' = a.server  BY <1>9 DEF transmit
  <2>3. c \in CommandType /\ c = commands[1] /\ 1 \in 1..Len(commands)
    BY <1>1, <2>1, TailParts, HeadTailProperties
  <2> HIDE DEF c
  <2>4. c.op = "prepare" => Given(c.name, cache.idx)  BY <2>3 DEF NamesInv
  <2>5. \A n \in server'.statements : n \in server.statements \/ Given(n, cache'.idx)
    BY <1>1, <2>1, <2>2, <2>3, <2>4, GivenAnswer
  <2> QED  BY <1>1, <1>5, <2>1, <2>5, NamesNext
<1> DEFINE q == Head(todo[t]).query
           got == Get(cache, q, Head(todo[t]).prepare)
<1>10. At(t, "send") => q \in Queries  BY <1>1, AtPhase
<1>11. /\ got.prep \in {"NO", "YES", "SHOULD"} /\ got.name \in Int
       /\ got.prep = "SHOULD" => got.name = cache.idx
  BY <1>1, GetTypes
<1>12. At(t, "send") =>
         LET cs == PrepareCommands(q, got) \o <<RunCommand(q, got)>>
         IN  /\ PrepareCommand(q, got) \in CommandType /\ RunCommand(q, got) \in CommandType
             /\ cs \in Seq(CommandType)
  BY <1>1, <1>10, ExecuteCommands
<1>13. PrepareCommand(q, got).op = "prepare" /\ PrepareCommand(q, got).name = got.name
       /\ RunCommand(q, got).op # "prepare"
  BY DEF PrepareCommand, RunCommand, Command
<1>14. NextName(cache, got.prep).idx = IF got.prep = "SHOULD" THEN cache.idx + 1 ELSE cache.idx
  BY <1>1, NextIdx
<1>15. MaybeAdd(NextName(cache, got.prep), q, got.prep, got.name).idx
         = NextName(cache, got.prep).idx
  BY <1>1, NextNameSound, AddIdx
<1>16. At(t, "send") => Sound(MaybeAdd(NextName(cache, got.prep), q, got.prep, got.name))
  BY <1>1, <1>10, AddSound
<1> HIDE DEF got, q
<1>17. got.prep = "SHOULD" => Given(got.name, cache.idx + 1)
  BY <1>1, <1>11 DEF Given
<1>18. CASE prepare_fails(t)
  <2>1. At(t, "send") /\ got.prep = "SHOULD" /\ UNCHANGED commands
        /\ cache' = NextName(cache, got.prep)
    BY <1>18 DEF prepare_fails, queues, got, q
  <2>2. PICK a \in Answers(server, PrepareCommand(q, got)) : Answered(a)
    BY <1>18 DEF prepare_fails, got, q
  <2>3. cache'.idx = cache.idx + 1  BY <1>14, <2>1
  <2>4. \A n \in server'.statements : n \in server.statements \/ Given(n, cache'.idx)
    <3>1. PrepareCommand(q, got) \in CommandType  BY <1>12, <2>1
    <3>2. \A n \in a.server.statements : n \in server.statements \/ n = got.name
      BY <1>1, <1>13, <3>1, GivenAnswer
    <3> QED  BY <1>17, <2>1, <2>2, <2>3, <3>2 DEF Answered
  <2>5. seen' \in Statuses
    <3>1. PrepareCommand(q, got) \in CommandType  BY <1>12, <2>1
    <3> QED  BY <1>1, <2>2, <3>1, GivenAnswer DEF Answered
  <2>6. cache'.idx \in Nat /\ cache'.idx >= cache.idx  BY <1>1, <2>3
  <2> QED  BY <2>1, <2>4, <2>5, <2>6, NamesNext
<1>19. CASE execute_now(t)
  <2> DEFINE added == MaybeAdd(NextName(cache, got.prep), q, got.prep, got.name)
             prepared == {a \in Answers(server, PrepareCommand(q, got)) : a.status = "OK"}
             bases == IF got.prep = "SHOULD" THEN {a.server : a \in prepared} ELSE {server}
  <2>1. At(t, "send") /\ UNCHANGED commands  BY <1>19 DEF execute_now, queues
  <2>2. PICK s \in bases : \E a \in Answers(s, RunCommand(q, got)) :
          /\ Answered(a)
          /\ cache' = IF IsNew(cache, q)
                      THEN Validate(added, q, got.prep, a.status = "OK", Kind[q]) ELSE added
    BY <1>19 DEF execute_now, got, q
  <2>3. /\ PrepareCommand(q, got) \in CommandType /\ RunCommand(q, got) \in CommandType
        /\ Sound(added)
        /\ added.idx = IF got.prep = "SHOULD" THEN cache.idx + 1 ELSE cache.idx
    BY <1>12, <1>14, <1>15, <1>16, <2>1
  <2> HIDE DEF added
  <2>4. PICK a \in Answers(s, RunCommand(q, got)) :
          /\ Answered(a)
          /\ cache' = IF IsNew(cache, q)
                      THEN Validate(added, q, got.prep, a.status = "OK", Kind[q]) ELSE added
    BY <2>2
  <2>5. cache'.idx = added.idx  BY <2>3, <2>4, ValidateIdx
  <2>6. cache'.idx \in Nat /\ cache'.idx >= cache.idx  BY <1>1, <2>3, <2>5
  <2>7. s \in ServerType /\ \A n \in s.statements : n \in server.statements \/ Given(n, cache'.idx)
    <3>1. CASE got.prep = "SHOULD"
      <4>1. PICK b \in Answers(server, PrepareCommand(q, got)) : s = b.server
        BY <2>2, <3>1
      <4>2. \A n \in b.server.statements : n \in server.statements \/ n = got.name
        BY <1>1, <1>13, <2>3, GivenAnswer
      <4>3. b.server \in ServerType  BY <1>1, <2>3, AnswersTyped
      <4>4. cache'.idx = cache.idx + 1  BY <2>3, <2>5, <3>1
      <4> QED  BY <1>17, <3>1, <4>1, <4>2, <4>3, <4>4
    <3>2. CASE got.prep # "SHOULD"
      <4>1. s = server  BY <2>2, <3>2
      <4> QED  BY <1>1, <4>1
    <3> QED  BY <3>1, <3>2
  <2> HIDE DEF bases
  <2> QED  BY <1>4, <1>13, <2>1, <2>3, <2>4, <2>6, <2>7
<1>20. CASE execute_enqueued(t)
  <2> DEFINE cs == PrepareCommands(q, got) \o <<RunCommand(q, got)>>
  <2>1. /\ At(t, "send") /\ commands' = commands \o cs /\ UNCHANGED <<server, seen>>
        /\ cache' = MaybeAdd(NextName(cache, got.prep), q, got.prep, got.name)
    BY <1>20 DEF execute_enqueued, Enqueue, network, got, q
  <2>2. cache'.idx = IF got.prep = "SHOULD" THEN cache.idx + 1 ELSE cache.idx
    BY <1>14, <1>15, <2>1
  <2>3. /\ cs \in Seq(CommandType)
        /\ PrepareCommand(q, got) \in CommandType /\ RunCommand(q, got) \in CommandType
    BY <1>12, <2>1
  <2>4. \A i \in 1..Len(cs) : cs[i].op = "prepare" => Given(cs[i].name, cache'.idx)
    <3>1. CASE got.prep = "SHOULD"
      <4>1. PrepareCommands(q, got) = <<PrepareCommand(q, got)>>  BY <3>1 DEF PrepareCommands
      <4>2. cs = <<PrepareCommand(q, got), RunCommand(q, got)>>  BY <2>3, <4>1, PairConcat
      <4>3. cache'.idx = cache.idx + 1  BY <2>2, <3>1
      <4> HIDE DEF cs
      <4>4. Len(cs) = 2 /\ cs[1].op = "prepare" /\ cs[1].name = got.name /\ cs[2].op # "prepare"
        BY <1>13, <4>2
      <4>5. \A i \in 1..2 : i = 1 \/ i = 2  OBVIOUS
      <4> QED  BY <1>17, <3>1, <4>3, <4>4, <4>5
    <3>2. CASE got.prep # "SHOULD"
      <4>1. PrepareCommands(q, got) = <<>>  BY <3>2 DEF PrepareCommands
      <4>2. cs = <<RunCommand(q, got)>>  BY <2>3, <4>1
      <4> HIDE DEF cs
      <4>3. Len(cs) = 1 /\ cs[1].op # "prepare"  BY <1>13, <4>2
      <4> QED  BY <4>3
    <3> QED  BY <3>1, <3>2
  <2> HIDE DEF cs
  <2>5. cache'.idx \in Nat /\ cache'.idx >= cache.idx  BY <1>1, <2>2
  <2> QED  BY <1>1, <2>1, <2>3, <2>4, <2>5, NamesNext
<1>21. CASE maintain_enqueued(t)
  <2> DEFINE cs == Deallocations(cache)
  <2>1. cs \in Seq(InternalType)  BY <1>1, InternalCommands
  <2>2. \A i \in 1..Len(cs) : cs[i].op # "prepare"  BY <1>1, NoPrepare
  <2>3. commands' = commands \o cs /\ UNCHANGED <<server, seen>>
        /\ cache' = [cache EXCEPT !.flush = <<>>]
    BY <1>21 DEF maintain_enqueued, EnqueueAll, Enqueue, network
  <2>4. cache'.idx = cache.idx  BY <1>1, <2>3, SameIdx
  <2> HIDE DEF cs
  <2> QED  BY <1>3, <2>1, <2>2, <2>3, <2>4
<1>22. CASE rollback_enqueued(t)
  <2> DEFINE c == Clear(cache)
             cs == <<Simple("rollback")>> \o Deallocations(c) \o Sync
  <2>1. Sound(c) /\ c.idx = cache.idx  BY <1>1, ClearSound, ClearIdx
  <2>2. commands' = commands \o cs /\ UNCHANGED <<server, seen>>
        /\ cache' = [c EXCEPT !.flush = <<>>]
    BY <1>22 DEF rollback_enqueued, EnqueueAll, Enqueue, network
  <2> HIDE DEF c
  <2>3. cs \in Seq(InternalType)  BY <2>1, InternalCommands
  <2>4. \A i \in 1..Len(cs) : cs[i].op \in {"rollback", "close", "deallocate all", "sync"}
    BY <2>1, NoPrepare
  <2> HIDE DEF cs
  <2>5. \A i \in 1..Len(cs) : cs[i].op # "prepare"  BY <2>4
  <2>6. cache'.idx = cache.idx  BY <2>1, <2>2, SameIdx
  <2> QED  BY <1>3, <2>2, <2>3, <2>5, <2>6
<1>23. CASE start_enqueued(t)
  <2> DEFINE cs == <<Simple("begin")>> \o Sync
  <2>1. cs \in Seq(InternalType)  BY <1>1, InternalCommands
  <2>2. Len(cs) = 2 /\ cs[1].op = "begin" /\ cs[2].op = "sync"  BY <1>1, NoPrepare
  <2>3. commands' = commands \o cs /\ UNCHANGED <<server, seen, cache>>
    BY <1>23 DEF start_enqueued, EnqueueAll, Enqueue, network
  <2> HIDE DEF cs
  <2>4. \A i \in 1..2 : i = 1 \/ i = 2  OBVIOUS
  <2>5. \A i \in 1..Len(cs) : cs[i].op # "prepare"  BY <2>2, <2>4
  <2> QED  BY <1>3, <2>1, <2>3, <2>5
<1>24. CASE enter_syncs(t) \/ exit_gen(t)
  <2>1. Sync \in Seq(InternalType)  BY <1>1, InternalCommands
  <2>2. commands' = commands \o Sync /\ UNCHANGED <<server, seen, cache>>
    BY <1>24 DEF enter_syncs, exit_gen, EnqueueAll, Enqueue, network
  <2>3. \A i \in 1..Len(Sync) : Sync[i].op # "prepare"  BY <1>1, NoPrepare
  <2> QED  BY <1>3, <2>1, <2>2, <2>3
<1>25. CASE receive(t)
  <2>1. /\ wire # <<>> /\ UNCHANGED <<server, commands>>
        /\ seen' = IF Head(wire).status = "SYNC" THEN Head(wire).tx ELSE seen
    BY <1>25 DEF receive
  <2>2. PICK ok : cache' = IF Head(results).new
                           THEN Validate(cache, Head(results).query, Head(results).prep,
                                         ok, Kind[Head(results).query])
                           ELSE cache
    BY <1>25 DEF receive
  <2>3. cache'.idx = cache.idx  BY <1>1, <2>2, ValidateIdx
  <2>4. Head(wire) \in ResultType  BY <1>1, <2>1, HeadTailProperties
  <2>5. seen' \in Statuses  BY <1>1, <2>1, <2>4 DEF ResultType
  <2> QED  BY <1>2, <2>1, <2>3, <2>5
<1>26. CASE UNCHANGED <<server, commands, seen, cache>>
  BY <1>1, <1>2, <1>26
<1> QED
  BY <1>6, <1>7, <1>8, <1>9, <1>18, <1>19, <1>20, <1>21, <1>22, <1>23, <1>24, <1>25, <1>26
  DEF Step, start_skipped, maintain_ends, batch_ends, ride, enters, leave, rollback_skipped,
      queues, network

LEMMA NamesCorrect == Spec => []NamesInv
<1>1. Init => NamesInv
  <2> SUFFICES ASSUME Init  PROVE NamesInv
    OBVIOUS
  <2>1. server.statements = {} /\ seen = "IDLE" /\ commands = <<>>  BY DEF Init
  <2>2. Len(commands) = 0  BY <2>1
  <2> QED  BY <2>1, <2>2 DEF NamesInv, Statuses
<1>2. QueuesInv /\ NamesInv /\ [Next]_vars => NamesInv'
  <2> SUFFICES ASSUME QueuesInv, NamesInv, [Next]_vars  PROVE NamesInv'
    OBVIOUS
  <2>1. CASE UNCHANGED vars  BY <2>1 DEF vars, queues, network, NamesInv
  <2>2. CASE Next  BY <2>2, NamesCall, NamesStep DEF Next
  <2> QED  BY <2>1, <2>2
<1> QED  BY <1>1, <1>2, QueuesCorrect, PTL DEF Spec

\* The types of the queues, of the cache and of the server; pipelines are left
\* as often as they are entered, and the server has no statement of a name that
\* was not given yet, for one thread (BasePipeline, PrepareManager).
THEOREM TypeOKCorrect == ASSUME OneThread PROVE Spec => []TypeOK
<1>1. QueuesInv /\ LeaveInv /\ NamesInv => TypeOK
  <2> SUFFICES ASSUME QueuesInv, LeaveInv, NamesInv  PROVE TypeOK
    OBVIOUS
  <2>1. cache.idx \in Nat /\ level \in Nat
    BY SoundParts DEF QueuesInv, CacheInv, LeaveInv
  <2>2. Keys(cache.counts) \cup Keys(cache.names) \subseteq Queries
    <3>1. cache.counts \in Seq(Entry) /\ cache.names \in Seq(Entry)
      BY SoundParts DEF QueuesInv, CacheInv
    <3>2. ASSUME NEW d \in Seq(Entry)  PROVE Keys(d) \subseteq Queries
      <4>1. \A i \in DOMAIN d : d[i] \in Entry  BY <3>2, SeqParts
      <4>2. \A i \in DOMAIN d : d[i].key \in Queries  BY <4>1 DEF Entry
      <4> QED  BY <4>2 DEF Keys
    <3> QED  BY <3>1, <3>2
  <2>3. \A i \in DOMAIN results : results[i].query \in Queries \cup {NoQuery}
    <3>1. results \in Seq(SlotType)  BY DEF QueuesInv, QueuesTyped
    <3>2. \A i \in DOMAIN results : results[i] \in SlotType  BY <3>1, SeqParts
    <3> QED  BY <3>2 DEF SlotType, AnyQuery
  <2>4. server.statements \subseteq 0..(cache.idx - 1)
    BY <2>1 DEF NamesInv, Given
  <2>5. {server.status, seen} \subseteq {"IDLE", "INTRANS", "INERROR"}
    BY DEF NamesInv, QueuesInv, ServerType, Statuses
  <2> QED  BY <2>1, <2>2, <2>3, <2>4, <2>5 DEF TypeOK
<1> QED  BY <1>1, QueuesCorrect, LeaveCorrect, NamesCorrect, PTL

-----------------------------------------------------------------------------
(* Queries run in transactions.                                             *)

\* Under these, see InTransaction.
Hyp == ~autocommit /\ ~past.skipped /\ "rollback" \notin {Kind[x] : x \in Queries}

Open == server.status # "IDLE"
Ending == {"commit", "rollback"}
NoQueries == \A i \in 1..Len(commands) : Owner(commands[i]) = NoQuery

\* Nothing that was not read yet ends or begins a transaction.
Calm ==
  /\ \A i \in 1..Len(commands) : commands[i].op \notin Ending \cup {"sync", "begin"}
  /\ \A i \in 1..Len(wire) : wire[i].status # "SYNC"
  /\ seen # "IDLE" \/ wire # <<>> => Open
Steady(t) ==
  LET T == todo[t]
  IN  /\ Calm
      /\ Op(T, 1) \in {"send", "communicate"} => Open
      /\ Op(T, 1) = "communicate" \/ NoQueries

\* All is sent and read, up to a Sync.
Draining(t) ==
  LET T == todo[t]
  IN  /\ Synced /\ NoQueries
      /\ \/ Op(T, 1) = "communicate" /\ Op(T, 2) \in {"fetch", "exit_fetch"}
         \/ Op(T, 1) \in {"fetch", "exit_fetch", "leave"} /\ commands = <<>>

\* A query waits for BEGIN, ...
Beginning(t) ==
  LET T == todo[t]
  IN  \/ Op(T, 1) = "communicate" /\ Op(T, 2) = "fetch" /\ Op(T, 3) = "send"
      \/ Op(T, 1) = "fetch" /\ Op(T, 2) = "send"

\* ... that succeeds, or an exception is raised.
Begun ==
  /\ \A i \in 1..Len(commands) : commands[i].op \notin Ending
  /\ \/ Open \/ raised
     \/ \E i \in 1..Len(wire) : wire[i].status \in {"ERROR", "ABORTED"}
     \/ Len(commands) >= 2 /\ commands[Len(commands) - 1].op = "begin"

Held(t) == /\ Steady(t) \/ Draining(t)
           /\ Beginning(t) => Draining(t) /\ Begun
TransInv == Hyp => \A t \in Threads : Held(t)

LEMMA TransNext ==
  ASSUME OneThread, NEW t \in Threads, Hyp' => Held(t)'
  PROVE  TransInv'
<1>1. ASSUME Hyp', NEW u \in Threads  PROVE Held(u)'
  <2>1. u = t  BY DEF OneThread
  <2> QED  BY <1>1, <2>1
<1> QED  BY <1>1 DEF TransInv

\* Elements of sequences after the operations on the queues.
LEMMA TailElements ==
  ASSUME NEW S, NEW s \in Seq(S), s # <<>>, NEW j \in 1..Len(Tail(s))
  PROVE  \E i \in 1..Len(s) : Tail(s)[j] = s[i]
<1> DEFINE n == Len(s)
           r == Tail(s)
<1>1. /\ n \in Nat /\ n >= 1 /\ Len(r) = n - 1
      /\ \A k \in 1..(n - 1) : r[k] = s[k + 1]
  BY TailParts
<1> HIDE DEF n, r
<1>2. j \in 1..(n - 1)  BY <1>1 DEF r
<1>3. PICK i \in 1..n : i = j + 1  BY <1>1, <1>2
<1>4. r[j] = s[i]  BY <1>1, <1>2, <1>3
<1> QED  BY <1>4 DEF n, r

LEMMA ConcatElements ==
  ASSUME NEW S, NEW u \in Seq(S), NEW v \in Seq(S), NEW j \in 1..Len(u \o v)
  PROVE  \/ \E i \in 1..Len(u) : (u \o v)[j] = u[i]
         \/ \E i \in 1..Len(v) : (u \o v)[j] = v[i]
<1> DEFINE n == Len(u)
           m == Len(v)
           r == u \o v
<1>1. /\ n \in Nat /\ m \in Nat /\ Len(r) = n + m
      /\ \A i \in 1..(n + m) : r[i] = IF i <= n THEN u[i] ELSE v[i - n]
  BY ConcatProperties, SeqParts
<1> HIDE DEF n, m, r
<1>2. j \in 1..(n + m)  BY <1>1 DEF r
<1>3. CASE j <= n
  <2>1. j \in 1..n /\ r[j] = u[j]  BY <1>1, <1>2, <1>3
  <2> QED  BY <2>1 DEF n, r
<1>4. CASE ~(j <= n)
  <2>1. PICK i \in 1..m : i = j - n  BY <1>1, <1>2, <1>4
  <2>2. r[j] = v[i]  BY <1>1, <1>2, <1>4, <2>1
  <2> QED  BY <2>2 DEF m, r
<1> QED  BY <1>3, <1>4

\* The program's exceptions and pipelines: what may change of the hypothesis.
LEMMA HypKept ==
  ASSUME [Next]_vars, Hyp', PastTyped
  PROVE  Hyp \/ \E t \in Threads : leave(t)
<1>1. autocommit' = autocommit
  BY DEF vars, Next, Call, execute, executemany, enter, exit, sync, fetch, commit_now,
         commit_enqueued, rollback, Step, start_skipped, start_now, start_enqueued,
         prepare_fails, execute_now, execute_enqueued, maintain_ends, maintain_now,
         maintain_enqueued, transmit, receive, batch_ends, ride, enter_syncs, enters,
         exit_gen, leave, rollback_skipped, rollback_now, rollback_enqueued
<1>2. past \in [piped : BOOLEAN, skipped : BOOLEAN]  BY DEF PastTyped
<1>3. ASSUME NEW t \in Threads, batch_ends(t)  PROVE past'.skipped = (past.skipped \/ (raised /\ wire # <<>>))
  BY <1>2, <1>3 DEF batch_ends
<1>5. ASSUME NEW t \in Threads, Call(t)  PROVE past'.skipped = past.skipped
  <2>1. past' = past \/ past' = [past EXCEPT !.piped = TRUE]
    BY <1>5 DEF Call, execute, executemany, PipelineUsed, enter, exit, sync, fetch,
                commit_now, commit_enqueued, rollback
  <2> QED  BY <1>2, <2>1
<1>6. ASSUME NEW t \in Threads, Step(t)
      PROVE  past' = past \/ batch_ends(t) \/ leave(t)
  BY <1>6 DEF Step, start_skipped, start_now, start_enqueued, prepare_fails, execute_now,
      execute_enqueued, maintain_ends, maintain_now, maintain_enqueued, transmit, receive,
      ride, enter_syncs, enters, exit_gen, rollback_skipped, rollback_now, rollback_enqueued
<1>7. past'.skipped => past'.skipped  OBVIOUS
<1>8. UNCHANGED vars => past' = past  BY DEF vars
<1>9. (past'.skipped = past.skipped) \/ (past.skipped => past'.skipped) \/ \E t \in Threads : leave(t)
  BY <1>3, <1>5, <1>6, <1>8 DEF Next
<1> QED  BY <1>1, <1>9 DEF Hyp

\* What a phase leaves.
LEMMA HeldSteady ==
  ASSUME NEW t \in Threads, Calm', Op(todo'[t], 1) \in {"send", "communicate"} => Open',
         Op(todo'[t], 1) = "communicate" \/ NoQueries', ~Beginning(t)'
  PROVE  Held(t)'
BY DEF Held, Steady

LEMMA HeldDraining ==
  ASSUME NEW t \in Threads, Draining(t)', Beginning(t)' => Begun'
  PROVE  Held(t)'
BY DEF Held

LEMMA NotBeginning ==
  ASSUME NEW t \in Threads,
         LET X == todo'[t]
         IN  \/ Op(X, 1) \notin {"communicate", "fetch"}
             \/ Op(X, 1) = "communicate" /\ (Op(X, 2) # "fetch" \/ Op(X, 3) # "send")
             \/ Op(X, 1) = "fetch" /\ Op(X, 2) # "send"
  PROVE  ~Beginning(t)'
BY DEF Beginning

\* The phases at which some result may be missing.
LEMMA HeadSteady ==
  ASSUME NEW t \in Threads, Held(t),
         Op(todo[t], 1) \notin {"communicate", "fetch", "exit_fetch", "leave"}
  PROVE  Calm /\ NoQueries /\ (Op(todo[t], 1) = "send" => Open)
BY DEF Held, Steady, Draining

LEMMA CalmKept ==
  ASSUME Calm, UNCHANGED <<queues, network>>
  PROVE  Calm' /\ (NoQueries => NoQueries') /\ (Open => Open')
<1>1. commands' = commands /\ wire' = wire /\ server' = server /\ seen' = seen
  BY DEF queues, network
<1> QED  BY <1>1 DEF Calm, NoQueries, Open

\* Commands are queued.
LEMMA AddedCommands ==
  ASSUME QueuesTyped, NEW cs \in Seq(CommandType), commands' = commands \o cs,
         NEW j \in 1..Len(commands')
  PROVE  \/ \E i \in 1..Len(commands) : commands'[j] = commands[i]
         \/ \E i \in 1..Len(cs) : commands'[j] = cs[i]
<1>1. /\ commands \in Seq(CommandType) /\ cs \in Seq(CommandType)
      /\ j \in 1..Len(commands \o cs)
  BY DEF QueuesTyped
<1>2. \/ \E i \in 1..Len(commands) : (commands \o cs)[j] = commands[i]
      \/ \E i \in 1..Len(cs) : (commands \o cs)[j] = cs[i]
  BY <1>1, ConcatElements
<1> QED  BY <1>2

LEMMA CalmAdded ==
  ASSUME QueuesTyped, Calm, UNCHANGED network, NEW cs \in Seq(CommandType),
         commands' = commands \o cs,
         \A i \in 1..Len(cs) : cs[i].op \notin Ending \cup {"sync", "begin"}
  PROVE  Calm' /\ (Open => Open')
<1>1. wire' = wire /\ server' = server /\ seen' = seen  BY DEF network
<1>2. ASSUME NEW j \in 1..Len(commands')
      PROVE  commands'[j].op \notin Ending \cup {"sync", "begin"}
  <2>1. \/ \E i \in 1..Len(commands) : commands'[j] = commands[i]
        \/ \E i \in 1..Len(cs) : commands'[j] = cs[i]
    BY <1>2, AddedCommands
  <2> QED  BY <2>1 DEF Calm
<1> QED  BY <1>1, <1>2 DEF Calm, Open

LEMMA NoQueriesAdded ==
  ASSUME QueuesTyped, NoQueries, NEW cs \in Seq(InternalType), commands' = commands \o cs
  PROVE  NoQueries' /\ cs \in Seq(CommandType)
<1>1. cs \in Seq(CommandType)
  <2>1. /\ cs \in [1..Len(cs) -> InternalType] /\ Len(cs) \in Nat
    BY LenProperties
  <2>2. InternalType \subseteq CommandType  BY DEF InternalType
  <2>3. cs \in [1..Len(cs) -> CommandType]  BY <2>1, <2>2
  <2> QED  BY <2>1, <2>3, SeqDef
<1>2. ASSUME NEW j \in 1..Len(commands')
      PROVE  Owner(commands'[j]) = NoQuery
  <2>2. \/ \E i \in 1..Len(commands) : commands'[j] = commands[i]
        \/ \E i \in 1..Len(cs) : commands'[j] = cs[i]
    BY <1>1, <1>2, AddedCommands
  <2>3. \A i \in 1..Len(cs) : cs[i] \in InternalType  BY SeqParts
  <2> QED  BY <2>2, <2>3 DEF NoQueries, InternalType
<1> QED  BY <1>1, <1>2 DEF NoQueries

\* A Sync is queued, and what waits for it follows.
LEMMA SyncHeld ==
  ASSUME QueuesTyped, NEW t \in Threads, NoQueries, NEW cs \in Seq(InternalType), cs # <<>>,
         cs[Len(cs)].op = "sync", commands' = commands \o cs,
         Op(todo'[t], 1) = "communicate", Op(todo'[t], 2) \in {"fetch", "exit_fetch"},
         Op(todo'[t], 2) = "fetch" /\ Op(todo'[t], 3) = "send" => Begun'
  PROVE  Held(t)'
<1>1. NoQueries' /\ cs \in Seq(CommandType)  BY NoQueriesAdded
<1>2. Synced'  BY <1>1, SyncQueued
<1>3. Draining(t)'  BY <1>1, <1>2 DEF Draining
<1>4. Beginning(t)' => Begun'  BY DEF Beginning
<1> QED  BY <1>3, <1>4, HeldDraining

\* What follows a phase that is not of a pipeline.
LEMMA AfterOutside ==
  ASSUME TodoTyped, LeaveInv, NEW t \in Threads, NEW phase \in Outside, At(t, phase),
         NEW ok, ContinueIf(ok, t)
  PROVE  LET X == todo'[t]
         IN  /\ X \in Seq(PhaseType) /\ ~Beginning(t)'
             /\ Op(todo[t], 1) = phase
             /\ Op(X, 1) = "send" => ok /\ phase = "start"
             /\ Op(X, 1) = "communicate" => phase = "send"
             /\ ok => Op(X, 1) = Op(todo[t], 2)
<1>1. Op(todo[t], 1) = phase /\ todo[t] # <<>>  BY OpHead
<1>2. Ordered(todo[t])  BY DEF LeaveInv, InOrder
<1> DEFINE T == todo[t]
           X == todo'[t]
<1>3. /\ X \in Seq(PhaseType) /\ Rest(T, X)
      /\ ok => Op(X, 1) = Op(T, 2)
      /\ ~ok => Op(X, 1) \in Finally \cup {"none"}
  BY <1>1, <1>2, Moves
<1> HIDE DEF T, X
<1>4. /\ Op(X, 1) # "none" => Link(Op(T, 1), Op(X, 1))
      /\ ~(Op(X, 1) = "communicate" /\ Op(X, 2) = "fetch" /\ Op(X, 3) = "send")
  BY <1>3 DEF Rest
<1>5. Op(T, 1) = phase  BY <1>1 DEF T
<1>6. /\ Op(X, 1) # "fetch"
      /\ Op(X, 1) = "communicate" => phase = "send"
      /\ Op(X, 1) = "send" => phase = "start"
  BY <1>4, <1>5 DEF Link, Outside
<1>7. Op(X, 1) = "send" => ok  BY <1>3 DEF Finally
<1>8. ~Beginning(t)'  BY <1>4, <1>6 DEF Beginning, X
<1> QED  BY <1>1, <1>3, <1>6, <1>7, <1>8 DEF T, X

\* The server answered at once.
LEMMA NowHeld ==
  ASSUME LeaveInv', NEW t \in Threads, level' = 0, seen' = server'.status,
         todo'[t] \in Seq(PhaseType), Op(todo'[t], 1) = "send" => Open'
  PROVE  Held(t)'
<1> DEFINE X == todo'[t]
<1>1. Clean' /\ Piped(X, level')  BY DEF LeaveInv, InOrder
<1>2. commands' = <<>> /\ wire' = <<>>  BY <1>1 DEF Clean
<1>3. Calm' /\ NoQueries'  BY <1>2 DEF Calm, NoQueries, Open
<1>4. Op(X, 1) \notin {"communicate", "fetch"}
  <2>1. ASSUME Op(X, 1) \in {"communicate", "fetch"}  PROVE FALSE
    <3>1. Op(X, 1) \in Ops(X)  BY <2>1, OpParts
    <3>2. Ops(X) \cap PipedOps # {}  BY <2>1, <3>1 DEF PipedOps
    <3>3. Op(X, 1) = "enter"  BY <1>1, <3>2 DEF Piped, Entered
    <3> QED  BY <2>1, <3>3
  <2> QED  BY <2>1
<1>5. ~Beginning(t)'  BY <1>4, NotBeginning
<1> QED  BY <1>3, <1>4, <1>5, HeldSteady

LEMMA HeldCall ==
  ASSUME QueuesInv, LeaveInv, LeaveInv', NEW t \in Threads, Held(t), Call(t)
  PROVE  Held(t)'
<1>1. TodoTyped /\ QueuesTyped /\ level \in Nat /\ server \in ServerType
  BY DEF QueuesInv, CacheInv, LeaveInv
<1>2. todo[t] = <<>>
  BY DEF Call, execute, executemany, enter, exit, sync, fetch, commit_now,
         commit_enqueued, rollback, Idle
<1>3. Op(todo[t], 1) = "none"  BY <1>2 DEF Op
<1>4. Calm /\ NoQueries  BY <1>3, HeadSteady
<1>5. ASSUME NEW new \in Seq(PhaseType), Start(t, new), UNCHANGED <<queues, network>>,
             Op(new, 1) \notin {"send", "communicate"},
             Op(new, 1) = "fetch" => Op(new, 2) # "send"
      PROVE  Held(t)'
  <2>1. todo'[t] = new  BY <1>1, <1>5, StartedInOrder
  <2>2. Calm' /\ NoQueries'  BY <1>4, <1>5, CalmKept
  <2>3. ~Beginning(t)'  BY <1>5, <2>1, NotBeginning
  <2> QED  BY <1>5, <2>1, <2>2, <2>3, HeldSteady
<1>6. ASSUME NEW cs \in Seq(InternalType), cs # <<>>, cs[Len(cs)].op = "sync",
             EnqueueAll(cs), NEW new \in Seq(PhaseType), Start(t, new),
             Op(new, 1) = "communicate", Op(new, 2) = "fetch", Op(new, 3) # "send"
      PROVE  Held(t)'
  <2>1. todo'[t] = new  BY <1>1, <1>6, StartedInOrder
  <2>2. commands' = commands \o cs  BY <1>6 DEF EnqueueAll, Enqueue
  <2> QED  BY <1>1, <1>4, <1>6, <2>1, <2>2, SyncHeld
<1>7. ASSUME NEW q \in Queries, NEW prepare \in {"auto", "yes", "no"}, execute(t, q, prepare)
      PROVE  Held(t)'
  <2> DEFINE new == ExecutePhases(q, prepare)
  <2>1. Op(new, 1) = "start"  BY <1>1, ExecutePiped
  <2>2. new \in Seq(PhaseType)
    <3>1. TRUE \in BOOLEAN  OBVIOUS
    <3> QED  BY <3>1, PhasesTyped
  <2>3. Start(t, new) /\ UNCHANGED <<queues, network>>  BY <1>7 DEF execute
  <2> HIDE DEF new
  <2> QED  BY <1>5, <2>1, <2>2, <2>3
<1>8. ASSUME NEW q \in Queries, NEW returning \in BOOLEAN, executemany(t, q, returning)
      PROVE  Held(t)'
  <2> DEFINE s == ManyPhases(q, returning)
             e == <<Do("enter"), Do("ride")>> \o s \o Exit
  <2>1. (level > 0 => Op(s, 1) = "start") /\ Op(e, 1) = "enter"  BY ManyPiped
  <2>2. s \in Seq(PhaseType) /\ e \in Seq(PhaseType)
    <3>1. "yes" \in {"auto", "yes", "no"}  OBVIOUS
    <3>2. /\ s \in Seq(PhaseType) /\ Exit \in Seq(PhaseType)
          /\ <<Do("enter"), Do("ride")>> \in Seq(PhaseType)
      BY <3>1, PhasesTyped
    <3> HIDE DEF s
    <3> QED  BY <3>2, ConcatProperties
  <2>3. Start(t, IF level > 0 THEN s ELSE e) /\ UNCHANGED <<queues, network>>
    BY <1>8 DEF executemany
  <2> HIDE DEF s, e
  <2>4. CASE level > 0
    <3>1. Start(t, s)  BY <2>3, <2>4
    <3> QED  BY <1>5, <2>1, <2>2, <2>3, <2>4, <3>1
  <2>5. CASE ~(level > 0)
    <3>1. Start(t, e)  BY <2>3, <2>5
    <3> QED  BY <1>5, <2>1, <2>2, <2>3, <3>1
  <2> QED  BY <2>4, <2>5
<1>9. ASSUME NEW op \in {"enter", "fetch", "rollback"}, Start(t, <<Do(op)>>),
             UNCHANGED <<queues, network>>
      PROVE  Held(t)'
  <2> DEFINE s == <<Do(op)>>
  <2>1. op \in PhaseOps /\ op # "send"  BY DEF PhaseOps
  <2>2. s \in Seq(PhaseType) /\ Op(s, 1) = op /\ \A i \in Int : i > 1 => Op(s, i) = "none"
    BY <2>1, OnePhase
  <2> HIDE DEF s
  <2>3. Start(t, s)  BY <1>9 DEF s
  <2>4. Op(s, 2) = "none"  BY <2>2
  <2> QED  BY <1>5, <1>9, <2>2, <2>3, <2>4
<1>10. CASE enter(t)  BY <1>9, <1>10 DEF enter
<1>11. CASE fetch(t)  BY <1>9, <1>11 DEF fetch
<1>12. CASE exit(t)
  <2>1. {"exit", "leave"} \subseteq PhaseOps /\ Link("exit", "leave")  BY DEF PhaseOps, Link
  <2>2. Exit \in Seq(PhaseType) /\ Op(Exit, 1) = "exit"  BY <2>1, TwoPhases DEF Exit
  <2>3. Start(t, Exit) /\ UNCHANGED <<queues, network>>  BY <1>12 DEF exit
  <2> QED  BY <1>5, <2>2, <2>3
<1>13. /\ Sync \in Seq(InternalType) /\ Sync # <<>> /\ Sync[Len(Sync)].op = "sync"
       /\ CommitCommands \in Seq(InternalType) /\ CommitCommands # <<>>
       /\ CommitCommands[Len(CommitCommands)].op = "sync"
  <2>1. Sound(cache)  BY DEF QueuesInv, CacheInv
  <2>2. Sync \in Seq(InternalType) /\ CommitCommands \in Seq(InternalType)
    BY <2>1, InternalCommands
  <2>3. Len(CommitCommands) = 2 /\ CommitCommands[2].op = "sync"  BY <2>1, NoPrepare
  <2>4. Len(Sync) = 1 /\ Sync[1].op = "sync" /\ Sync # <<>>  BY DEF Sync, Simple, Command
  <2>5. CommitCommands # <<>>  BY <2>2, <2>3
  <2> QED  BY <2>2, <2>3, <2>4, <2>5
<1>14. CASE sync(t) \/ commit_enqueued(t)
  <2>1. Start(t, SyncGen) /\ (EnqueueAll(Sync) \/ EnqueueAll(CommitCommands))
    BY <1>14 DEF sync, commit_enqueued
  <2> QED  BY <1>6, <1>13, <2>1, SyncPhases
<1>15. CASE commit_now(t)
  <2>1. PICK a \in Answers(server, Simple("commit")) : Answered(a)  BY <1>15 DEF commit_now
  <2>2. level' = 0 /\ seen' = server'.status /\ UNCHANGED todo
    BY <1>15, <2>1 DEF commit_now, Answered
  <2>3. todo'[t] = todo[t] /\ todo'[t] \in Seq(PhaseType) /\ Op(todo'[t], 1) = "none"
    BY <1>1, <1>3, <2>2 DEF TodoTyped
  <2> QED  BY <2>2, <2>3, NowHeld
<1>16. CASE rollback(t)
  <2>1. CASE level = 0
    <3>1. Start(t, <<Do("rollback")>>) /\ UNCHANGED <<queues, network>>
      BY <1>16, <2>1 DEF rollback
    <3> QED  BY <1>9, <3>1
  <2>2. CASE level # 0
    <3> DEFINE s == SyncGen \o <<Do("rollback")>>
    <3>1. Start(t, s) /\ EnqueueAll(Sync)  BY <1>16, <2>2 DEF rollback
    <3>2. /\ "rollback" \in PhaseOps /\ "rollback" \notin {"send", "exit_fetch"}
          /\ Link("fetch", "rollback")
      BY DEF PhaseOps, Link
    <3>3. /\ s \in Seq(PhaseType) /\ Op(s, 1) = "communicate" /\ Op(s, 2) = "fetch"
          /\ Op(s, 3) = "rollback"
      BY <3>2, SyncThen
    <3> HIDE DEF s
    <3> QED  BY <1>6, <1>13, <3>1, <3>3
  <2> QED  BY <2>1, <2>2
<1> QED
  BY <1>7, <1>8, <1>10, <1>11, <1>12, <1>14, <1>15, <1>16 DEF Call

\* The server answers a command at once.
LEMMA HeldNow ==
  ASSUME QueuesInv, LeaveInv, LeaveInv', NEW t \in Threads,
         \/ start_now(t) \/ prepare_fails(t) \/ execute_now(t) \/ maintain_now(t)
         \/ rollback_now(t)
  PROVE  Held(t)'
<1>1. TodoTyped /\ level \in Nat /\ server \in ServerType
  BY DEF QueuesInv, CacheInv, LeaveInv
<1>2. level' = 0
  BY DEF start_now, prepare_fails, execute_now, maintain_now, rollback_now
<1>3. seen' = server'.status
  BY DEF start_now, prepare_fails, execute_now, maintain_now, rollback_now, Answered
<1>4. {"start", "send", "maintain", "rollback"} \subseteq Outside  BY DEF Outside
<1>5. CASE start_now(t)
  <2>1. PICK a \in Answers(server, Simple("begin")) : Answered(a) /\ ContinueIf(a.status = "OK", t)
    BY <1>5 DEF start_now
  <2>2. At(t, "start")  BY <1>5 DEF start_now
  <2>3. todo'[t] \in Seq(PhaseType) /\ (Op(todo'[t], 1) = "send" => a.status = "OK")
    BY <1>1, <1>4, <2>1, <2>2, AfterOutside
  <2>4. Simple("begin").op = "begin" /\ ~Ends(Simple("begin"))
    BY DEF Simple, Command, Ends
  <2>5. a.status = "OK" => a.server.status # "IDLE"
    BY <1>1, <2>1, <2>4, AnswersStatus, CommandTypes
  <2>6. Op(todo'[t], 1) = "send" => Open'  BY <2>1, <2>3, <2>5 DEF Open, Answered
  <2> QED  BY <1>2, <1>3, <2>3, <2>6, NowHeld
<1>6. ASSUME NEW phase \in {"send", "maintain"}, At(t, phase), NEW ok, ContinueIf(ok, t)
      PROVE  Held(t)'
  <2>1. todo'[t] \in Seq(PhaseType) /\ Op(todo'[t], 1) # "send"
    BY <1>1, <1>4, <1>6, AfterOutside
  <2> QED  BY <1>2, <1>3, <2>1, NowHeld
<1>7. CASE prepare_fails(t)
  <2>1. At(t, "send") /\ ContinueIf(FALSE, t)  BY <1>7 DEF prepare_fails, ContinueIf
  <2> QED  BY <1>6, <2>1
<1>8. CASE execute_now(t)
  <2>1. At(t, "send") /\ \E ok : ContinueIf(ok, t)  BY <1>8 DEF execute_now
  <2> QED  BY <1>6, <2>1
<1>9. CASE maintain_now(t)
  <2>1. At(t, "maintain")  BY <1>9 DEF maintain_now
  <2>2. Raise(t) \/ UNCHANGED todo  BY <1>9 DEF maintain_now
  <2>3. CASE Raise(t)
    <3>1. ContinueIf(FALSE, t)  BY <2>3 DEF ContinueIf
    <3> QED  BY <1>6, <2>1, <3>1
  <2>4. CASE UNCHANGED todo
    <3>1. Op(todo'[t], 1) = "maintain" /\ todo'[t] \in Seq(PhaseType)
      BY <1>1, <2>1, <2>4, OpHead DEF TodoTyped
    <3> QED  BY <1>2, <1>3, <3>1, NowHeld
  <2> QED  BY <2>2, <2>3, <2>4
<1>10. CASE rollback_now(t)
  <2> DEFINE new == <<Do("maintain")>>
  <2>1. At(t, "rollback") /\ Continue(t, new)  BY <1>10 DEF rollback_now
  <2>2. Op(todo[t], 1) = "rollback" /\ todo[t] # <<>> /\ todo[t] \in Seq(PhaseType)
    BY <1>1, <2>1, OpHead
  <2>3. todo'[t] = new \o Tail(todo[t])  BY <1>1, <2>1 DEF Continue, TodoTyped
  <2>4. "maintain" \in PhaseOps /\ new \in Seq(PhaseType) /\ Len(new) = 1
        /\ new[1].op = "maintain"
    BY OnePhase DEF PhaseOps
  <2> HIDE DEF new
  <2> DEFINE r == Tail(todo[t])
  <2>5. r \in Seq(PhaseType) /\ Len(r) \in Nat  BY <2>2, TailParts, SeqParts
  <2> HIDE DEF r
  <2>6. /\ new \o r \in Seq(PhaseType) /\ Len(new \o r) = 1 + Len(r)
        /\ (new \o r)[1] = new[1] /\ 1 \in 1..Len(new \o r)
    <3>1. new \in Seq(PhaseType) /\ Len(new) = 1  BY <2>4
    <3>2. /\ new \o r \in Seq(PhaseType) /\ Len(new \o r) = Len(new) + Len(r)
          /\ \A i \in 1..(Len(new) + Len(r)) :
               (new \o r)[i] = IF i <= Len(new) THEN new[i] ELSE r[i - Len(new)]
      BY <2>5, <3>1, ConcatProperties
    <3>3. 1 \in 1..(Len(new) + Len(r)) /\ 1 <= Len(new)  BY <2>5, <3>1
    <3>4. (new \o r)[1] = new[1]  BY <3>2, <3>3
    <3> QED  BY <2>5, <3>1, <3>2, <3>4
  <2>8. todo'[t] = new \o r  BY <2>3 DEF r
  <2>7. Op(todo'[t], 1) = "maintain"  BY <2>4, <2>6, <2>8 DEF Op
  <2> QED  BY <1>2, <1>3, <2>6, <2>7, <2>8, NowHeld
<1> QED  BY <1>5, <1>7, <1>8, <1>9, <1>10

\* Phases that end with no consequence for the queues.
LEMMA HeldOutside ==
  ASSUME TodoTyped, LeaveInv, Hyp, NEW t \in Threads, Held(t),
         start_skipped(t) \/ maintain_ends(t) \/ ride(t) \/ rollback_skipped(t) \/ enters(t)
  PROVE  Held(t)'
<1>1. UNCHANGED <<queues, network>> /\ Continue(t, <<>>)
  BY DEF start_skipped, maintain_ends, ride, rollback_skipped, enters
<1>2. ContinueIf(TRUE, t)  BY <1>1 DEF ContinueIf
<1>3. PICK phase \in {"start", "maintain", "ride", "rollback", "enter", "entered"} :
        At(t, phase) /\ (phase = "start" => start_skipped(t))
  <2>1. CASE start_skipped(t)  BY <2>1 DEF start_skipped
  <2>2. CASE maintain_ends(t)  BY <2>2 DEF maintain_ends
  <2>3. CASE ride(t)  BY <2>3 DEF ride
  <2>4. CASE rollback_skipped(t)  BY <2>4 DEF rollback_skipped
  <2>5. CASE enters(t)  BY <2>5 DEF enters
  <2> QED  BY <2>1, <2>2, <2>3, <2>4, <2>5
<1>4. phase \in Outside  BY DEF Outside
<1>5. /\ ~Beginning(t)' /\ Op(todo[t], 1) = phase
      /\ Op(todo'[t], 1) = "send" => phase = "start"
      /\ Op(todo'[t], 1) = "communicate" => phase = "send"
  BY <1>2, <1>3, <1>4, AfterOutside
<1>6. Calm /\ NoQueries  BY <1>5, HeadSteady
<1>7. Calm' /\ NoQueries' /\ (Open => Open')  BY <1>1, <1>6, CalmKept
<1>8. phase = "start" => Open
  <2>1. start_skipped(t) => autocommit \/ Status # "IDLE"  BY DEF start_skipped
  <2>2. Status # "IDLE" => Open  BY <1>6 DEF Status, Calm
  <2> QED  BY <1>3, <2>1, <2>2 DEF Hyp
<1> QED  BY <1>5, <1>7, <1>8, HeldSteady

\* BEGIN is queued, and a Sync.
LEMMA BeginQueued ==
  ASSUME QueuesTyped, Calm, NEW cs \in Seq(CommandType), Len(cs) = 2, cs[1].op = "begin",
         cs[2].op = "sync", commands' = commands \o cs
  PROVE  Begun'
<1> DEFINE n == Len(commands)
<1>1. commands \in Seq(CommandType) /\ cs \in Seq(CommandType) /\ n \in Nat
  BY SeqParts DEF QueuesTyped
<1>2. Len(commands') = n + 2 /\ commands'[n + 1] = cs[1]
  <2>1. /\ Len(commands') = Len(commands) + Len(cs)
        /\ \A i \in 1..(Len(commands) + Len(cs)) :
             commands'[i] = IF i <= Len(commands) THEN commands[i] ELSE cs[i - Len(commands)]
    BY <1>1, ConcatProperties
  <2> HIDE DEF n
  <2>2. /\ Len(commands') = n + 2
        /\ \A i \in 1..(n + 2) : commands'[i] = IF i <= n THEN commands[i] ELSE cs[i - n]
    BY <2>1 DEF n
  <2>3. n + 1 \in 1..(n + 2) /\ ~(n + 1 <= n) /\ (n + 1) - n = 1  BY <1>1
  <2> QED  BY <2>2, <2>3
<1>3. ASSUME NEW j \in 1..Len(commands')  PROVE commands'[j].op \notin Ending
  <2>2. \/ \E i \in 1..Len(commands) : commands'[j] = commands[i]
        \/ \E i \in 1..Len(cs) : commands'[j] = cs[i]
    BY <1>3, AddedCommands
  <2>3. \A i \in 1..Len(cs) : cs[i].op \notin Ending  BY DEF Ending
  <2> QED  BY <2>2, <2>3 DEF Calm
<1>4. Len(commands') >= 2 /\ commands'[Len(commands') - 1].op = "begin"
  <2> HIDE DEF n
  <2>1. n + 2 >= 2 /\ (n + 2) - 1 = n + 1  BY <1>1
  <2> QED  BY <1>2, <2>1
<1> QED  BY <1>3, <1>4 DEF Begun

\* Commands are queued by a phase of a call.
LEMMA HeldQueued ==
  ASSUME QueuesInv, LeaveInv, OneThread, NEW t \in Threads, Held(t),
         \/ start_enqueued(t) \/ rollback_enqueued(t) \/ maintain_enqueued(t)
         \/ exit_gen(t) \/ enter_syncs(t)
  PROVE  Held(t)'
<1>1. TodoTyped /\ QueuesTyped /\ level \in Nat /\ Sound(cache)
  BY DEF QueuesInv, CacheInv, LeaveInv
<1>2. Ordered(todo[t])  BY DEF LeaveInv, InOrder
<1>3. Sync # <<>> /\ Len(Sync) = 1 /\ Sync[1].op = "sync" /\ Sync \in Seq(InternalType)
  BY <1>1, InternalCommands DEF Sync, Simple, Command
<1>4. CASE start_enqueued(t)
  <2> DEFINE cs == <<Simple("begin")>> \o Sync
  <2>1. /\ At(t, "start") /\ Continue(t, SyncGen) /\ level > 0 /\ UNCHANGED level
        /\ commands' = commands \o cs
    BY <1>4 DEF start_enqueued, EnqueueAll, Enqueue
  <2>2. cs \in Seq(InternalType) /\ Len(cs) = 2 /\ cs[1].op = "begin" /\ cs[2].op = "sync"
    BY <1>1, InternalCommands, NoPrepare
  <2> HIDE DEF cs
  <2>3. Op(todo[t], 1) = "start"  BY <1>1, <2>1, OpHead
  <2>4. Calm /\ NoQueries  BY <2>3, HeadSteady
  <2>5. "start" \in {"start", "rollback"}  OBVIOUS
  <2>6. Op(todo'[t], 1) = "communicate" /\ Op(todo'[t], 2) = "fetch"
    BY <2>1, <2>5, SyncBecomes
  <2>7. cs \in Seq(CommandType)  BY <1>1, <2>1, <2>2, <2>4, NoQueriesAdded
  <2>8. Begun'  BY <1>1, <2>1, <2>2, <2>4, <2>7, BeginQueued
  <2>9. cs # <<>>  BY <2>2
  <2> QED  BY <1>1, <2>1, <2>2, <2>4, <2>6, <2>8, <2>9, SyncHeld
<1>5. CASE rollback_enqueued(t)
  <2> DEFINE cs == <<Simple("rollback")>> \o Deallocations(Clear(cache)) \o Sync
  <2>1. /\ At(t, "rollback") /\ Continue(t, SyncGen) /\ level > 0 /\ UNCHANGED level
        /\ commands' = commands \o cs
    BY <1>5 DEF rollback_enqueued, EnqueueAll, Enqueue
  <2>2. cs \in Seq(InternalType) /\ cs # <<>> /\ cs[Len(cs)].op = "sync"
    BY <1>1, ClearSound, InternalCommands, NoPrepare
  <2> HIDE DEF cs
  <2>3. Op(todo[t], 1) = "rollback" /\ todo[t] \in Seq(PhaseType) /\ todo[t] # <<>>
    BY <1>1, <2>1, OpHead
  <2>4. Calm /\ NoQueries  BY <2>3, HeadSteady
  <2>5. "rollback" \in {"start", "rollback"}  OBVIOUS
  <2>6. /\ Op(todo'[t], 1) = "communicate" /\ Op(todo'[t], 2) = "fetch"
        /\ Op(todo'[t], 3) = Op(todo[t], 2)
    BY <2>1, <2>5, SyncBecomes
  <2>7. Op(todo[t], 2) # "send"
    <3> DEFINE T == todo[t]
    <3>1. T \in Seq(PhaseType) /\ Ordered(T) /\ Op(T, 1) = "rollback"  BY <1>2, <2>3
    <3> HIDE DEF T
    <3>2. Len(T) \in Nat /\ (T # <<>> => 1 \in 1..Len(T))
          /\ (\A i \in 1..Len(T) : Op(T, i) = T[i].op)
          /\ \A i \in Int : i \notin 1..Len(T) => Op(T, i) = "none"
      BY <3>1, OpParts
    <3>3. CASE 2 \in 1..Len(T)
      <4>1. 2 \in 2..Len(T) /\ 1 \in 1..Len(T)  BY <3>2, <3>3
      <4>2. Link(T[1].op, T[2].op)
        <5>1. Link(T[2 - 1].op, T[2].op)  BY <3>1, <4>1 DEF Ordered
        <5> QED  BY <5>1
      <4>3. T[1].op = "rollback" /\ Op(T, 2) = T[2].op  BY <3>1, <3>2, <3>3, <4>1
      <4> QED  BY <4>2, <4>3 DEF Link, T
    <3>4. CASE 2 \notin 1..Len(T)  BY <3>2, <3>4 DEF T
    <3> QED  BY <3>3, <3>4
  <2> QED  BY <1>1, <2>1, <2>2, <2>4, <2>6, <2>7, SyncHeld
<1>6. CASE exit_gen(t)
  <2>1. At(t, "exit") /\ commands' = commands \o Sync
    BY <1>6 DEF exit_gen, EnqueueAll, Enqueue
  <2>2. Op(todo[t], 1) = "exit"  BY <1>1, <2>1, OpHead
  <2>3. NoQueries  BY <2>2, HeadSteady
  <2>4. Op(todo'[t], 1) = "communicate" /\ Op(todo'[t], 2) = "exit_fetch"
    BY <1>6, ExitQueues
  <2> QED  BY <1>1, <1>3, <2>1, <2>3, <2>4, SyncHeld
<1>7. CASE enter_syncs(t)
  <2>1. At(t, "enter") /\ commands' = commands \o Sync
    BY <1>7 DEF enter_syncs, EnqueueAll, Enqueue
  <2>2. Op(todo[t], 1) = "enter"  BY <1>1, <2>1, OpHead
  <2>3. NoQueries  BY <2>2, HeadSteady
  <2>4. /\ Op(todo'[t], 1) = "communicate" /\ Op(todo'[t], 2) = "fetch"
        /\ Op(todo'[t], 3) = "entered"
    BY <1>7, EnterSyncs
  <2> QED  BY <1>1, <1>3, <2>1, <2>3, <2>4, SyncHeld
<1>8. CASE maintain_enqueued(t)
  <2> DEFINE cs == Deallocations(cache)
  <2>1. /\ At(t, "maintain") /\ Continue(t, <<>>) /\ UNCHANGED network
        /\ commands' = commands \o cs
    BY <1>8 DEF maintain_enqueued, EnqueueAll, Enqueue
  <2>2. /\ cs \in Seq(InternalType)
        /\ \A i \in 1..Len(cs) : cs[i].op \in {"close", "deallocate all"}
    BY <1>1, InternalCommands, NoPrepare
  <2> HIDE DEF cs
  <2>3. ContinueIf(TRUE, t)  BY <2>1 DEF ContinueIf
  <2>4. "maintain" \in Outside  BY DEF Outside
  <2>5. /\ ~Beginning(t)' /\ Op(todo[t], 1) = "maintain"
        /\ Op(todo'[t], 1) # "send" /\ Op(todo'[t], 1) # "communicate"
    BY <1>1, <2>1, <2>3, <2>4, AfterOutside
  <2>6. Calm /\ NoQueries  BY <2>5, HeadSteady
  <2>7. NoQueries' /\ cs \in Seq(CommandType)  BY <1>1, <2>1, <2>2, <2>6, NoQueriesAdded
  <2>8. \A i \in 1..Len(cs) : cs[i].op \notin Ending \cup {"sync", "begin"}
    BY <2>2 DEF Ending
  <2>9. Calm'  BY <1>1, <2>1, <2>6, <2>7, <2>8, CalmAdded
  <2> QED  BY <2>5, <2>7, <2>9, HeldSteady
<1> QED  BY <1>4, <1>5, <1>6, <1>7, <1>8

\* A query is queued, in a transaction.
LEMMA HeldExecuted ==
  ASSUME QueuesInv, LeaveInv, NEW t \in Threads, Held(t), execute_enqueued(t)
  PROVE  Held(t)'
<1> DEFINE q == Head(todo[t]).query
           got == Get(cache, q, Head(todo[t]).prepare)
           cs == PrepareCommands(q, got) \o <<RunCommand(q, got)>>
<1>1. TodoTyped /\ QueuesTyped /\ level \in Nat /\ Sound(cache)
  BY DEF QueuesInv, CacheInv, LeaveInv
<1>2. /\ At(t, "send") /\ Continue(t, <<>>) /\ UNCHANGED network /\ level > 0
      /\ commands' = commands \o cs
  BY DEF execute_enqueued, Enqueue
<1>3. q \in Queries  BY <1>1, <1>2, AtPhase
<1>4. /\ PrepareCommand(q, got) \in CommandType /\ RunCommand(q, got) \in CommandType
      /\ cs \in Seq(CommandType)
  BY <1>1, <1>3, ExecuteCommands
<1> HIDE DEF got, q
<1>5. \A i \in 1..Len(cs) : cs[i].op \notin Ending \cup {"sync", "begin"}
  <2> DEFINE p == PrepareCommands(q, got)
             r == <<RunCommand(q, got)>>
  <2>1. PrepareCommand(q, got).op = "prepare" /\ RunCommand(q, got).op \in {"run", "run prepared"}
    BY DEF PrepareCommand, RunCommand, Command
  <2>2. p \in Seq(CommandType) /\ \A i \in 1..Len(p) : p[i].op = "prepare"
    <3> DEFINE c == PrepareCommand(q, got)
    <3>1. c \in CommandType /\ c.op = "prepare"  BY <1>4, <2>1
    <3> HIDE DEF c
    <3>2. p = <<c>> \/ p = <<>>  BY DEF PrepareCommands, c
    <3> HIDE DEF p
    <3>3. CASE p = <<c>>  BY <3>1, <3>3
    <3>4. CASE p = <<>>  BY <3>4
    <3> QED  BY <3>2, <3>3, <3>4
  <2>3. r \in Seq(CommandType) /\ \A i \in 1..Len(r) : r[i].op \in {"run", "run prepared"}
    <3>1. RunCommand(q, got) \in CommandType  BY <1>4
    <3>2. r \in Seq(CommandType)  BY <3>1
    <3>3. Len(r) = 1 /\ r[1] = RunCommand(q, got)  OBVIOUS
    <3>4. \A i \in 1..Len(r) : i = 1  BY <3>3
    <3> QED  BY <2>1, <3>2, <3>3, <3>4
  <2> HIDE DEF p, r
  <2>4. ASSUME NEW i \in 1..Len(p \o r)
        PROVE  (p \o r)[i].op \in {"prepare", "run", "run prepared"}
    <3>1. p \in Seq(CommandType) /\ r \in Seq(CommandType) /\ i \in 1..Len(p \o r)
      BY <2>2, <2>3
    <3>2. \/ \E j \in 1..Len(p) : (p \o r)[i] = p[j]
          \/ \E j \in 1..Len(r) : (p \o r)[i] = r[j]
      BY <3>1, ConcatElements
    <3> QED  BY <2>2, <2>3, <3>2
  <2>5. \A i \in 1..Len(p \o r) : (p \o r)[i].op \in {"prepare", "run", "run prepared"}
    BY <2>4
  <2> QED  BY <2>5 DEF p, r, Ending
<1> HIDE DEF cs
<1>6. ContinueIf(TRUE, t)  BY <1>2 DEF ContinueIf
<1>7. "send" \in Outside  BY DEF Outside
<1>8. /\ ~Beginning(t)' /\ Op(todo[t], 1) = "send" /\ Op(todo'[t], 1) = Op(todo[t], 2)
  BY <1>1, <1>2, <1>6, <1>7, AfterOutside
<1>9. Op(todo[t], 2) = "communicate"
  <2> DEFINE T == todo[t]
  <2>1. T \in Seq(PhaseType) /\ T # <<>> /\ Op(T, 1) = "send"  BY <1>1, <1>2, OpHead
  <2>2. Piped(T, level) /\ Entered(T, level)  BY <1>2 DEF LeaveInv, InOrder, Entered
  <2> HIDE DEF T
  <2>3. 1 \in 1..Len(T) /\ T[1].op = "send"  BY <2>1, OpParts
  <2>4. Op(T, 1 + 1) = "communicate"  BY <2>2, <2>3 DEF Piped
  <2> QED  BY <2>4 DEF T
<1>10. Calm /\ Open  BY <1>8, HeadSteady
<1>11. Calm' /\ Open'  BY <1>1, <1>2, <1>4, <1>5, <1>10, CalmAdded
<1> QED  BY <1>8, <1>9, <1>11, HeldSteady

\* The thread's phase does not change.
LEMMA SamePhase ==
  ASSUME NEW t \in Threads, UNCHANGED todo
  PROVE  /\ Op(todo'[t], 1) = Op(todo[t], 1) /\ Op(todo'[t], 2) = Op(todo[t], 2)
         /\ Beginning(t)' <=> Beginning(t)
<1>1. todo'[t] = todo[t]  OBVIOUS
<1> QED  BY <1>1 DEF Beginning

\* Only these commands end a transaction, if no query does.
LEMMA HypEnds ==
  ASSUME Hyp, NEW c \in CommandType, c.op \notin Ending
  PROVE  ~Ends(c)
<1>1. c.query # NoQuery => c.query \in Queries  BY DEF CommandType, AnyQuery
<1>2. c.query \in Queries => Kind[c.query] # "rollback"  BY DEF Hyp
<1> QED  BY <1>1, <1>2 DEF Ends, Ending

LEMMA SentParts ==
  ASSUME QueuesInv, NEW t \in Threads, transmit(t)
  PROVE  LET c == Head(commands)
         IN  /\ commands \in Seq(CommandType) /\ commands # <<>> /\ commands' = Tail(commands)
             /\ c \in CommandType /\ c = commands[1] /\ 1 \in 1..Len(commands)
             /\ Op(todo[t], 1) = "communicate"
             /\ UNCHANGED <<todo, raised, seen>>
             /\ \E a \in Answers(server, c), r \in ResultType :
                  r.status = a.status /\ server' = a.server /\ wire' = Append(wire, r)
<1>1. /\ TodoTyped /\ QueuesTyped /\ server \in ServerType
  BY DEF QueuesInv, CacheInv
<1>2. /\ At(t, "communicate") /\ commands # <<>> /\ commands' = Tail(commands)
      /\ UNCHANGED <<todo, raised, seen>>
  BY DEF transmit
<1> DEFINE c == Head(commands)
<1>3. c \in CommandType /\ c = commands[1] /\ 1 \in 1..Len(commands)
  BY <1>1, <1>2, TailParts, HeadTailProperties DEF QueuesTyped
<1>4. PICK a \in Answers(server, c) :
        /\ server' = a.server
        /\ wire' = Append(wire, [query |-> IF c.op \in {"run", "run prepared"}
                                           THEN c.query ELSE NoQuery,
                                 status |-> a.status, tx |-> a.server.status])
  BY DEF transmit
<1> DEFINE r == [query |-> IF c.op \in {"run", "run prepared"} THEN c.query ELSE NoQuery,
                 status |-> a.status, tx |-> a.server.status]
<1> HIDE DEF c
<1>5. a.server \in ServerType /\ a.status \in AnswerTypes  BY <1>1, <1>3, AnswersTyped
<1>6. r \in ResultType
  <2>1. c.query \in AnyQuery /\ NoQuery \in AnyQuery  BY <1>3 DEF CommandType, AnyQuery
  <2>2. a.server.status \in Statuses  BY <1>5 DEF ServerType
  <2> QED  BY <1>5, <2>1, <2>2 DEF ResultType
<1>7. r.status = a.status /\ wire' = Append(wire, r)  BY <1>4
<1> HIDE DEF r
<1>8. \E r1 \in ResultType : r1.status = a.status /\ wire' = Append(wire, r1)  BY <1>6, <1>7
<1>9. Op(todo[t], 1) = "communicate"  BY <1>1, <1>2, OpHead
<1> QED  BY <1>1, <1>2, <1>3, <1>4, <1>8, <1>9 DEF QueuesTyped, c

\* A result is on the wire.
LEMMA AppendedWire ==
  ASSUME QueuesTyped, NEW r \in ResultType, wire' = Append(wire, r)
  PROVE  /\ \A j \in 1..Len(wire') : wire'[j] = r \/ \E i \in 1..Len(wire) : wire'[j] = wire[i]
         /\ \A i \in 1..Len(wire) : \E j \in 1..Len(wire') : wire'[j] = wire[i]
         /\ \E j \in 1..Len(wire') : wire'[j] = r
<1> DEFINE n == Len(wire)
<1>1. wire \in Seq(ResultType)  BY DEF QueuesTyped
<1>2. n \in Nat  BY <1>1, SeqParts
<1>3. /\ Len(wire') = n + 1 /\ wire'[n + 1] = r
      /\ \A i \in 1..n : wire'[i] = wire[i]
  BY <1>1, AppendProperties
<1> HIDE DEF n
<1>4. n + 1 \in 1..(n + 1) /\ \A i \in 1..(n + 1) : i \in 1..n \/ i = n + 1
  BY <1>2
<1>5. \A i \in 1..n : i \in 1..(n + 1)  BY <1>2
<1>6. \A j \in 1..Len(wire') : wire'[j] = r \/ \E i \in 1..n : wire'[j] = wire[i]
  BY <1>3, <1>4
<1>7. \A i \in 1..n : \E j \in 1..Len(wire') : wire'[j] = wire[i]  BY <1>3, <1>5
<1>8. \E j \in 1..Len(wire') : wire'[j] = r  BY <1>3, <1>4
<1> QED  BY <1>6, <1>7, <1>8 DEF n

LEMMA HeldSent ==
  ASSUME QueuesInv, Hyp, NEW t \in Threads, Held(t), transmit(t)
  PROVE  Held(t)'
<1> DEFINE c == Head(commands)
<1>1. /\ commands \in Seq(CommandType) /\ commands # <<>> /\ commands' = Tail(commands)
      /\ c \in CommandType /\ c = commands[1] /\ 1 \in 1..Len(commands)
      /\ Op(todo[t], 1) = "communicate"
      /\ UNCHANGED <<todo, raised, seen>>
      /\ \E a \in Answers(server, c), r \in ResultType :
           r.status = a.status /\ server' = a.server /\ wire' = Append(wire, r)
  BY SentParts
<1> HIDE DEF c
<1>2. PICK a \in Answers(server, c), r \in ResultType :
           r.status = a.status /\ server' = a.server /\ wire' = Append(wire, r)
  BY <1>1
<1>3. server \in ServerType /\ wire \in Seq(ResultType)  BY DEF QueuesInv, QueuesTyped
<1>4. \A j \in 1..Len(commands') : \E i \in 1..Len(commands) : commands'[j] = commands[i]
  BY <1>1, TailElements
<1>5. /\ \A j \in 1..Len(wire') : wire'[j] = r \/ \E i \in 1..Len(wire) : wire'[j] = wire[i]
      /\ \A i \in 1..Len(wire) : \E j \in 1..Len(wire') : wire'[j] = wire[i]
      /\ \E j \in 1..Len(wire') : wire'[j] = r
  <2>1. QueuesTyped /\ r \in ResultType /\ wire' = Append(wire, r)  BY <1>2 DEF QueuesInv
  <2> QED  BY <2>1, AppendedWire
<1>6. /\ c.op # "sync" => a.status # "SYNC"
      /\ ~Ends(c) /\ server.status # "IDLE" => a.server.status # "IDLE"
      /\ c.op = "begin" /\ ~Ends(c) => \/ a.server.status # "IDLE"
                                      \/ a.status \in {"ERROR", "ABORTED"}
  BY <1>1, <1>2, <1>3, AnswersStatus
<1>7. c.op \notin Ending => ~Ends(c)  BY <1>1, HypEnds
<1>8. /\ Op(todo'[t], 1) = "communicate" /\ Op(todo'[t], 2) = Op(todo[t], 2)
      /\ Beginning(t)' <=> Beginning(t)
  BY <1>1, SamePhase
<1>9. CASE Draining(t)
  <2>1. Synced /\ NoQueries /\ Op(todo[t], 2) \in {"fetch", "exit_fetch"}
    BY <1>1, <1>9 DEF Draining
  <2>2. Synced'  BY <2>1, SyncedSent
  <2>3. NoQueries'  BY <1>4, <2>1 DEF NoQueries
  <2>4. Draining(t)'  BY <1>8, <2>1, <2>2, <2>3 DEF Draining
  <2>5. ASSUME Begun  PROVE Begun'
    <3>1. \A i \in 1..Len(commands') : commands'[i].op \notin Ending  BY <1>4, <2>5 DEF Begun
    <3>2. ~Ends(c)  BY <1>1, <1>7, <2>5 DEF Begun
    <3>3. CASE Open  BY <1>2, <1>6, <3>1, <3>2, <3>3 DEF Open, Begun
    <3>4. CASE raised  BY <1>1, <3>1, <3>4 DEF Begun
    <3>5. CASE \E i \in 1..Len(wire) : wire[i].status \in {"ERROR", "ABORTED"}
      <4>1. \E i \in 1..Len(wire') : wire'[i].status \in {"ERROR", "ABORTED"}
        BY <1>5, <3>5
      <4> QED  BY <3>1, <4>1 DEF Begun
    <3>6. CASE Len(commands) >= 2 /\ commands[Len(commands) - 1].op = "begin"
      <4> DEFINE n == Len(commands)
      <4>1. /\ n \in Nat /\ Len(commands') = n - 1
            /\ \A i \in 1..(n - 1) : commands'[i] = commands[i + 1]
        <5>1. Len(Tail(commands)) = n - 1 /\ n \in Nat
              /\ \A i \in 1..Len(Tail(commands)) : Tail(commands)[i] = commands[i + 1]
          BY <1>1, TailParts
        <5> QED  BY <1>1, <5>1
      <4>2. n >= 2 /\ commands[n - 1].op = "begin"  BY <3>6
      <4>3. CASE n = 2
        <5>1. c.op = "begin"  BY <1>1, <4>2, <4>3
        <5>2. Open' \/ a.status \in {"ERROR", "ABORTED"}  BY <1>2, <1>6, <3>2, <5>1 DEF Open
        <5>3. a.status \in {"ERROR", "ABORTED"} =>
                \E i \in 1..Len(wire') : wire'[i].status \in {"ERROR", "ABORTED"}
          BY <1>2, <1>5
        <5> QED  BY <3>1, <5>2, <5>3 DEF Begun
      <4>4. CASE n # 2
        <5> HIDE DEF n
        <5>1. n - 1 >= 2 /\ (n - 1) - 1 \in 1..(n - 1) /\ ((n - 1) - 1) + 1 = n - 1
          BY <4>1, <4>2, <4>4
        <5>2. commands'[(n - 1) - 1].op = "begin"  BY <4>1, <4>2, <5>1
        <5>3. Len(commands') >= 2 /\ commands'[Len(commands') - 1].op = "begin"
          BY <4>1, <5>1, <5>2
        <5> QED  BY <3>1, <5>3 DEF Begun
      <4> QED  BY <4>3, <4>4
    <3> QED  BY <2>5, <3>3, <3>4, <3>5, <3>6 DEF Begun
  <2> QED  BY <1>8, <2>4, <2>5, HeldDraining DEF Held
<1>10. CASE ~Draining(t)
  <2>1. Steady(t) /\ ~Beginning(t)  BY <1>10 DEF Held
  <2>2. Calm /\ Open  BY <1>1, <2>1 DEF Steady
  <2>3. c.op \notin Ending \cup {"sync", "begin"}  BY <1>1, <2>2 DEF Calm
  <2>4. a.status # "SYNC" /\ Open'  BY <1>2, <1>6, <1>7, <2>2, <2>3 DEF Open
  <2>5. \A j \in 1..Len(commands') : commands'[j].op \notin Ending \cup {"sync", "begin"}
    BY <1>4, <2>2 DEF Calm
  <2>6. \A j \in 1..Len(wire') : wire'[j].status # "SYNC"  BY <1>2, <1>5, <2>2, <2>4 DEF Calm
  <2>7. Calm'  BY <2>4, <2>5, <2>6 DEF Calm
  <2> QED  BY <1>8, <2>1, <2>4, <2>7, HeldSteady
<1> QED  BY <1>9, <1>10

LEMMA HeldRead ==
  ASSUME QueuesInv, NEW t \in Threads, Held(t), receive(t)
  PROVE  Held(t)'
<1>1. /\ wire # <<>> /\ wire' = Tail(wire) /\ UNCHANGED <<commands, todo, server>>
      /\ raised' = (raised \/ Head(wire).status \in {"ERROR", "ABORTED"})
      /\ seen' = IF Head(wire).status = "SYNC" THEN Head(wire).tx ELSE seen
  BY DEF receive
<1>2. wire \in Seq(ResultType)  BY DEF QueuesInv, QueuesTyped
<1>3. \A j \in 1..Len(wire') : \E i \in 1..Len(wire) : wire'[j] = wire[i]
  BY <1>1, <1>2, TailElements
<1>4. Head(wire) = wire[1] /\ 1 \in 1..Len(wire)  BY <1>1, <1>2, TailParts
<1>5. /\ Op(todo'[t], 1) = Op(todo[t], 1) /\ Op(todo'[t], 2) = Op(todo[t], 2)
      /\ Beginning(t)' <=> Beginning(t)
  BY <1>1, SamePhase
<1>6. NoQueries => NoQueries'  BY <1>1 DEF NoQueries
<1>7. CASE Draining(t)
  <2>1. Synced /\ NoQueries  BY <1>7 DEF Draining
  <2>2. Synced'  BY <2>1, SyncedRead
  <2>3. Draining(t)'  BY <1>1, <1>5, <1>6, <1>7, <2>2 DEF Draining
  <2>4. ASSUME Begun  PROVE Begun'
    <3>1. \A i \in 1..Len(commands') : commands'[i].op \notin Ending  BY <1>1, <2>4 DEF Begun
    <3>2. CASE Open \/ raised \/ (Len(commands) >= 2 /\ commands[Len(commands) - 1].op = "begin")
      BY <1>1, <3>1, <3>2 DEF Open, Begun
    <3>3. CASE \E i \in 1..Len(wire) : wire[i].status \in {"ERROR", "ABORTED"}
      <4>1. PICK i \in 1..Len(wire) : wire[i].status \in {"ERROR", "ABORTED"}  BY <3>3
      <4>2. CASE i = 1  BY <1>1, <1>4, <3>1, <4>1, <4>2 DEF Begun
      <4>3. CASE i # 1
        <5> DEFINE n == Len(wire)
        <5>1. /\ n \in Nat /\ Len(wire') = n - 1
              /\ \A k \in 1..(n - 1) : wire'[k] = wire[k + 1]
          <6>1. Len(Tail(wire)) = n - 1 /\ n \in Nat
                /\ \A k \in 1..Len(Tail(wire)) : Tail(wire)[k] = wire[k + 1]
            BY <1>1, <1>2, TailParts
          <6> QED  BY <1>1, <6>1
        <5>2. i \in 1..n  OBVIOUS
        <5> HIDE DEF n
        <5>3. PICK k \in 1..(n - 1) : k + 1 = i  BY <4>3, <5>1, <5>2
        <5>4. wire'[k].status \in {"ERROR", "ABORTED"}  BY <4>1, <5>1, <5>3
        <5> QED  BY <3>1, <5>1, <5>3, <5>4 DEF Begun
      <4> QED  BY <4>2, <4>3
    <3> QED  BY <2>4, <3>2, <3>3 DEF Begun
  <2> QED  BY <1>5, <2>3, <2>4, HeldDraining DEF Held
<1>8. CASE ~Draining(t)
  <2>1. Steady(t) /\ ~Beginning(t)  BY <1>8 DEF Held
  <2>2. Calm /\ Open  BY <1>1, <2>1 DEF Steady, Calm
  <2>3. seen' = seen  BY <1>1, <1>4, <2>2 DEF Calm
  <2>4. Open'  BY <1>1, <2>2 DEF Open
  <2>5. \A j \in 1..Len(wire') : wire'[j].status # "SYNC"  BY <1>3, <2>2 DEF Calm
  <2>6. Calm'  BY <1>1, <2>2, <2>4, <2>5 DEF Calm
  <2> QED  BY <1>5, <1>6, <2>1, <2>4, <2>6, HeldSteady DEF Steady
<1> QED  BY <1>7, <1>8

\* What a batch of results leaves, and whether the exception met is raised.
LEMMA BatchParts ==
  ASSUME QueuesInv, LeaveInv, NEW t \in Threads, batch_ends(t)
  PROVE  LET T == todo[t]
             X == todo'[t]
         IN  /\ UNCHANGED <<queues, network>>
             /\ X \in Seq(PhaseType) /\ Rest(T, X)
             /\ Op(X, 1) # "none" => Link(Op(T, 1), Op(X, 1))
             /\ ~raised => Op(X, 1) = Op(T, 2) /\ Op(X, 2) = Op(T, 3)
             /\ raised => Op(X, 1) \in Finally \cup {"none"}
             /\ \/ Op(T, 1) = "communicate" /\ commands = <<>>
                \/ Op(T, 1) \in {"fetch", "exit_fetch"} /\ wire = <<>>
<1>1. TodoTyped /\ QueuesTyped /\ InStep /\ Ordered(todo[t])
  BY DEF QueuesInv, CacheInv, LeaveInv, InOrder
<1>2. /\ \/ At(t, "communicate") /\ commands = <<>>
         \/ (At(t, "fetch") \/ At(t, "exit_fetch")) /\ (results = <<>> \/ wire = <<>>)
      /\ ContinueIf(~raised, t) /\ UNCHANGED <<queues, network>>
      /\ past' = [past EXCEPT !.skipped = @ \/ (raised /\ wire # <<>>)]
  BY DEF batch_ends
<1>3. results = <<>> => wire = <<>>
  <2>1. Len(wire) \in Nat /\ Len(commands) \in Nat  BY <1>1, SeqParts DEF QueuesTyped
  <2>2. results = <<>> => Len(wire) = 0  BY <1>1, <2>1 DEF InStep
  <2>3. Len(wire) = 0 => wire = <<>>  BY <1>1, EmptySeq DEF QueuesTyped
  <2> QED  BY <2>2, <2>3
<1>4. \/ Op(todo[t], 1) = "communicate" /\ commands = <<>>
      \/ Op(todo[t], 1) \in {"fetch", "exit_fetch"} /\ wire = <<>>
  <2>1. At(t, "communicate") => Op(todo[t], 1) = "communicate"  BY <1>1, OpHead
  <2>2. At(t, "fetch") => Op(todo[t], 1) = "fetch"  BY <1>1, OpHead
  <2>3. At(t, "exit_fetch") => Op(todo[t], 1) = "exit_fetch"  BY <1>1, OpHead
  <2> QED  BY <1>2, <1>3, <2>1, <2>2, <2>3
<1>5. todo[t] # <<>>  BY <1>2 DEF At
<1>6. /\ todo'[t] \in Seq(PhaseType) /\ Rest(todo[t], todo'[t])
      /\ ~raised => Op(todo'[t], 1) = Op(todo[t], 2) /\ Op(todo'[t], 2) = Op(todo[t], 3)
      /\ raised => Op(todo'[t], 1) \in Finally \cup {"none"}
  BY <1>1, <1>2, <1>5, Moves
<1>7. Op(todo'[t], 1) # "none" => Link(Op(todo[t], 1), Op(todo'[t], 1))  BY <1>6 DEF Rest
<1> QED  BY <1>2, <1>4, <1>6, <1>7

\* The history is a record, and says when results were skipped.
LEMMA NotSkipped ==
  ASSUME PastTyped, Hyp', NEW t \in Threads, batch_ends(t)
  PROVE  raised => wire = <<>>
<1>1. past' = [past EXCEPT !.skipped = @ \/ (raised /\ wire # <<>>)]  BY DEF batch_ends
<1>2. past'.skipped = (past.skipped \/ (raised /\ wire # <<>>))  BY <1>1 DEF PastTyped
<1>3. ~past'.skipped  BY DEF Hyp
<1> QED  BY <1>2, <1>3

LEMMA HeldBatch ==
  ASSUME QueuesInv, LeaveInv, PastTyped, Hyp', NEW t \in Threads, Held(t), batch_ends(t)
  PROVE  Held(t)'
<1> DEFINE T == todo[t]
           X == todo'[t]
<1>1. /\ UNCHANGED <<queues, network>> /\ X \in Seq(PhaseType) /\ Rest(T, X)
      /\ Op(X, 1) # "none" => Link(Op(T, 1), Op(X, 1))
      /\ ~raised => Op(X, 1) = Op(T, 2) /\ Op(X, 2) = Op(T, 3)
      /\ raised => Op(X, 1) \in Finally \cup {"none"}
      /\ \/ Op(T, 1) = "communicate" /\ commands = <<>>
         \/ Op(T, 1) \in {"fetch", "exit_fetch"} /\ wire = <<>>
  BY BatchParts
<1>2. raised => wire = <<>>  BY NotSkipped
<1>3. /\ Op(X, 1) = "fetch" /\ Op(X, 2) = "send" => Op(T, 2) = "fetch" /\ Op(T, 3) = "send"
      /\ Op(X, 1) \notin {"send", "communicate", "fetch"} \/ ~raised
  BY <1>1 DEF Rest, Finally
<1>4. /\ Op(X, 1) # "communicate"
      /\ Op(X, 1) = "fetch" => Op(T, 1) = "communicate"
      /\ Op(X, 1) = "send" => Op(T, 1) # "exit_fetch"
  BY <1>1 DEF Link
<1>5. commands' = commands /\ wire' = wire /\ server' = server /\ seen' = seen
  BY <1>1 DEF queues, network
<1>6. Open => Open'  BY <1>5 DEF Open
<1>7. Synced => Synced'  BY <1>5 DEF Synced
\* All is read, or all is known to be.
<1>8. ASSUME Synced, commands = <<>>, wire = <<>>  PROVE Calm' /\ NoQueries'
  <2>1. seen = server.status  BY <1>8 DEF Synced
  <2> QED  BY <1>5, <1>8, <2>1 DEF Calm, NoQueries, Open
<1>9. CASE Draining(t) /\ Op(T, 1) = "communicate"
  <2>1. /\ Synced /\ NoQueries /\ commands = <<>> /\ Op(T, 2) \in {"fetch", "exit_fetch"}
    BY <1>1, <1>9 DEF Draining
  <2>2. CASE raised
    <3>1. Calm' /\ NoQueries'  BY <1>2, <1>8, <2>1, <2>2
    <3>2. Op(X, 1) \notin {"send", "communicate", "fetch"}  BY <1>3, <2>2
    <3>3. ~Beginning(t)'  BY <3>2, NotBeginning
    <3> QED  BY <3>1, <3>2, <3>3, HeldSteady
  <2>3. CASE ~raised
    <3>1. Op(X, 1) \in {"fetch", "exit_fetch"} /\ Op(X, 2) = Op(T, 3) /\ Op(X, 1) = Op(T, 2)
      BY <1>1, <2>1, <2>3
    <3>2. NoQueries' /\ commands' = <<>>  BY <1>5, <2>1 DEF NoQueries
    <3>3. Draining(t)'  BY <1>7, <2>1, <3>1, <3>2 DEF Draining
    <3>4. ASSUME Beginning(t)'  PROVE Begun'
      <4>1. Op(X, 1) = "fetch" /\ Op(X, 2) = "send"  BY <3>1, <3>4 DEF Beginning
      <4>2. Beginning(t)  BY <1>9, <3>1, <4>1 DEF Beginning
      <4>3. Begun  BY <4>2 DEF Held
      <4>4. ~(Len(commands) >= 2)  BY <2>1
      <4>5. \/ Open
            \/ \E i \in 1..Len(wire) : wire[i].status \in {"ERROR", "ABORTED"}
        BY <2>3, <4>3, <4>4 DEF Begun
      <4>6. \A i \in 1..Len(commands') : commands'[i].op \notin Ending
        BY <1>5, <4>3 DEF Begun
      <4> QED  BY <1>5, <1>6, <4>5, <4>6 DEF Begun
    <3> QED  BY <3>3, <3>4, HeldDraining
  <2> QED  BY <2>2, <2>3
<1>10. CASE Draining(t) /\ Op(T, 1) # "communicate"
  <2>1. Synced /\ commands = <<>> /\ wire = <<>>  BY <1>1, <1>10 DEF Draining
  <2>2. Calm' /\ NoQueries'  BY <1>8, <2>1
  <2>3. ~Beginning(t)'  BY <1>4, <1>10, NotBeginning
  <2>4. ASSUME Op(X, 1) = "send"  PROVE Open'
    <3>1. ~raised  BY <1>3, <2>4
    <3>2. Op(T, 2) = "send" /\ Op(T, 1) = "fetch"  BY <1>1, <1>4, <1>10, <2>4, <3>1
    <3>3. Beginning(t)  BY <3>2 DEF Beginning
    <3>4. Begun  BY <3>3 DEF Held
    <3>5. ~(Len(commands) >= 2) /\ Len(wire) = 0  BY <2>1
    <3>6. Open  BY <3>1, <3>4, <3>5 DEF Begun
    <3> QED  BY <1>6, <3>6
  <2> QED  BY <1>4, <2>2, <2>3, <2>4, HeldSteady
<1>11. CASE ~Draining(t)
  <2>1. Steady(t) /\ ~Beginning(t)  BY <1>11 DEF Held
  <2>2. Calm' /\ NoQueries'
    <3>1. Calm'  BY <1>1, <2>1, CalmKept DEF Steady
    <3>2. CASE commands = <<>>  BY <1>5, <3>2, <3>1 DEF NoQueries
    <3>3. CASE commands # <<>>
      <4>1. Op(T, 1) # "communicate"  BY <1>1, <3>3
      <4>2. NoQueries  BY <2>1, <4>1 DEF Steady
      <4> QED  BY <1>5, <3>1, <4>2 DEF NoQueries
    <3> QED  BY <3>2, <3>3
  <2>3. ~Beginning(t)'
    <3>1. ~(Op(X, 1) = "fetch" /\ Op(X, 2) = "send")
      <4>1. ASSUME Op(X, 1) = "fetch", Op(X, 2) = "send"  PROVE FALSE
        <5>1. Op(T, 1) = "communicate" /\ Op(T, 2) = "fetch" /\ Op(T, 3) = "send"
          BY <1>3, <1>4, <4>1
        <5> QED  BY <2>1, <5>1 DEF Beginning
      <4> QED  BY <4>1
    <3> QED  BY <1>4, <3>1, NotBeginning
  <2>4. ASSUME Op(X, 1) = "send"  PROVE Open'
    <3>1. ~raised  BY <1>3, <2>4
    <3>2. Op(T, 2) = "send" /\ Op(T, 1) \in {"communicate", "fetch"}
      BY <1>1, <1>4, <2>4, <3>1
    <3>3. Op(T, 1) = "communicate"  BY <2>1, <3>2 DEF Beginning
    <3>4. Open  BY <2>1, <3>3 DEF Steady
    <3> QED  BY <1>6, <3>4
  <2> QED  BY <1>4, <2>2, <2>3, <2>4, HeldSteady
<1> QED  BY <1>9, <1>10, <1>11

\* A pipeline is left: nothing is in flight.
LEMMA HeldLeft ==
  ASSUME QueuesInv, LeaveInv, OneThread, NEW t \in Threads, leave(t)
  PROVE  Held(t)'
<1>1. todo'[t] = <<>>  BY Leaves
<1>2. Op(todo'[t], 1) = "none"  BY <1>1 DEF Op
<1>3. TodoTyped /\ Leaving(t)  BY DEF QueuesInv, CacheInv, LeaveInv
<1>4. At(t, "leave") /\ UNCHANGED <<queues, network>>  BY DEF leave
<1>5. Op(todo[t], 1) = "leave"  BY <1>3, <1>4, OpHead
<1>6. Synced /\ commands = <<>> /\ wire = <<>>  BY <1>3, <1>5 DEF Leaving
<1>7. seen = server.status  BY <1>6 DEF Synced
<1>8. commands' = commands /\ wire' = wire /\ server' = server /\ seen' = seen
  BY <1>4 DEF queues, network
<1>9. Calm' /\ NoQueries'  BY <1>6, <1>7, <1>8 DEF Calm, NoQueries, Open
<1>10. ~Beginning(t)'  BY <1>2, NotBeginning
<1> QED  BY <1>2, <1>9, <1>10, HeldSteady

LEMMA HeldStep ==
  ASSUME QueuesInv, LeaveInv, LeaveInv', PastTyped, OneThread, Hyp', NEW t \in Threads,
         Step(t), Hyp => Held(t), [Next]_vars
  PROVE  Held(t)'
<1>1. CASE leave(t)  BY <1>1, HeldLeft
<1>2. CASE ~leave(t)
  <2>1. Hyp  BY <1>2, HypKept DEF OneThread
  <2>2. Held(t) /\ TodoTyped  BY <2>1 DEF QueuesInv, CacheInv
  <2>3. CASE start_now(t) \/ prepare_fails(t) \/ execute_now(t) \/ maintain_now(t) \/ rollback_now(t)
    BY <2>3, HeldNow
  <2>4. CASE start_skipped(t) \/ maintain_ends(t) \/ ride(t) \/ rollback_skipped(t) \/ enters(t)
    BY <2>1, <2>2, <2>4, HeldOutside
  <2>5. CASE \/ start_enqueued(t) \/ rollback_enqueued(t) \/ maintain_enqueued(t)
             \/ exit_gen(t) \/ enter_syncs(t)
    BY <2>2, <2>5, HeldQueued
  <2>6. CASE execute_enqueued(t)  BY <2>2, <2>6, HeldExecuted
  <2>7. CASE transmit(t)  BY <2>1, <2>2, <2>7, HeldSent
  <2>8. CASE receive(t)  BY <2>2, <2>8, HeldRead
  <2>9. CASE batch_ends(t)  BY <2>2, <2>9, HeldBatch
  <2> QED  BY <1>2, <2>3, <2>4, <2>5, <2>6, <2>7, <2>8, <2>9 DEF Step
<1> QED  BY <1>1, <1>2

LEMMA TransCorrect == ASSUME OneThread PROVE Spec => []TransInv
<1>1. Init => TransInv
  <2> SUFFICES ASSUME Init, NEW t \in Threads  PROVE Held(t)
    BY DEF TransInv
  <2>1. todo[t] = <<>> /\ commands = <<>> /\ wire = <<>> /\ seen = "IDLE"  BY DEF Init
  <2>2. Op(todo[t], 1) = "none"  BY <2>1 DEF Op
  <2>3. Calm /\ NoQueries  BY <2>1 DEF Calm, NoQueries
  <2> QED  BY <2>2, <2>3 DEF Held, Steady, Beginning
<1>2. QueuesInv /\ LeaveInv /\ LeaveInv' /\ PlainInv /\ TransInv /\ [Next]_vars => TransInv'
  <2> SUFFICES ASSUME QueuesInv, LeaveInv, LeaveInv', PlainInv, TransInv, [Next]_vars
               PROVE TransInv'
    OBVIOUS
  <2>1. PastTyped  BY DEF PlainInv
  <2>2. CASE UNCHANGED vars
    BY <2>2 DEF vars, queues, network, TransInv, Hyp, Held, Steady, Draining, Beginning, Begun,
                Calm, NoQueries, Open, Synced
  <2>3. ASSUME NEW t \in Threads, Call(t)  PROVE TransInv'
    <3>1. ~leave(t)
      <4>1. todo[t] = <<>>
        BY <2>3 DEF Call, execute, executemany, enter, exit, sync, fetch, commit_now,
                    commit_enqueued, rollback, Idle
      <4> QED  BY <4>1 DEF leave, At
    <3>2. Hyp' => Hyp  BY <2>1, <3>1, HypKept DEF OneThread
    <3>3. Hyp' => Held(t)'  BY <2>3, <3>2, HeldCall DEF TransInv
    <3> QED  BY <3>3, TransNext
  <2>4. ASSUME NEW t \in Threads, Step(t)  PROVE TransInv'
    <3>1. Hyp => Held(t)  BY DEF TransInv
    <3>2. Hyp' => Held(t)'  BY <2>1, <2>4, <3>1, HeldStep
    <3> QED  BY <3>2, TransNext
  <2> QED  BY <2>2, <2>3, <2>4 DEF Next
<1> QED  BY <1>1, <1>2, QueuesCorrect, LeaveCorrect, PlainCorrect, PTL DEF Spec

\* When the last pipeline is left nothing remains to send or to read, and unless
\* in autocommit the server executes every query in a transaction, whatever the
\* pipelines hide of its status, for any queries, failures and exceptions, when
\* one thread uses the connection (BasePipeline._exit, _start_query, _sync_gen).
THEOREM PipelineSoundCorrect == ASSUME OneThread PROVE Spec => []PipelineSound
<1>1. QueuesInv /\ LeaveInv /\ TransInv => PipelineSound
  <2> SUFFICES ASSUME QueuesInv, LeaveInv, TransInv  PROVE LeavesNothing /\ InTransaction
    BY DEF PipelineSound
  <2>1. LeavesNothing  BY DEF LeaveInv, Clean, LeavesNothing
  <2>2. TodoTyped /\ QueuesTyped  BY DEF QueuesInv, CacheInv
  <2>3. ASSUME Hyp, NEW t \in Threads, At(t, "send")  PROVE Open
    <3>1. Held(t) /\ Op(todo[t], 1) = "send"  BY <2>2, <2>3, OpHead DEF TransInv
    <3> QED  BY <3>1, HeadSteady
  <2>4. ASSUME Hyp, NEW t \in Threads, At(t, "communicate"), commands # <<>>,
               Owner(Head(commands)) # NoQuery
        PROVE  Open
    <3>1. Held(t) /\ Op(todo[t], 1) = "communicate"  BY <2>2, <2>4, OpHead DEF TransInv
    <3>2. Head(commands) = commands[1] /\ 1 \in 1..Len(commands)
      BY <2>2, <2>4, TailParts DEF QueuesTyped
    <3>3. ~NoQueries  BY <2>4, <3>2 DEF NoQueries
    <3> QED  BY <3>1, <3>3 DEF Held, Steady, Draining
  <2>5. InTransaction  BY <2>3, <2>4 DEF InTransaction, Hyp, Open
  <2> QED  BY <2>1, <2>5
<1> QED  BY <1>1, QueuesCorrect, LeaveCorrect, TransCorrect, PTL

=============================================================================
