-------------------------- MODULE AsyncPoolProofs --------------------------
(***************************************************************************)
(* Theorems about AsyncConnectionPool, for any number of tasks and         *)
(* connections and any pools to start from.                                *)
(*                                                                         *)
(*  - AsyncTypeOKCorrect: every variable keeps its type, wherever tasks    *)
(*    are cancelled (AsyncTypeOK);                                         *)
(*  - AsyncAccountingCorrect: the pool counts its connections right until  *)
(*    it is closed (AsyncAccounting), if no task is cancelled while it     *)
(*    holds connections: those would be lost.                              *)
(*                                                                         *)
(* Steady says what the count rests on: which task may be where, and holds *)
(* a connection there (Hands); when check() and close() have a list        *)
(* (Batches); which tasks may be queued (Jobs); that nothing happens       *)
(* before open() (Unopened); that who is queued has nothing yet (Queue).   *)
(* CountInv splits the count into what the tasks of the loop have in hand  *)
(* (InHands) and what is there for any of them (OnHand): a step moves one  *)
(* task, so it changes the first by that task's Part, and each term of the *)
(* second by a number that the step tells.                                 *)
(***************************************************************************)
EXTENDS AsyncConnectionPool, FiniteSetTheorems, TLAPS

\* The places where a task holds a connection.
Holding == {"checking", "using", "putconn", "returning", "adding"}
\* The places of each kind of task.
ClientPlaces == Holding \cup {"idle", "getconn", "connecting", "waiting", "sleeping"}
WorkerPlaces == {"off", "idle", "connecting", "returning", "adding", "giveup", "stopped"}
AdminPlaces  == {"start", "closing", "gather", "check_next", "await_full", "done"}

\* Each task is where its kind may be, with a connection where it holds one.
Hands == /\ \A c \in Clients : pc[c] \in ClientPlaces
         /\ \A w \in Workers : pc[w] \in WorkerPlaces
         /\ \A a \in Admins  : pc[a] \in AdminPlaces
         /\ \A t \in Tasks   : cur[t] \in Conns <=> pc[t] \in Holding

\* What check() or close() took is in its hands while it goes through it.
Batches ==
  \A a \in Admins :
    /\ batch[a] # <<>> => pc[a] \in {"check_next", "gather"}
    /\ pc[a] = "check_next" => batch[a] # <<>> /\ kind = "pool"
    /\ pc[a] = "gather" => closed

\* A task that returns has a connection; only a pool grows.
TaskOK(k) == /\ k.kind = "return" => k.conn \in Conns
             /\ k.growing => kind = "pool"

\* So it is for what is queued, delayed or under way; nobody waits for a null pool to be
\* full where it counts its connections.
Jobs == /\ \A i \in DOMAIN tasks : TaskOK(tasks[i])
        /\ \A w \in Workers : job[w].growing => kind = "pool"
        /\ sched["grow"] > 0 => kind = "pool"
        /\ Counted /\ kind = "null" => full_event = "none"

\* Before open() nothing has happened, but that some admin calls were cancelled.
Unopened ==
  ~opened =>
    /\ closed /\ pool = <<>> /\ waiting = <<>> /\ nconns = min_size
    /\ kind = "null" => min_size = 0
    /\ sched = [k \in DelayedKinds |-> 0] /\ slot = [c \in Clients |-> NoConn]
    /\ cur = [t \in Tasks |-> NoConn] /\ batch = [a \in Admins |-> <<>>]
    /\ \A c \in Clients : pc[c] = "idle"
    /\ \A w \in Workers : pc[w] = "off"
    /\ \A a \in Admins  : pc[a] \in {"start", "done"}

\* In queue w each client is at most once, and waits, with nothing in its slot yet; and
\* only who waits has something in its slot.
QueueOK(w, s, p) ==
  /\ \A i \in DOMAIN w :
       w[i] # Gone => /\ p[w[i]] = "waiting" /\ s[w[i]] = NoConn
                      /\ \A j \in DOMAIN w : w[j] = w[i] => j = i
  /\ \A c \in Clients : s[c] \in Conns => p[c] = "waiting"

\* So it is until the pool is closed.
Queue == ~closed => QueueOK(waiting, slot, pc)

Steady == AsyncTypeOK /\ Hands /\ Batches /\ Jobs /\ Unopened /\ Queue

-----------------------------------------------------------------------------
(* Counting                                                                *)

\* A set that differs from S in t at most.
LEMMA OneChange ==
  ASSUME NEW S, NEW U, IsFiniteSet(S), NEW e, \A u : u # e => (u \in U <=> u \in S)
  PROVE  /\ IsFiniteSet(U) /\ Cardinality(S) \in Nat /\ Cardinality(U) \in Nat
         /\ e \in U /\ e \notin S => Cardinality(U) = Cardinality(S) + 1
         /\ e \notin U /\ e \in S => Cardinality(U) = Cardinality(S) - 1
         /\ (e \in U <=> e \in S) => Cardinality(U) = Cardinality(S)
<1>1. Cardinality(S) \in Nat
  BY FS_CardinalityType
<1>2. CASE e \in U
  <2>1. U = S \cup {e}
    BY <1>2
  <2> QED
    BY <1>1, <1>2, <2>1, FS_AddElement
<1>3. CASE e \notin U
  <2>1. U = S \ {e}
    BY <1>3
  <2>2. IsFiniteSet(U) /\ Cardinality(U) = IF e \in S THEN Cardinality(S) - 1 ELSE Cardinality(S)
    BY <2>1, FS_RemoveElement
  <2>3. Cardinality(U) \in Nat
    BY <2>2, FS_CardinalityType
  <2> QED
    BY <1>1, <1>3, <2>2, <2>3
<1> QED
  BY <1>2, <1>3

\* How many tasks of s are in K.
NQueued(s, K) == Cardinality({i \in DOMAIN s : s[i] \in K})

\* A queue has finitely many tasks of a kind.
LEMMA QueuedFinite ==
  ASSUME NEW s \in Seq(MaintenanceTask), NEW K
  PROVE  IsFiniteSet({i \in DOMAIN s : s[i] \in K}) /\ NQueued(s, K) \in Nat
<1>1. IsFiniteSet(1..Len(s)) /\ DOMAIN s = 1..Len(s)
  BY FS_Interval
<1> QED
  BY <1>1, FS_Subset, FS_CardinalityType DEF NQueued

\* Adding a task at the end.
LEMMA QueuedAppend ==
  ASSUME NEW s \in Seq(MaintenanceTask), NEW t \in MaintenanceTask, NEW K
  PROVE  /\ t \in K => NQueued(Append(s, t), K) = NQueued(s, K) + 1
         /\ t \notin K => NQueued(Append(s, t), K) = NQueued(s, K)
<1> DEFINE S == {i \in DOMAIN s : s[i] \in K}
           u == Append(s, t)
           U == {i \in DOMAIN u : u[i] \in K}
           n == Len(s) + 1
<1>1. /\ DOMAIN u = 1..n /\ DOMAIN s = 1..Len(s) /\ u[n] = t /\ Len(s) \in Nat
      /\ \A i \in DOMAIN s : u[i] = s[i]
  OBVIOUS
<1>2. \A i : i # n => (i \in U <=> i \in S)
  <2> HIDE DEF u
  <2>1. \A i : i # n => (i \in DOMAIN u <=> i \in DOMAIN s)
    BY <1>1
  <2> QED
    BY <1>1, <2>1
<1>3. n \notin S /\ (n \in U <=> t \in K)
  BY <1>1
<1>4. IsFiniteSet(S)
  BY QueuedFinite
<1>5. NQueued(s, K) = Cardinality(S) /\ NQueued(u, K) = Cardinality(U)
  BY DEF NQueued
<1> HIDE DEF S, U, u, n
<1>6. /\ n \in U /\ n \notin S => Cardinality(U) = Cardinality(S) + 1
      /\ (n \in U <=> n \in S) => Cardinality(U) = Cardinality(S)
  BY <1>2, <1>4, OneChange
<1>7. /\ t \in K => NQueued(u, K) = NQueued(s, K) + 1
      /\ t \notin K => NQueued(u, K) = NQueued(s, K)
  BY <1>3, <1>5, <1>6
<1> QED
  BY <1>7 DEF u

\* Taking the first task away.
LEMMA QueuedTail ==
  ASSUME NEW s \in Seq(MaintenanceTask), s # <<>>, NEW K
  PROVE  /\ Head(s) \in K => NQueued(Tail(s), K) = NQueued(s, K) - 1
         /\ Head(s) \notin K => NQueued(Tail(s), K) = NQueued(s, K)
<1> DEFINE S == {i \in DOMAIN s : s[i] \in K}
           u == Tail(s)
           U == {i \in DOMAIN u : u[i] \in K}
           f == [i \in U |-> i + 1]
           V == S \ {1}
<1>1. /\ DOMAIN s = 1..Len(s) /\ DOMAIN u = 1..(Len(s) - 1) /\ Len(s) \in Nat
      /\ Len(s) >= 1 /\ s[1] = Head(s)
      /\ \A i \in DOMAIN u : u[i] = s[i + 1] /\ u \in Seq(MaintenanceTask)
  OBVIOUS
<1> HIDE DEF u
<1>2. \A i \in U : i + 1 \in V /\ i \in Int
  BY <1>1
<1>3. \A j \in V : j - 1 \in U /\ j = (j - 1) + 1
  BY <1>1
<1>4. f \in Bijection(U, V)
  <2>1. f \in [U -> V]
    BY <1>2
  <2>2. \A i, j \in U : f[i] = f[j] => i = j
    BY <1>2
  <2>3. \A j \in V : \E i \in U : f[i] = j
    BY <1>3
  <2> HIDE DEF f, U, V
  <2> QED
    BY <2>1, <2>2, <2>3 DEF Bijection, Injection, IsInjective, Surjection
<1>5. ExistsBijection(U, V)
  BY <1>4 DEF ExistsBijection
<1>6. IsFiniteSet(S) /\ IsFiniteSet(U)
  <2>1. u \in Seq(MaintenanceTask)
    BY DEF u
  <2> QED
    BY <2>1, QueuedFinite
<1>7. 1 \in S <=> Head(s) \in K
  BY <1>1
<1>11. NQueued(s, K) = Cardinality(S) /\ NQueued(u, K) = Cardinality(U)
  BY DEF NQueued
<1> HIDE DEF S, U, V
<1>8. Cardinality(V) = Cardinality(U)
  BY <1>5, <1>6, FS_Bijection
<1>9. Cardinality(V) = IF 1 \in S THEN Cardinality(S) - 1 ELSE Cardinality(S)
  BY <1>6, FS_RemoveElement DEF V
<1>10. Cardinality(S) \in Nat
  BY <1>6, FS_CardinalityType
<1>12. /\ Head(s) \in K => NQueued(u, K) = NQueued(s, K) - 1
       /\ Head(s) \notin K => NQueued(u, K) = NQueued(s, K)
  BY <1>7, <1>8, <1>9, <1>10, <1>11
<1> QED
  BY <1>12 DEF u

\* The pairs of a and 1..n.
LEMMA PairsOf ==
  ASSUME NEW a, NEW n \in Nat
  PROVE  IsFiniteSet({a} \X (1..n)) /\ Cardinality({a} \X (1..n)) = n
<1> DEFINE f == [i \in 1..n |-> <<a, i>>]
           P == {a} \X (1..n)
<1>1. f \in [1..n -> P]
  OBVIOUS
<1>2. \A i, j \in 1..n : f[i] = f[j] => i = j
  OBVIOUS
<1>3. \A p \in P : \E i \in 1..n : f[i] = p
  OBVIOUS
<1> HIDE DEF f, P
<1>4. ExistsBijection(1..n, P)
  BY <1>1, <1>2, <1>3
     DEF ExistsBijection, Bijection, Injection, IsInjective, Surjection
<1>5. IsFiniteSet(1..n) /\ Cardinality(1..n) = n
  BY FS_Interval
<1> QED
  BY <1>4, <1>5, FS_Bijection DEF P

\* Pairs of an administrator and a number up to its own.
Pairs(f) == UNION {{a} \X (1..f[a]) : a \in Admins}

\* The number of one of them changes.
LEMMA PairsChange ==
  ASSUME NEW f \in [Admins -> Nat], NEW g \in [Admins -> Nat], NEW a \in Admins,
         \A b \in Admins : b # a => f[b] = g[b], IsFiniteSet(Pairs(f))
  PROVE  /\ IsFiniteSet(Pairs(g)) /\ Cardinality(Pairs(f)) \in Nat
         /\ Cardinality(Pairs(g)) = Cardinality(Pairs(f)) + g[a] - f[a]
<1> DEFINE F == {a} \X (1..f[a])
           G == {a} \X (1..g[a])
           D == Pairs(f) \ F
<1>0. /\ \A p : p \in Pairs(f) <=> \E b \in Admins : p \in {b} \X (1..f[b])
      /\ \A p : p \in Pairs(g) <=> \E b \in Admins : p \in {b} \X (1..g[b])
  BY DEF Pairs
<1>1. \A p : p \in D <=> \E b \in Admins : b # a /\ p \in {b} \X (1..f[b])
  BY <1>0
<1>2. Pairs(f) = D \cup F /\ D \cap F = {}
  BY <1>0
<1>3. Pairs(g) = D \cup G /\ D \cap G = {}
  BY <1>0, <1>1
<1>4. /\ IsFiniteSet(F) /\ Cardinality(F) = f[a]
      /\ IsFiniteSet(G) /\ Cardinality(G) = g[a]
  BY PairsOf
<1>5. IsFiniteSet(D) /\ Cardinality(D) \in Nat
  BY FS_Subset, FS_CardinalityType
<1> HIDE DEF F, G, D
<1>8. Cardinality({}) = 0
  BY FS_EmptySet
<1>9. Cardinality(F) \in Nat /\ Cardinality(G) \in Nat
  BY <1>4
<1>6. Cardinality(Pairs(f)) = Cardinality(D) + Cardinality(F)
  <2>1. Cardinality(D \cup F) = Cardinality(D) + Cardinality(F) - Cardinality(D \cap F)
    BY <1>4, <1>5, FS_Union
  <2> QED
    BY <1>2, <1>9, <1>5, <1>8, <2>1
<1>7. /\ Cardinality(Pairs(g)) = Cardinality(D) + Cardinality(G)
      /\ IsFiniteSet(Pairs(g))
  <2>1. /\ Cardinality(D \cup G) = Cardinality(D) + Cardinality(G) - Cardinality(D \cap G)
        /\ IsFiniteSet(D \cup G)
    BY <1>4, <1>5, FS_Union
  <2> QED
    BY <1>3, <1>9, <1>5, <1>8, <2>1
<1> QED
  BY <1>4, <1>5, <1>6, <1>7

-----------------------------------------------------------------------------
(* Types                                                                     *)

\* The tasks that actions queue.
LEMMA NewTasks ==
  /\ \A k \in {"add", "return", "shrink", "schedule", "stop"} :
       /\ Simple(k) \in MaintenanceTask /\ Simple(k).kind = k
       /\ Simple(k).conn = NoConn /\ Simple(k).growing = FALSE
  /\ \A g, r \in BOOLEAN : /\ AddConnection(g, r) \in MaintenanceTask
                           /\ AddConnection(g, r).kind = "add"
                           /\ AddConnection(g, r).growing = g
                           /\ AddConnection(g, r).conn = NoConn
  /\ \A x \in Conns : /\ ReturnConnection(x) \in MaintenanceTask
                      /\ ReturnConnection(x).kind = "return"
                      /\ ReturnConnection(x).growing = FALSE
                      /\ ReturnConnection(x).conn = x
BY DEF MaintenanceTask, Simple, AddConnection, ReturnConnection

\* Delayed tasks become tasks.
LEMMA DelayedTasks ==
  \A k \in DelayedKinds :
    /\ Delayed(k) \in MaintenanceTask /\ Delayed(k).conn = NoConn
    /\ Delayed(k).kind = IF k = "shrink" THEN "shrink" ELSE "add"
    /\ Delayed(k).growing => k = "grow"
<1> SUFFICES ASSUME NEW k \in DelayedKinds
    PROVE  /\ Delayed(k) \in MaintenanceTask /\ Delayed(k).conn = NoConn
           /\ Delayed(k).kind = IF k = "shrink" THEN "shrink" ELSE "add"
           /\ Delayed(k).growing => k = "grow"
  OBVIOUS
<1>1. CASE k = "shrink"
  <2>1. Delayed(k) = Simple("shrink")
    BY <1>1 DEF Delayed
  <2> QED
    BY <1>1, <2>1, NewTasks
<1>2. CASE k # "shrink"
  <2>1. (k = "grow") \in BOOLEAN /\ Delayed(k) = AddConnection(k = "grow", TRUE)
    BY <1>2 DEF Delayed
  <2>2. PICK g \in BOOLEAN : g = (k = "grow")
    BY <2>1
  <2>3. Delayed(k) = AddConnection(g, TRUE)
    BY <2>1, <2>2
  <2> QED
    BY <1>2, <2>2, <2>3, NewTasks
<1> QED
  BY <1>1, <1>2

\* run_task() keeps the type of the queue.
LEMMA RunType ==
  ASSUME tasks \in Seq(MaintenanceTask), NEW t \in MaintenanceTask, run_task(t)
  PROVE  tasks' \in Seq(MaintenanceTask)
BY DEF run_task

\* The statuses that libpq reports of a connection.
Statuses == {"UNKNOWN", "IDLE", "INTRANS", "ACTIVE"}

\* Mark() leaves one of them.
LEMMA MarkType ==
  ASSUME status \in [Conns -> Statuses], NEW x, NEW s \in Statuses, Mark(x, s)
  PROVE  status' \in [Conns -> Statuses]
BY DEF Mark

\* A task is one of the three kinds.
LEMMA TaskKinds ==
  /\ Clients \subseteq Tasks /\ Workers \subseteq Tasks /\ Admins \subseteq Tasks
  /\ Tasks = Clients \cup Workers \cup Admins
  /\ \A x \in Conns : x # NoConn /\ x # Failed
  /\ NoConn \notin Conns /\ Failed \notin Conns
BY AsyncConstantsAssumption DEF Tasks, Admins, NoConn, Failed

\* A part of a queue.
LEMMA SubSeqType ==
  ASSUME NEW S, NEW s \in Seq(S), NEW i \in DOMAIN s
  PROVE  SubSeq(s, i + 1, Len(s)) \in Seq(S)
OBVIOUS

\* Serving a connection keeps the types.
LEMMA ServeType ==
  ASSUME AsyncTypeOK, NEW x \in Conns, Serve(x)
  PROVE  /\ pool' \in Seq(Conns) /\ waiting' \in Seq(Clients \cup {Gone})
         /\ slot' \in [Clients -> Conns \cup {NoConn, Failed}]
         /\ status' \in [Conns -> Statuses] /\ full_event' \in {"none", "unset", "set"}
<1>t. /\ pool \in Seq(Conns) /\ waiting \in Seq(Clients \cup {Gone})
      /\ slot \in [Clients -> Conns \cup {NoConn, Failed}]
      /\ status \in [Conns -> Statuses] /\ full_event \in {"none", "unset", "set"}
  BY DEF AsyncTypeOK, Statuses
<1>1. CASE \E i \in DOMAIN waiting :
             /\ waiting[i] # Gone /\ slot' = [slot EXCEPT ![waiting[i]] = x]
             /\ waiting' = SubSeq(waiting, i + 1, Len(waiting))
             /\ Mark(x, "IDLE") /\ UNCHANGED poolVars
  <2>1. PICK i \in DOMAIN waiting :
             /\ waiting[i] # Gone /\ slot' = [slot EXCEPT ![waiting[i]] = x]
             /\ waiting' = SubSeq(waiting, i + 1, Len(waiting))
             /\ Mark(x, "IDLE") /\ UNCHANGED poolVars
    BY <1>1
  <2>2. waiting' \in Seq(Clients \cup {Gone})
    BY <1>t, <2>1, SubSeqType
  <2>3. status' \in [Conns -> Statuses]
    BY <1>t, <2>1, MarkType DEF Statuses
  <2>4. slot' \in [Clients -> Conns \cup {NoConn, Failed}]
    BY <1>t, <2>1
  <2> QED
    BY <1>t, <2>1, <2>2, <2>3, <2>4 DEF poolVars
<1>2. CASE waiting' = <<>> /\ UNCHANGED slot /\
           \/ /\ pool' = Append(pool, x) /\ Mark(x, "IDLE")
              /\ full_event' = IF full_event = "unset" /\ Len(pool) + 1 >= min_size
                               THEN "set" ELSE full_event
           \/ /\ Mark(x, "UNKNOWN")
              /\ full_event' = IF full_event = "none" THEN "none" ELSE "set"
              /\ UNCHANGED pool
  <2>1. status' \in [Conns -> Statuses]
    BY <1>t, <1>2, MarkType DEF Statuses
  <2>2. pool' \in Seq(Conns) /\ waiting' \in Seq(Clients \cup {Gone})
    BY <1>t, <1>2
  <2>3. full_event' \in {"none", "unset", "set"}
    BY <1>t, <1>2
  <2> QED
    BY <1>t, <1>2, <2>1, <2>2, <2>3
<1> QED
  BY <1>1, <1>2 DEF Serve

\* So does adding it to a pool that may be closed.
LEMMA AddType ==
  ASSUME AsyncTypeOK, NEW x \in Conns, Add(x)
  PROVE  /\ pool' \in Seq(Conns) /\ waiting' \in Seq(Clients \cup {Gone})
         /\ slot' \in [Clients -> Conns \cup {NoConn, Failed}]
         /\ status' \in [Conns -> Statuses] /\ full_event' \in {"none", "unset", "set"}
<1>1. CASE Mark(x, "UNKNOWN") /\ UNCHANGED <<poolVars, queueVars>>
  <2>1. status' \in [Conns -> Statuses]
    BY <1>1, MarkType DEF AsyncTypeOK, Statuses
  <2> QED
    BY <1>1, <2>1 DEF AsyncTypeOK, poolVars, queueVars
<1>2. CASE Serve(x)
  BY <1>2, ServeType
<1> QED
  BY <1>1, <1>2 DEF Add

-----------------------------------------------------------------------------
(* Handing a connection over                                                 *)

\* Task t may be at l with x in its local variable.
Fits(t, l, x) ==
  /\ t \in Clients => l \in ClientPlaces
  /\ t \in Workers => l \in WorkerPlaces
  /\ t \in Admins  => l \in AdminPlaces
  /\ x \in Conns \cup {NoConn} /\ (x \in Conns <=> l \in Holding)

\* Task t goes from where it is to such a place.
Goes(t, l, x) == /\ pc' = [pc EXCEPT ![t] = l] /\ cur' = [cur EXCEPT ![t] = x]
                 /\ Fits(t, l, x)

\* What the hand-over of a connection may touch keeps its types.
HandTyped ==
  /\ pool' \in Seq(Conns) /\ waiting' \in Seq(Clients \cup {Gone})
  /\ slot' \in [Clients -> Conns \cup {NoConn, Failed}]
  /\ status' \in [Conns -> Statuses] /\ full_event' \in {"none", "unset", "set"}
  /\ nconns' \in Int

\* The places are labels.
LEMMA PlacesAreLabels ==
  /\ ClientPlaces \subseteq Labels /\ WorkerPlaces \subseteq Labels
  /\ AdminPlaces \subseteq Labels /\ Holding \subseteq Labels
BY DEF ClientPlaces, WorkerPlaces, AdminPlaces, Holding, Labels, LockLabels

\* A task that goes on leaves its kind's hands in order.
LEMMA GoesHands ==
  ASSUME AsyncTypeOK, Hands, NEW t \in Tasks, NEW l, NEW x, Goes(t, l, x)
  PROVE  /\ Hands' /\ pc' \in [Tasks -> Labels] /\ cur' \in [Tasks -> Conns \cup {NoConn}]
         /\ pc'[t] = l /\ cur'[t] = x
         /\ \A u \in Tasks : u # t => pc'[u] = pc[u] /\ cur'[u] = cur[u]
<1>t. pc \in [Tasks -> Labels] /\ cur \in [Tasks -> Conns \cup {NoConn}]
  BY DEF AsyncTypeOK
<1>f. /\ t \in Clients => l \in ClientPlaces
      /\ t \in Workers => l \in WorkerPlaces
      /\ t \in Admins  => l \in AdminPlaces
      /\ x \in Conns \cup {NoConn} /\ (x \in Conns <=> l \in Holding)
      /\ pc' = [pc EXCEPT ![t] = l] /\ cur' = [cur EXCEPT ![t] = x]
  BY DEF Goes, Fits
<1>l. l \in Labels
  BY <1>f, PlacesAreLabels, TaskKinds
<1>1. /\ pc' \in [Tasks -> Labels] /\ cur' \in [Tasks -> Conns \cup {NoConn}]
      /\ pc'[t] = l /\ cur'[t] = x
      /\ \A u \in Tasks : u # t => pc'[u] = pc[u] /\ cur'[u] = cur[u]
  BY <1>t, <1>f, <1>l
<1>2. /\ \A c \in Clients : pc[c] \in ClientPlaces
      /\ \A w \in Workers : pc[w] \in WorkerPlaces
      /\ \A a \in Admins  : pc[a] \in AdminPlaces
      /\ \A u \in Tasks   : cur[u] \in Conns <=> pc[u] \in Holding
  BY DEF Hands
<1>3. /\ \A c \in Clients : pc'[c] \in ClientPlaces
      /\ \A w \in Workers : pc'[w] \in WorkerPlaces
      /\ \A a \in Admins  : pc'[a] \in AdminPlaces
  BY <1>1, <1>2, <1>f, TaskKinds
<1>4. \A u \in Tasks : cur'[u] \in Conns <=> pc'[u] \in Holding
  BY <1>1, <1>2, <1>f
<1>5. Hands'
  BY <1>3, <1>4 DEF Hands
<1> QED
  BY <1>1, <1>5

\* A task that only moves on.
LEMMA GoesKept ==
  ASSUME AsyncTypeOK, NEW t \in Tasks, NEW l, Goto(t, l), UNCHANGED cur, Fits(t, l, cur[t])
  PROVE  Goes(t, l, cur[t])
BY DEF Goes, Goto, AsyncTypeOK

\* Where a client or a worker goes when it has got rid of its connection.
LEMMA AfterFits ==
  ASSUME NEW t \in Clients \cup Workers
  PROVE  /\ After(t) \in {"sleeping", "idle"} /\ Fits(t, After(t), NoConn)
<1>1. t \notin Admins /\ (t \in Workers => t \notin Clients)
  BY AsyncTasksAssumption
<1>2. After(t) \in {"sleeping", "idle"} /\ (t \in Workers => After(t) = "idle")
  BY <1>1 DEF After
<1> QED
  BY <1>1, <1>2, TaskKinds DEF Fits, ClientPlaces, WorkerPlaces, Holding

\* AddOrQueue: types and place.
LEMMA AddOrQueueType ==
  ASSUME AsyncTypeOK, NEW t \in Clients \cup Workers, NEW x \in Conns, AddOrQueue(t, x)
  PROVE  HandTyped /\ \E l, y : l # "waiting" /\ Goes(t, l, y)
<1>1. CASE Add(x) /\ nconns' = AddCount /\ Hold(t, NoConn) /\ Goto(t, After(t))
  <2>1. nconns' \in Int
    BY <1>1 DEF AddCount, AsyncTypeOK
  <2>2. HandTyped
    BY <1>1, <2>1, AddType DEF HandTyped
  <2>3. Goes(t, After(t), NoConn)
    BY <1>1, AfterFits DEF Goes, Hold, Goto
  <2>4. After(t) # "waiting"
    BY AfterFits
  <2> QED
    BY <2>2, <2>3, <2>4
<1>2. CASE /\ Hold(t, x) /\ Mark(x, "IDLE") /\ Goto(t, "adding")
           /\ UNCHANGED <<poolVars, queueVars, nconns>>
  <2>1. status' \in [Conns -> Statuses]
    BY <1>2, MarkType DEF AsyncTypeOK, Statuses
  <2>2. HandTyped
    BY <1>2, <2>1 DEF HandTyped, AsyncTypeOK, poolVars, queueVars
  <2>3. Fits(t, "adding", x)
    BY AsyncTasksAssumption DEF Fits, ClientPlaces, WorkerPlaces, Holding
  <2>4. Goes(t, "adding", x)
    BY <1>2, <2>3 DEF Goes, Hold, Goto
  <2> QED
    BY <2>2, <2>4
<1> QED
  BY <1>1, <1>2 DEF AddOrQueue

\* Settle: types and place.
LEMMA SettleType ==
  ASSUME AsyncTypeOK, NEW t \in Clients \cup Workers, NEW x \in Conns, NEW s, Settle(t, x, s)
  PROVE  /\ HandTyped /\ tasks' \in Seq(MaintenanceTask)
         /\ \E l, y : l # "waiting" /\ Goes(t, l, y)
<1>t. tasks \in Seq(MaintenanceTask)
  BY DEF AsyncTypeOK
<1>1. CASE /\ run_task(AddConnection(FALSE, FALSE))
           /\ Mark(x, "UNKNOWN") /\ Hold(t, NoConn) /\ Goto(t, After(t))
           /\ UNCHANGED <<poolVars, queueVars, nconns>>
  <2>1. status' \in [Conns -> Statuses]
    BY <1>1, MarkType DEF AsyncTypeOK, Statuses
  <2>2. HandTyped
    BY <1>1, <2>1 DEF HandTyped, AsyncTypeOK, poolVars, queueVars
  <2>3. Goes(t, After(t), NoConn)
    BY <1>1, AfterFits DEF Goes, Hold, Goto
  <2>4. After(t) # "waiting"
    BY AfterFits
  <2>5. tasks' \in Seq(MaintenanceTask)
    BY <1>1, <1>t, NewTasks, RunType
  <2> QED
    BY <2>2, <2>3, <2>4, <2>5
<1>2. CASE AddOrQueue(t, x) /\ UNCHANGED tasks
  BY <1>2, <1>t, AddOrQueueType
<1> QED
  BY <1>1, <1>2 DEF Settle

\* Put: types and place.
LEMMA PutType ==
  ASSUME AsyncTypeOK, NEW c \in Clients, cur[c] \in Conns, NEW s \in Statuses, Put(c, s)
  PROVE  /\ HandTyped /\ tasks' \in Seq(MaintenanceTask)
         /\ \E l, y : l # "waiting" /\ Goes(c, l, y)
<1>t. tasks \in Seq(MaintenanceTask) /\ c \in Clients \cup Workers
  BY DEF AsyncTypeOK
<1>1. CASE /\ run_task(ReturnConnection(cur[c])) /\ Mark(cur[c], s)
           /\ Hold(c, NoConn) /\ Goto(c, After(c))
           /\ UNCHANGED <<poolVars, queueVars, nconns>>
  <2>1. status' \in [Conns -> Statuses]
    BY <1>1, MarkType DEF AsyncTypeOK, Statuses
  <2>2. HandTyped
    BY <1>1, <2>1 DEF HandTyped, AsyncTypeOK, poolVars, queueVars
  <2>3. Goes(c, After(c), NoConn)
    BY <1>1, AfterFits DEF Goes, Hold, Goto
  <2>4. After(c) # "waiting"
    BY AfterFits
  <2>5. tasks' \in Seq(MaintenanceTask)
    BY <1>1, <1>t, NewTasks, RunType
  <2> QED
    BY <2>2, <2>3, <2>4, <2>5
<1>2. CASE /\ Mark(cur[c], s) /\ Goto(c, "returning")
           /\ UNCHANGED <<cur, tasks, poolVars, queueVars, nconns>>
  <2>1. status' \in [Conns -> Statuses]
    BY <1>2, MarkType DEF AsyncTypeOK, Statuses
  <2>2. HandTyped
    BY <1>2, <2>1 DEF HandTyped, AsyncTypeOK, poolVars, queueVars
  <2>3. Fits(c, "returning", cur[c])
    BY AsyncTasksAssumption DEF Fits, ClientPlaces, WorkerPlaces, Holding
  <2>4. Goes(c, "returning", cur[c])
    BY <1>2, <2>3, GoesKept, TaskKinds
  <2> QED
    BY <1>2, <1>t, <2>2, <2>4
<1>3. CASE Settle(c, cur[c], IF s = "IDLE" THEN s ELSE "UNKNOWN")
  BY <1>3, <1>t, SettleType
<1> QED
  BY <1>1, <1>2, <1>3 DEF Put

\* PutOrClose: types and place.
LEMMA PutOrCloseType ==
  ASSUME AsyncTypeOK, NEW c \in Clients, cur[c] \in Conns, NEW s \in Statuses, PutOrClose(c, s)
  PROVE  /\ HandTyped /\ tasks' \in Seq(MaintenanceTask)
         /\ \E l, y : l # "waiting" /\ Goes(c, l, y)
<1>1. CASE /\ Mark(cur[c], "UNKNOWN") /\ Hold(c, NoConn) /\ Goto(c, "idle")
           /\ nconns' = IF kind = "null" THEN nconns - 1 ELSE nconns
           /\ UNCHANGED <<tasks, poolVars, queueVars>>
  <2>1. status' \in [Conns -> Statuses]
    BY <1>1, MarkType DEF AsyncTypeOK, Statuses
  <2>2. nconns' \in Int
    BY <1>1 DEF AsyncTypeOK
  <2>3. HandTyped
    BY <1>1, <2>1, <2>2 DEF HandTyped, AsyncTypeOK, poolVars, queueVars
  <2>4. Fits(c, "idle", NoConn)
    BY AsyncTasksAssumption, TaskKinds DEF Fits, ClientPlaces, WorkerPlaces, Holding
  <2>5. Goes(c, "idle", NoConn)
    BY <1>1, <2>4 DEF Goes, Hold, Goto
  <2> QED
    BY <1>1, <2>3, <2>5 DEF AsyncTypeOK
<1>2. CASE Put(c, s)
  BY <1>2, PutType
<1> QED
  BY <1>1, <1>2 DEF PutOrClose

-----------------------------------------------------------------------------
(* Types and places, step by step                                            *)

\* Idle connections: the head of the pool and the rest.
LEMMA PoolHead ==
  ASSUME NEW S, NEW s \in Seq(S), s # <<>>
  PROVE  /\ Head(s) \in S /\ Tail(s) \in Seq(S) /\ Len(s) \in Nat \ {0}
         /\ Len(Tail(s)) = Len(s) - 1
OBVIOUS

\* Growing keeps the types.
LEMMA GrowType ==
  ASSUME nconns \in Int, growing \in BOOLEAN, tasks \in Seq(MaintenanceTask), _maybe_grow_pool
  PROVE  nconns' \in Int /\ growing' \in BOOLEAN /\ tasks' \in Seq(MaintenanceTask)
<1>1. CASE CanGrow
  <2>1. AddConnection(TRUE, FALSE) \in MaintenanceTask
    BY NewTasks
  <2>2. tasks' \in Seq(MaintenanceTask)
    BY <1>1, <2>1, RunType DEF _maybe_grow_pool
  <2> QED
    BY <1>1, <2>2 DEF _maybe_grow_pool
<1>2. CASE ~CanGrow
  BY <1>2 DEF _maybe_grow_pool
<1> QED
  BY <1>1, <1>2

\* A client that has the lock asks for a connection.
LEMMA AcquireType ==
  ASSUME AsyncTypeOK, Hands, NEW c \in Clients, cur[c] = NoConn, Acquire(c)
  PROVE  AsyncTypeOK' /\ Hands' /\ \E l, x : Goes(c, l, x)
<1>t. /\ pool \in Seq(Conns) /\ waiting \in Seq(Clients \cup {Gone})
      /\ slot \in [Clients -> Conns \cup {NoConn, Failed}]
      /\ tasks \in Seq(MaintenanceTask) /\ nconns \in Int /\ nconns_min \in Nat
      /\ c \in Tasks /\ growing \in BOOLEAN
  BY TaskKinds DEF AsyncTypeOK
<1>d. c \notin Workers /\ c \notin Admins
  BY AsyncTasksAssumption
<1>n. NoConn \notin Conns
  BY TaskKinds
<1>f. /\ \A l \in {"connecting", "idle", "waiting"} : Fits(c, l, NoConn)
      /\ \A x \in Conns : Fits(c, Checked, x)
  BY <1>d, <1>n DEF Fits, ClientPlaces, Holding, Checked
<1>u. fromget' \in [Clients -> BOOLEAN]
  BY DEF Acquire, AsyncTypeOK
<1>1. CASE pool # <<>> /\ PopIdle(c)
  <2>1. Head(pool) \in Conns /\ Tail(pool) \in Seq(Conns) /\ Len(pool) \in Nat \ {0}
    BY <1>1, <1>t, PoolHead
  <2>2. LeastIdle \in Nat
    BY <1>t, <2>1 DEF LeastIdle
  <2>3. Goes(c, Checked, Head(pool))
    BY <1>1, <1>f, <2>1 DEF PopIdle, Goes, Hold, Goto
  <2>4. Hands' /\ pc' \in [Tasks -> Labels] /\ cur' \in [Tasks -> Conns \cup {NoConn}]
    BY <1>t, <2>3, GoesHands
  <2>5. AsyncTypeOK'
    BY <1>1, <1>u, <2>1, <2>2, <2>4
       DEF PopIdle, Acquire, AsyncTypeOK, flagVars, sizeVars, queueVars, adminVars
  <2> QED
    BY <2>3, <2>4, <2>5
<1>2. CASE /\ \E l \in {"connecting", "idle"} : Goto(c, l)
           /\ UNCHANGED <<countVars, pool, queueVars, tasks, cur>>
  <2>1. PICK l \in {"connecting", "idle"} : Goto(c, l)
    BY <1>2
  <2>2. Goes(c, l, cur[c])
    BY <1>2, <1>f, <1>t, <2>1, GoesKept
  <2>3. Hands' /\ pc' \in [Tasks -> Labels] /\ cur' \in [Tasks -> Conns \cup {NoConn}]
    BY <1>t, <2>2, GoesHands
  <2>4. AsyncTypeOK'
    BY <1>2, <1>u, <2>3 DEF Acquire, AsyncTypeOK, flagVars, sizeVars, countVars, queueVars, adminVars
  <2> QED
    BY <2>2, <2>3, <2>4
<1>3. CASE Enqueue(c)
  <2>1. waiting' \in Seq(Clients \cup {Gone}) /\ slot' \in [Clients -> Conns \cup {NoConn, Failed}]
    BY <1>3, <1>t DEF Enqueue
  <2>2. Goes(c, "waiting", cur[c])
    BY <1>3, <1>f, <1>t, GoesKept DEF Enqueue
  <2>3. Hands' /\ pc' \in [Tasks -> Labels] /\ cur' \in [Tasks -> Conns \cup {NoConn}]
    BY <1>t, <2>2, GoesHands
  <2>4. nconns' \in Int /\ growing' \in BOOLEAN /\ tasks' \in Seq(MaintenanceTask)
    BY <1>3, <1>t, GrowType DEF Enqueue
  <2>5. AsyncTypeOK'
    BY <1>3, <1>u, <2>1, <2>3, <2>4 DEF Enqueue, Acquire, AsyncTypeOK, flagVars, sizeVars, adminVars
  <2> QED
    BY <2>2, <2>3, <2>5
<1> QED
  BY <1>1, <1>2, <1>3 DEF Acquire

\* A task that only moves on.
LEMMA MoveType ==
  ASSUME AsyncTypeOK, Hands, NEW t \in Tasks, NEW l, MoveTo(t, l), Fits(t, l, cur[t])
  PROVE  AsyncTypeOK' /\ Hands' /\ Goes(t, l, cur[t])
<1>1. Goes(t, l, cur[t])
  BY GoesKept DEF MoveTo
<1>2. Hands' /\ pc' \in [Tasks -> Labels] /\ cur' \in [Tasks -> Conns \cup {NoConn}]
  BY <1>1, GoesHands
<1>3. AsyncTypeOK'
  BY <1>2 DEF MoveTo, AsyncTypeOK, flagVars, sizeVars, countVars, poolVars, taskVars, queueVars,
              adminVars
<1> QED
  BY <1>1, <1>2, <1>3

\* A function on 1..n is a sequence.
LEMMA FunctionIsSeq ==
  ASSUME NEW S, NEW n \in Nat, NEW f \in [1..n -> S]
  PROVE  f \in Seq(S)
OBVIOUS

\* Clients that leave the queue: it keeps its type.
LEMMA LeaveType ==
  ASSUME waiting \in Seq(Clients \cup {Gone}), NEW c
  PROVE  /\ LeaveQueue(c) \in Seq(Clients \cup {Gone})
         /\ DOMAIN LeaveQueue(c) = DOMAIN waiting
<1>1. DOMAIN waiting = 1..Len(waiting) /\ Len(waiting) \in Nat
  OBVIOUS
<1>2. \A i \in DOMAIN waiting : waiting[i] \in Clients \cup {Gone}
  BY <1>1
<1>3. LeaveQueue(c) \in [DOMAIN waiting -> Clients \cup {Gone}]
  BY <1>2 DEF LeaveQueue
<1>4. LeaveQueue(c) \in [1..Len(waiting) -> Clients \cup {Gone}]
  BY <1>1, <1>3
<1>5. DOMAIN LeaveQueue(c) = DOMAIN waiting
  BY DEF LeaveQueue
<1> HIDE DEF LeaveQueue
<1> QED
  BY <1>1, <1>4, <1>5, FunctionIsSeq

\* So do the queues that close() took.
LEMMA DoomedType ==
  ASSUME doomed \in [Admins -> Seq(Clients \cup {Gone})], NEW c
  PROVE  [a \in Admins |-> [i \in DOMAIN doomed[a] |->
            IF doomed[a][i] = c THEN Gone ELSE doomed[a][i]]]
         \in [Admins -> Seq(Clients \cup {Gone})]
<1>1. ASSUME NEW a \in Admins
      PROVE  [i \in DOMAIN doomed[a] |-> IF doomed[a][i] = c THEN Gone ELSE doomed[a][i]]
             \in Seq(Clients \cup {Gone})
  <2> DEFINE s == doomed[a]
             u == [i \in DOMAIN s |-> IF s[i] = c THEN Gone ELSE s[i]]
  <2>0. s \in Seq(Clients \cup {Gone})
    OBVIOUS
  <2> HIDE DEF s
  <2>1. DOMAIN s = 1..Len(s) /\ Len(s) \in Nat
    BY <2>0
  <2>4. \A i \in DOMAIN s : s[i] \in Clients \cup {Gone}
    BY <2>0, <2>1
  <2>5. u \in [DOMAIN s -> Clients \cup {Gone}]
    BY <2>4
  <2> HIDE DEF u
  <2>2. u \in [1..Len(s) -> Clients \cup {Gone}]
    BY <2>1, <2>5
  <2>3. u \in Seq(Clients \cup {Gone})
    BY <2>1, <2>2, FunctionIsSeq
  <2> QED
    BY <2>3 DEF s, u
<1> QED
  BY <1>1

\* A client's steps that hand a connection over.
LEMMA ClientHandsOver ==
  ASSUME AsyncTypeOK, Hands, NEW c \in Clients,
         check_fails(c) \/ putconn(c) \/ putconn_locked(c) \/ reset_ends(c)
  PROVE  AsyncTypeOK' /\ Hands' /\ \E l, x : l # "waiting" /\ Goes(c, l, x)
<1>t. /\ cur \in [Tasks -> Conns \cup {NoConn}] /\ status \in [Conns -> Statuses]
      /\ c \in Tasks /\ c \in Clients \cup Workers
  BY TaskKinds DEF AsyncTypeOK, Statuses
<1>x. cur[c] \in Conns
  BY <1>t DEF check_fails, putconn, putconn_locked, reset_ends, At, Hands, Holding
<1>s. LeftIn(cur[c]) \subseteq Statuses /\ status[cur[c]] \in Statuses
  BY <1>t, <1>x DEF LeftIn, Statuses
<1>1. /\ HandTyped /\ tasks' \in Seq(MaintenanceTask)
      /\ \E l, x : l # "waiting" /\ Goes(c, l, x)
  <2>1. CASE check_fails(c)
    BY <2>1, <1>x, <1>s, PutType DEF check_fails
  <2>2. CASE putconn(c)
    <3>1. PICK s \in LeftIn(cur[c]) :
             \/ PutOrClose(c, s)
             \/ /\ Mark(cur[c], s) /\ Goto(c, "putconn")
                /\ UNCHANGED <<cur, tasks, poolVars, queueVars, nconns>>
      BY <2>2 DEF putconn
    <3>2. CASE PutOrClose(c, s)
      BY <3>2, <1>x, <1>s, PutOrCloseType
    <3>3. CASE /\ Mark(cur[c], s) /\ Goto(c, "putconn")
               /\ UNCHANGED <<cur, tasks, poolVars, queueVars, nconns>>
      <4>1. status' \in [Conns -> Statuses]
        BY <1>s, <1>t, <3>3, MarkType
      <4>2. HandTyped /\ tasks' \in Seq(MaintenanceTask)
        BY <3>3, <4>1 DEF HandTyped, AsyncTypeOK, poolVars, queueVars
      <4>3. Fits(c, "putconn", cur[c])
        BY <1>x, AsyncTasksAssumption DEF Fits, ClientPlaces, Holding
      <4>4. Goes(c, "putconn", cur[c])
        BY <3>3, <1>t, <4>3, GoesKept
      <4> QED
        BY <4>2, <4>4
    <3> QED
      BY <3>1, <3>2, <3>3
  <2>3. CASE putconn_locked(c)
    BY <2>3, <1>x, <1>s, PutOrCloseType DEF putconn_locked
  <2>4. CASE reset_ends(c)
    BY <2>4, <1>x, <1>t, SettleType DEF reset_ends
  <2> QED
    BY <2>1, <2>2, <2>3, <2>4
<1>2. PICK l, x : l # "waiting" /\ Goes(c, l, x)
  BY <1>1
<1>3. Hands' /\ pc' \in [Tasks -> Labels] /\ cur' \in [Tasks -> Conns \cup {NoConn}]
  BY <1>t, <1>2, GoesHands
<1>4. /\ UNCHANGED <<flagVars, sizeVars, nconns_min, growing, sched, job, adminVars>>
      /\ fromget' \in [Clients -> BOOLEAN]
  BY DEF check_fails, putconn, putconn_locked, reset_ends, AsyncTypeOK
<1>5. AsyncTypeOK'
  BY <1>1, <1>3, <1>4
     DEF HandTyped, AsyncTypeOK, Statuses, flagVars, sizeVars, adminVars
<1> QED
  BY <1>2, <1>3, <1>5

\* A task that had to queue adds its connection.
LEMMA AddLockedType ==
  ASSUME AsyncTypeOK, Hands, NEW t \in Clients \cup Workers, add_locked(t)
  PROVE  AsyncTypeOK' /\ Hands' /\ \E l, x : l # "waiting" /\ Goes(t, l, x)
<1>t. t \in Tasks /\ nconns \in Int
  BY TaskKinds DEF AsyncTypeOK
<1>1. cur[t] \in Conns
  BY <1>t DEF add_locked, At, Hands, Holding
<1>2. /\ pool' \in Seq(Conns) /\ waiting' \in Seq(Clients \cup {Gone})
      /\ slot' \in [Clients -> Conns \cup {NoConn, Failed}]
      /\ status' \in [Conns -> Statuses] /\ full_event' \in {"none", "unset", "set"}
  BY <1>1, AddType DEF add_locked
<1>3. nconns' \in Int
  BY <1>t DEF add_locked, AddCount
<1>4. Goes(t, After(t), NoConn) /\ After(t) # "waiting"
  BY AfterFits DEF add_locked, Goes, Hold, Goto
<1>5. Hands' /\ pc' \in [Tasks -> Labels] /\ cur' \in [Tasks -> Conns \cup {NoConn}]
  BY <1>t, <1>4, GoesHands
<1>6. AsyncTypeOK'
  BY <1>2, <1>3, <1>5 DEF add_locked, AsyncTypeOK, Statuses, flagVars, sizeVars, taskVars, adminVars
<1> QED
  BY <1>4, <1>5, <1>6

\* A client that waits in the queue holds nothing; only where Holding says so it does.
LEMMA NothingHeld ==
  ASSUME AsyncTypeOK, Hands, NEW t \in Tasks, pc[t] \notin Holding
  PROVE  cur[t] = NoConn
BY DEF AsyncTypeOK, Hands

\* Every step of a client keeps the types and the places.
LEMMA ClientTypes ==
  ASSUME AsyncTypeOK, Hands, NEW c \in Clients, ClientStep(c)
  PROVE  AsyncTypeOK' /\ Hands' /\ \E l, x : Goes(c, l, x)
<1>t. /\ cur \in [Tasks -> Conns \cup {NoConn}] /\ pc \in [Tasks -> Labels]
      /\ slot \in [Clients -> Conns \cup {NoConn, Failed}]
      /\ status \in [Conns -> Statuses] /\ waiting \in Seq(Clients \cup {Gone})
      /\ doomed \in [Admins -> Seq(Clients \cup {Gone})]
      /\ nconns \in Int /\ c \in Tasks
  BY TaskKinds DEF AsyncTypeOK, Statuses
<1>d. c \notin Workers /\ c \notin Admins
  BY AsyncTasksAssumption
<1>n. NoConn \notin Conns
  BY TaskKinds
<1>f. /\ \A l \in ClientPlaces \ Holding : Fits(c, l, NoConn)
      /\ \A l \in Holding : \A x \in Conns : Fits(c, l, x)
  BY <1>d, <1>n DEF Fits, ClientPlaces
<1>l. /\ {"idle", "getconn", "connecting", "waiting", "sleeping"} \subseteq ClientPlaces \ Holding
      /\ Checked \in Holding /\ "using" \in Holding
  BY DEF ClientPlaces, Holding, Checked
<1>h. pc[c] \notin Holding => cur[c] = NoConn
  BY <1>t, NothingHeld
<1>1. CASE \/ At(c, "idle") \/ At(c, "getconn") \/ At(c, "sleeping")
  <2>1. cur[c] = NoConn
    BY <1>1, <1>h DEF At, Holding
  <2>2. CASE Acquire(c)
    BY <2>1, <2>2, AcquireType
  <2>3. CASE MoveTo(c, "getconn")
    BY <2>1, <2>3, <1>f, <1>l, <1>t, MoveType
  <2>4. CASE backoff_gives_up(c)
    <3>1. Goes(c, "idle", cur[c])
      BY <1>f, <1>l, <1>t, <2>1, <2>4, GoesKept DEF backoff_gives_up
    <3>2. Hands' /\ pc' \in [Tasks -> Labels] /\ cur' \in [Tasks -> Conns \cup {NoConn}]
      BY <1>t, <3>1, GoesHands
    <3>3. AsyncTypeOK'
      BY <2>4, <3>2 DEF backoff_gives_up, AsyncTypeOK, flagVars, sizeVars, countVars, poolVars,
                        taskVars, queueVars, adminVars
    <3> QED
      BY <3>1, <3>2, <3>3
  <2> QED
    BY <1>1, <2>2, <2>3, <2>4 DEF ClientStep, Request, getconn, getconn_locked, null_connected,
       null_connect_fails, wait_returns, wait_times_out, check_passes, check_fails,
       backoff_gives_up, backoff_retries, putconn, putconn_locked, reset_ends, add_locked, At
<1>2. CASE null_connected(c)
  <2>1. PICK x \in Conns : Hold(c, x) /\ Mark(x, "IDLE")
    BY <1>2 DEF null_connected
  <2>2. Goes(c, Checked, x)
    BY <1>2, <1>f, <1>l, <2>1 DEF null_connected, Goes, Goto, Hold
  <2>3. Hands' /\ pc' \in [Tasks -> Labels] /\ cur' \in [Tasks -> Conns \cup {NoConn}]
    BY <1>t, <2>2, GoesHands
  <2>4. status' \in [Conns -> Statuses]
    BY <1>t, <2>1, MarkType DEF Statuses
  <2>5. nconns' \in Int
    BY <1>2, <1>t DEF null_connected
  <2>6. AsyncTypeOK'
    BY <1>2, <2>3, <2>4, <2>5 DEF null_connected, AsyncTypeOK, Statuses, flagVars, sizeVars, poolVars,
                             taskVars, queueVars, adminVars
  <2> QED
    BY <2>2, <2>3, <2>6
<1>3. CASE null_connect_fails(c)
  <2>1. cur[c] = NoConn
    BY <1>3, <1>h DEF null_connect_fails, At, Holding
  <2>2. MoveTo(c, "idle")
    BY <1>3 DEF null_connect_fails, MoveTo
  <2> QED
    BY <1>f, <1>l, <1>t, <2>1, <2>2, MoveType
<1>4. CASE check_passes(c)
  <2>1. cur[c] \in Conns
    BY <1>4, <1>t DEF check_passes, At, Hands, Holding
  <2>2. MoveTo(c, "using")
    BY <1>4 DEF check_passes, MoveTo
  <2> QED
    BY <1>f, <1>l, <1>t, <2>1, <2>2, MoveType
<1>5. CASE wait_returns(c)
  <2>1. cur[c] = NoConn
    BY <1>5, <1>h DEF wait_returns, At, Holding
  <2>2. slot[c] # Failed => slot[c] \in Conns
    BY <1>5, <1>t DEF wait_returns
  <2>3. \E l, x : Goes(c, l, x)
    <3>1. CASE slot[c] = Failed
      <4>1. Goes(c, "idle", cur[c])
        BY <1>5, <1>f, <1>l, <1>t, <2>1, <3>1, GoesKept DEF wait_returns
      <4> QED
        BY <4>1
    <3>2. CASE slot[c] # Failed
      <4>1. Goes(c, Checked, slot[c])
        BY <1>5, <1>f, <1>l, <2>2, <3>2 DEF wait_returns, Goes, Hold, Goto
      <4> QED
        BY <4>1
    <3> QED
      BY <3>1, <3>2
  <2>4. Hands' /\ pc' \in [Tasks -> Labels] /\ cur' \in [Tasks -> Conns \cup {NoConn}]
    BY <1>t, <2>3, GoesHands
  <2>5. slot' \in [Clients -> Conns \cup {NoConn, Failed}]
    BY <1>5, <1>t DEF wait_returns
  <2>6. AsyncTypeOK'
    BY <1>5, <2>4, <2>5 DEF wait_returns, AsyncTypeOK, flagVars, sizeVars, countVars, poolVars, taskVars,
                       adminVars
  <2> QED
    BY <2>3, <2>4, <2>6
<1>6. CASE wait_times_out(c)
  <2>1. cur[c] = NoConn
    BY <1>6, <1>h DEF wait_times_out, At, Holding
  <2>2. Goes(c, "idle", cur[c])
    BY <1>6, <1>f, <1>l, <1>t, <2>1, GoesKept DEF wait_times_out
  <2>3. Hands' /\ pc' \in [Tasks -> Labels] /\ cur' \in [Tasks -> Conns \cup {NoConn}]
    BY <1>t, <2>2, GoesHands
  <2>4. /\ waiting' \in Seq(Clients \cup {Gone})
        /\ doomed' \in [Admins -> Seq(Clients \cup {Gone})]
    BY <1>6, <1>t, LeaveType, DoomedType DEF wait_times_out
  <2>5. AsyncTypeOK'
    BY <1>6, <2>3, <2>4 DEF wait_times_out, AsyncTypeOK, flagVars, sizeVars, countVars, poolVars, taskVars
  <2> QED
    BY <2>2, <2>3, <2>5
<1>7. CASE check_fails(c) \/ putconn(c) \/ putconn_locked(c) \/ reset_ends(c)
  BY <1>7, ClientHandsOver
<1>8. CASE add_locked(c)
  BY <1>8, <1>t, AddLockedType
<1> QED
  BY <1>1, <1>2, <1>3, <1>4, <1>5, <1>6, <1>7, <1>8
     DEF ClientStep, Request, getconn, getconn_locked, backoff_gives_up, backoff_retries

\* One element more.
LEMMA AppendType ==
  ASSUME NEW S, NEW s \in Seq(S), NEW e \in S
  PROVE  Append(s, e) \in Seq(S)
OBVIOUS

\* Every step of a worker keeps the types and the places.
LEMMA WorkerTypes ==
  ASSUME AsyncTypeOK, Hands, Jobs, NEW w \in Workers, WorkerStep(w)
  PROVE  AsyncTypeOK' /\ Hands' /\ \E l, x : l # "waiting" /\ Goes(w, l, x)
<1>t. /\ cur \in [Tasks -> Conns \cup {NoConn}] /\ pc \in [Tasks -> Labels]
      /\ status \in [Conns -> Statuses] /\ tasks \in Seq(MaintenanceTask)
      /\ pool \in Seq(Conns) /\ nconns_min \in Nat /\ growing \in BOOLEAN
      /\ job \in [Workers -> [growing: BOOLEAN, retry: BOOLEAN]]
      /\ sched \in [DelayedKinds -> Nat]
      /\ nconns \in Int /\ w \in Tasks /\ w \in Clients \cup Workers
  BY TaskKinds DEF AsyncTypeOK, Statuses
<1>d. w \notin Clients /\ w \notin Admins
  BY AsyncTasksAssumption
<1>n. NoConn \notin Conns
  BY TaskKinds
<1>f. /\ \A l \in WorkerPlaces \ Holding : Fits(w, l, NoConn)
      /\ \A l \in Holding \cap WorkerPlaces : \A x \in Conns : Fits(w, l, x)
  BY <1>d, <1>n DEF Fits
<1>l. /\ {"off", "idle", "connecting", "giveup", "stopped"} \subseteq WorkerPlaces \ Holding
      /\ {"returning", "adding"} \subseteq Holding \cap WorkerPlaces
  BY DEF WorkerPlaces, Holding
<1>h. pc[w] \notin Holding => cur[w] = NoConn
  BY <1>t, NothingHeld
<1>j. NoJob \in [growing: BOOLEAN, retry: BOOLEAN]
  BY DEF NoJob, Job
<1>s. \A k \in DelayedKinds : schedule_task(k) => sched' \in [DelayedKinds -> Nat]
  BY <1>t DEF schedule_task
<1>k. "add" \in DelayedKinds /\ "grow" \in DelayedKinds /\ "shrink" \in DelayedKinds
  BY DEF DelayedKinds
<1>1. CASE worker(w)
  <2> DEFINE tk == Head(tasks)
             x  == tk.conn
  <2>0. tasks # <<>> /\ cur[w] = NoConn /\ At(w, "idle")
    BY <1>1, <1>h, <1>l DEF worker, At
  <2>1. /\ tk \in MaintenanceTask /\ Tail(tasks) \in Seq(MaintenanceTask)
        /\ tk = tasks[1] /\ 1 \in DOMAIN tasks
    BY <1>t, <2>0
  <2>2. tk.kind = "return" => x \in Conns
    BY <2>1 DEF Jobs, TaskOK
  <2>3. /\ tk.growing \in BOOLEAN /\ tk.retry \in BOOLEAN
    BY <2>1 DEF MaintenanceTask
  <2>u. UNCHANGED <<flagVars, sizeVars, growing, full_event, queueVars, fromget, adminVars>>
    BY <1>1 DEF worker
  <2> HIDE DEF tk, x
  <2>4. CASE tk.kind = "stop" /\ tasks' = Tail(tasks) /\ Goto(w, "stopped")
             /\ UNCHANGED <<cur, status, job, sched, pool, nconns, nconns_min>>
    <3>1. Goes(w, "stopped", cur[w])
      BY <1>f, <1>l, <1>t, <2>0, <2>4, GoesKept
    <3>2. Hands' /\ pc' \in [Tasks -> Labels] /\ cur' \in [Tasks -> Conns \cup {NoConn}]
      BY <1>t, <3>1, GoesHands
    <3>3. AsyncTypeOK'
      BY <2>1, <2>4, <2>u, <3>2 DEF AsyncTypeOK, flagVars, sizeVars, queueVars, adminVars
    <3> QED
      BY <3>1, <3>2, <3>3
  <2>5. CASE /\ tasks' = Tail(tasks)
             /\ status' = [y \in Conns |-> IF y = x THEN "UNKNOWN" ELSE status[y]]
             /\ UNCHANGED <<pc, cur, job, sched, pool, nconns, nconns_min>>
    <3>1. pc' = [pc EXCEPT ![w] = "idle"] /\ cur' = [cur EXCEPT ![w] = NoConn]
      BY <1>t, <2>0, <2>5 DEF At
    <3>2. Goes(w, "idle", NoConn)
      BY <1>f, <1>l, <3>1 DEF Goes
    <3>3. Hands' /\ pc' \in [Tasks -> Labels] /\ cur' \in [Tasks -> Conns \cup {NoConn}]
      BY <1>t, <3>2, GoesHands
    <3>4. status' \in [Conns -> Statuses]
      BY <1>t, <2>5 DEF Statuses
    <3>5. AsyncTypeOK'
      BY <2>1, <2>5, <2>u, <3>3, <3>4 DEF AsyncTypeOK, Statuses, flagVars, sizeVars, queueVars, adminVars
    <3> QED
      BY <3>2, <3>3, <3>5
  <2>6. CASE /\ tasks' = Tail(tasks) /\ Goto(w, "connecting")
             /\ job' = [job EXCEPT ![w] = Job(tk.growing, tk.retry)]
             /\ UNCHANGED <<cur, status, sched, pool, nconns, nconns_min>>
    <3>1. Goes(w, "connecting", cur[w])
      BY <1>f, <1>l, <1>t, <2>0, <2>6, GoesKept
    <3>2. Hands' /\ pc' \in [Tasks -> Labels] /\ cur' \in [Tasks -> Conns \cup {NoConn}]
      BY <1>t, <3>1, GoesHands
    <3>3. job' \in [Workers -> [growing: BOOLEAN, retry: BOOLEAN]]
      BY <1>t, <2>3, <2>6 DEF Job
    <3>4. AsyncTypeOK'
      BY <2>1, <2>6, <2>u, <3>2, <3>3 DEF AsyncTypeOK, flagVars, sizeVars, queueVars, adminVars
    <3> QED
      BY <3>1, <3>2, <3>4
  <2>7. CASE /\ Mark(x, "UNKNOWN") /\ tasks' = Append(Tail(tasks), AddConnection(FALSE, FALSE))
             /\ UNCHANGED <<pc, cur>> /\ UNCHANGED <<job, sched, pool, nconns, nconns_min>>
    <3>1. pc' = [pc EXCEPT ![w] = "idle"] /\ cur' = [cur EXCEPT ![w] = NoConn]
      BY <1>t, <2>0, <2>7 DEF At
    <3>2. Goes(w, "idle", NoConn)
      BY <1>f, <1>l, <3>1 DEF Goes
    <3>3. Hands' /\ pc' \in [Tasks -> Labels] /\ cur' \in [Tasks -> Conns \cup {NoConn}]
      BY <1>t, <3>2, GoesHands
    <3>4. status' \in [Conns -> Statuses]
      BY <1>t, <2>7, MarkType DEF Statuses
    <3>5. tasks' \in Seq(MaintenanceTask)
      <4>1. AddConnection(FALSE, FALSE) \in MaintenanceTask
        BY NewTasks
      <4> QED
        BY <2>1, <2>7, <4>1, AppendType
    <3>6. AsyncTypeOK'
      BY <2>7, <2>u, <3>3, <3>4, <3>5 DEF AsyncTypeOK, Statuses, flagVars, sizeVars, queueVars, adminVars
    <3> QED
      BY <3>2, <3>3, <3>6
  <2>8. CASE /\ tk.kind = "return" /\ tasks' = Tail(tasks) /\ Goto(w, "returning") /\ Hold(w, x)
             /\ UNCHANGED status /\ UNCHANGED <<job, sched, pool, nconns, nconns_min>>
    <3>1. Goes(w, "returning", x)
      BY <1>f, <1>l, <2>2, <2>8 DEF Goes, Goto, Hold
    <3>2. Hands' /\ pc' \in [Tasks -> Labels] /\ cur' \in [Tasks -> Conns \cup {NoConn}]
      BY <1>t, <3>1, GoesHands
    <3>3. AsyncTypeOK'
      BY <2>1, <2>8, <2>u, <3>2 DEF AsyncTypeOK, flagVars, sizeVars, queueVars, adminVars
    <3> QED
      BY <3>1, <3>2, <3>3
  <2>9. CASE /\ tasks' = Tail(tasks) /\ schedule_task("shrink") /\ UNCHANGED <<pc, cur, job>>
             /\ \/ _shrink_pool
                \/ UNCHANGED <<status, pool, nconns, nconns_min>>
    <3>1. pc' = [pc EXCEPT ![w] = "idle"] /\ cur' = [cur EXCEPT ![w] = NoConn]
      BY <1>t, <2>0, <2>9 DEF At
    <3>2. Goes(w, "idle", NoConn)
      BY <1>f, <1>l, <3>1 DEF Goes
    <3>3. Hands' /\ pc' \in [Tasks -> Labels] /\ cur' \in [Tasks -> Conns \cup {NoConn}]
      BY <1>t, <3>2, GoesHands
    <3>4. /\ status' \in [Conns -> Statuses] /\ pool' \in Seq(Conns) /\ nconns' \in Int
          /\ nconns_min' \in Nat
      <4>1. CASE _shrink_pool /\ CanShrink
        <5>1. Tail(pool) \in Seq(Conns) /\ Len(pool) \in Nat \ {0}
          BY <1>t, <4>1, PoolHead DEF CanShrink
        <5>2. status' \in [Conns -> Statuses]
          BY <1>t, <4>1, MarkType DEF _shrink_pool, Statuses
        <5>3. pool' = Tail(pool) /\ nconns' = nconns - 1 /\ nconns_min' = Len(pool) - 1
          BY <4>1 DEF _shrink_pool
        <5>4. Len(pool) - 1 \in Nat /\ nconns - 1 \in Int
          BY <1>t, <5>1
        <5> QED
          BY <5>1, <5>2, <5>3, <5>4
      <4>2. CASE _shrink_pool /\ ~CanShrink
        BY <1>t, <4>2 DEF _shrink_pool
      <4>3. CASE UNCHANGED <<status, pool, nconns, nconns_min>>
        BY <1>t, <4>3
      <4> QED
        BY <2>9, <4>1, <4>2, <4>3
    <3>5. sched' \in [DelayedKinds -> Nat]
      BY <1>k, <1>s, <2>9
    <3>6. AsyncTypeOK'
      BY <2>1, <2>9, <2>u, <3>3, <3>4, <3>5
         DEF AsyncTypeOK, Statuses, flagVars, sizeVars, queueVars, adminVars
    <3> QED
      BY <3>2, <3>3, <3>6
  <2> QED
    BY <1>1, <2>4, <2>5, <2>6, <2>7, <2>8, <2>9 DEF worker, tk, x
<1>2. CASE _add_connection(w)
  <2>0. cur[w] = NoConn
    BY <1>2, <1>h, <1>l DEF _add_connection, At
  <2>1. PICK x \in Conns :
       \/ /\ AddOrQueue(w, x) /\ UNCHANGED <<growing, tasks>>
       \/ /\ Add(x) /\ Goto(w, "idle") /\ UNCHANGED cur
          /\ IF KeepGrowing
             THEN /\ nconns' = nconns + 1 /\ run_task(AddConnection(TRUE, FALSE))
                  /\ UNCHANGED growing
             ELSE growing' = FALSE /\ UNCHANGED <<nconns, tasks>>
    BY <1>2 DEF _add_connection
  <2>2. /\ UNCHANGED <<flagVars, sizeVars, nconns_min, sched, fromget, adminVars>>
        /\ job' \in [Workers -> [growing: BOOLEAN, retry: BOOLEAN]]
    BY <1>2, <1>j, <1>t DEF _add_connection
  <2>3. /\ HandTyped /\ growing' \in BOOLEAN /\ tasks' \in Seq(MaintenanceTask)
        /\ \E l, y : l # "waiting" /\ Goes(w, l, y)
    <3>1. CASE AddOrQueue(w, x) /\ UNCHANGED <<growing, tasks>>
      BY <1>t, <3>1, AddOrQueueType
    <3>2. CASE Add(x) /\ Goto(w, "idle") /\ UNCHANGED cur
               /\ IF KeepGrowing
                  THEN /\ nconns' = nconns + 1 /\ run_task(AddConnection(TRUE, FALSE))
                       /\ UNCHANGED growing
                  ELSE growing' = FALSE /\ UNCHANGED <<nconns, tasks>>
      <4>1. /\ pool' \in Seq(Conns) /\ waiting' \in Seq(Clients \cup {Gone})
            /\ slot' \in [Clients -> Conns \cup {NoConn, Failed}]
            /\ status' \in [Conns -> Statuses] /\ full_event' \in {"none", "unset", "set"}
        BY <3>2, AddType
      <4>2. nconns' \in Int /\ growing' \in BOOLEAN
        <5>1. CASE KeepGrowing
          BY <1>t, <3>2, <5>1
        <5>2. CASE ~KeepGrowing
          BY <1>t, <3>2, <5>2
        <5> QED
          BY <5>1, <5>2
      <4>3. tasks' \in Seq(MaintenanceTask)
        <5>1. AddConnection(TRUE, FALSE) \in MaintenanceTask
          BY NewTasks
        <5> QED
          BY <1>t, <3>2, <5>1, RunType
      <4>4. Goes(w, "idle", cur[w])
        BY <1>f, <1>l, <1>t, <2>0, <3>2, GoesKept
      <4> QED
        BY <4>1, <4>2, <4>3, <4>4 DEF HandTyped
    <3> QED
      BY <2>1, <3>1, <3>2
  <2>4. PICK l, y : l # "waiting" /\ Goes(w, l, y)
    BY <2>3
  <2>5. Hands' /\ pc' \in [Tasks -> Labels] /\ cur' \in [Tasks -> Conns \cup {NoConn}]
    BY <1>t, <2>4, GoesHands
  <2>6. AsyncTypeOK'
    BY <2>2, <2>3, <2>5 DEF HandTyped, AsyncTypeOK, Statuses, flagVars, sizeVars, adminVars
  <2> QED
    BY <2>4, <2>5, <2>6
<1>3. CASE _connect_fails(w) \/ give_up_locked(w)
  <2>0. cur[w] = NoConn
    BY <1>3, <1>h, <1>l DEF _connect_fails, give_up_locked, At
  <2>1. /\ UNCHANGED <<flagVars, sizeVars, nconns_min, poolVars, tasks, queueVars, status, cur,
                       fromget, adminVars>>
    BY <1>3 DEF _connect_fails, give_up_locked, taskVars
  <2>2. \E l \in {"idle", "giveup"} : Goto(w, l)
    BY <1>3 DEF _connect_fails, give_up_locked
  <2>3. PICK l \in {"idle", "giveup"} : Goto(w, l)
    BY <2>2
  <2>4. Goes(w, l, cur[w]) /\ l # "waiting"
    BY <1>f, <1>l, <1>t, <2>0, <2>1, <2>3, GoesKept
  <2>5. Hands' /\ pc' \in [Tasks -> Labels] /\ cur' \in [Tasks -> Conns \cup {NoConn}]
    BY <1>t, <2>4, GoesHands
  <2>6. nconns' \in Int /\ growing' \in BOOLEAN /\ sched' \in [DelayedKinds -> Nat]
        /\ job' \in [Workers -> [growing: BOOLEAN, retry: BOOLEAN]]
    <3>1. CASE _connect_fails(w)
      <4>1. CASE /\ \E k \in {"add", "grow"} : schedule_task(k)
                 /\ job' = [job EXCEPT ![w] = NoJob] /\ UNCHANGED <<nconns, growing>>
        BY <1>j, <1>k, <1>s, <1>t, <4>1
      <4>2. CASE /\ nconns' = nconns - 1 /\ growing' = (growing /\ ~job[w].growing)
                 /\ job' = [job EXCEPT ![w] = NoJob] /\ UNCHANGED sched
        BY <1>j, <1>t, <4>2
      <4>3. CASE UNCHANGED <<nconns, growing, sched, job>>
        BY <1>t, <4>3
      <4>4. schedule_task(IF job[w].growing THEN "grow" ELSE "add")
              => \E k \in {"add", "grow"} : schedule_task(k)
        OBVIOUS
      <4> QED
        BY <3>1, <4>1, <4>2, <4>3, <4>4 DEF _connect_fails
    <3>2. CASE give_up_locked(w)
      BY <1>j, <1>t, <3>2 DEF give_up_locked, taskVars
    <3> QED
      BY <1>3, <3>1, <3>2
  <2>7. AsyncTypeOK'
    BY <2>1, <2>5, <2>6 DEF AsyncTypeOK, flagVars, sizeVars, poolVars, queueVars, adminVars
  <2> QED
    BY <2>4, <2>5, <2>7
<1>4. CASE reset_ends(w)
  <2>1. cur[w] \in Conns
    BY <1>4, <1>t DEF reset_ends, At, Hands, Holding
  <2>2. /\ HandTyped /\ tasks' \in Seq(MaintenanceTask)
        /\ \E l, y : l # "waiting" /\ Goes(w, l, y)
    BY <1>4, <1>t, <2>1, SettleType DEF reset_ends
  <2>3. PICK l, y : l # "waiting" /\ Goes(w, l, y)
    BY <2>2
  <2>4. Hands' /\ pc' \in [Tasks -> Labels] /\ cur' \in [Tasks -> Conns \cup {NoConn}]
    BY <1>t, <2>3, GoesHands
  <2>5. AsyncTypeOK'
    BY <1>4, <2>2, <2>4 DEF reset_ends, HandTyped, AsyncTypeOK, Statuses, flagVars, sizeVars, adminVars
  <2> QED
    BY <2>3, <2>4, <2>5
<1>5. CASE add_locked(w)
  BY <1>5, <1>t, AddLockedType
<1> QED
  BY <1>1, <1>2, <1>3, <1>4, <1>5 DEF WorkerStep, Work

\* Several copies of a task, queued.
LEMMA CopiesType ==
  ASSUME NEW s \in Seq(MaintenanceTask), NEW n \in Nat, NEW t \in MaintenanceTask
  PROVE  s \o [i \in 1..n |-> t] \in Seq(MaintenanceTask)
<1>1. [i \in 1..n |-> t] \in [1..n -> MaintenanceTask]
  OBVIOUS
<1>2. [i \in 1..n |-> t] \in Seq(MaintenanceTask)
  BY <1>1, FunctionIsSeq
<1> QED
  BY <1>2

\* Every step of an administrator keeps the types and the places.
LEMMA AdminTypes ==
  ASSUME AsyncTypeOK, Hands, Batches, NEW a \in Admins, AdminStep(a)
  PROVE  AsyncTypeOK' /\ Hands' /\ \E l, x : l # "waiting" /\ Goes(a, l, x)
<1>t. /\ cur \in [Tasks -> Conns \cup {NoConn}] /\ pc \in [Tasks -> Labels]
      /\ status \in [Conns -> Statuses] /\ tasks \in Seq(MaintenanceTask)
      /\ pool \in Seq(Conns) /\ growing \in BOOLEAN /\ nconns \in Int /\ a \in Tasks
      /\ batch \in [Admins -> Seq(Conns)] /\ doomed \in [Admins -> Seq(Clients \cup {Gone})]
      /\ slot \in [Clients -> Conns \cup {NoConn, Failed}]
      /\ waiting \in Seq(Clients \cup {Gone})
  BY TaskKinds DEF AsyncTypeOK, Statuses
<1>d. a \notin Clients /\ a \notin Workers
  BY AsyncTasksAssumption
<1>n. NoConn \notin Conns
  BY TaskKinds
<1>f. \A l \in AdminPlaces : Fits(a, l, NoConn) /\ l # "waiting"
  BY <1>d, <1>n DEF Fits, AdminPlaces, Holding
<1>h. cur[a] = NoConn
  <2>1. pc[a] \notin Holding
    BY DEF Hands, AdminPlaces, Holding
  <2> QED
    BY <1>t, <2>1, NothingHeld
<1>l. \A l \in {"start", "closing", "gather", "check_next", "await_full", "done"} : l \in AdminPlaces
  BY DEF AdminPlaces
<1>g. ASSUME NEW l \in AdminPlaces, Goto(a, l), UNCHANGED cur
      PROVE  /\ Hands' /\ pc' \in [Tasks -> Labels] /\ cur' \in [Tasks -> Conns \cup {NoConn}]
             /\ \E m, x : m # "waiting" /\ Goes(a, m, x)
  <2>1. Goes(a, l, cur[a])
    BY <1>g, <1>f, <1>h, <1>t, GoesKept
  <2>2. l # "waiting"
    BY <1>f, <1>g
  <2> QED
    BY <1>t, <2>1, <2>2, GoesHands
<1>1. ASSUME NEW l \in AdminPlaces, MoveTo(a, l)
      PROVE  AsyncTypeOK' /\ Hands' /\ \E m, x : m # "waiting" /\ Goes(a, m, x)
  <2>1. Fits(a, l, cur[a])
    BY <1>1, <1>f, <1>h
  <2> QED
    BY <1>1, <1>f, <1>t, <2>1, MoveType
<1>2. ASSUME Close(a)
      PROVE  AsyncTypeOK' /\ Hands' /\ \E m, x : m # "waiting" /\ Goes(a, m, x)
  <2>1. /\ Hands' /\ pc' \in [Tasks -> Labels] /\ cur' \in [Tasks -> Conns \cup {NoConn}]
        /\ \E m, x : m # "waiting" /\ Goes(a, m, x)
    BY <1>2, <1>g, <1>l DEF Close
  <2>2. tasks' \in Seq(MaintenanceTask)
    <3>1. Cardinality(Workers) \in Nat
      BY AsyncTasksAssumption, FS_CardinalityType
    <3>2. Simple("stop") \in MaintenanceTask
      BY NewTasks
    <3>3. CASE closed
      BY <1>2, <1>t, <3>3 DEF Close, StopTasks
    <3>4. CASE ~closed
      BY <1>2, <1>t, <3>1, <3>2, <3>4, CopiesType DEF Close, StopTasks
    <3> QED
      BY <3>3, <3>4
  <2>3. /\ batch' \in [Admins -> Seq(Conns)] /\ doomed' \in [Admins -> Seq(Clients \cup {Gone})]
        /\ waiting' \in Seq(Clients \cup {Gone}) /\ pool' \in Seq(Conns)
    BY <1>2, <1>t DEF Close
  <2>4. AsyncTypeOK'
    BY <1>2, <2>1, <2>2, <2>3 DEF Close, AsyncTypeOK, sizeVars, countVars
  <2> QED
    BY <2>1, <2>4
<1>3. CASE close(a) \/ close_locked(a) \/ wait_timeout(a)
  <2>1. Close(a) \/ \E l \in {"closing", "done"} : MoveTo(a, l)
    BY <1>3 DEF close, close_locked, wait_timeout, CloseOrQueue
  <2> QED
    BY <1>1, <1>2, <1>l, <2>1
<1>4. CASE close_ends(a)
  <2>1. /\ Hands' /\ pc' \in [Tasks -> Labels] /\ cur' \in [Tasks -> Conns \cup {NoConn}]
        /\ \E m, x : m # "waiting" /\ Goes(a, m, x)
    BY <1>4, <1>g, <1>l DEF close_ends
  <2>2. status' \in [Conns -> Statuses]
    BY <1>4, <1>t DEF close_ends, Statuses
  <2>3. slot' \in [Clients -> Conns \cup {NoConn, Failed}]
    BY <1>4, <1>t DEF close_ends, FailAll
  <2>4. batch' \in [Admins -> Seq(Conns)] /\ doomed' \in [Admins -> Seq(Clients \cup {Gone})]
    BY <1>4, <1>t DEF close_ends
  <2>5. AsyncTypeOK'
    BY <1>4, <2>1, <2>2, <2>3, <2>4
       DEF close_ends, AsyncTypeOK, Statuses, flagVars, sizeVars, countVars, poolVars, taskVars
  <2> QED
    BY <2>1, <2>5
<1>5. CASE check(a)
  <2>1. Goto(a, "start") \/ Goto(a, "check_next")
    BY <1>5 DEF check
  <2>2. /\ Hands' /\ pc' \in [Tasks -> Labels] /\ cur' \in [Tasks -> Conns \cup {NoConn}]
        /\ \E m, x : m # "waiting" /\ Goes(a, m, x)
    BY <1>5, <1>g, <1>l, <2>1 DEF check
  <2>3. batch' \in [Admins -> Seq(Conns)] /\ pool' \in Seq(Conns)
    BY <1>5, <1>t DEF check
  <2>4. nconns' \in Int /\ growing' \in BOOLEAN /\ tasks' \in Seq(MaintenanceTask)
    BY <1>5, <1>t, GrowType DEF check
  <2>5. AsyncTypeOK'
    BY <1>5, <2>2, <2>3, <2>4 DEF check, AsyncTypeOK, flagVars, sizeVars, queueVars
  <2> QED
    BY <2>2, <2>5
<1>6. CASE check_next(a)
  <2> DEFINE n == Len(batch[a])
             x == batch[a][n]
             rest == SubSeq(batch[a], 1, n - 1)
  <2>0. batch[a] \in Seq(Conns) /\ batch[a] # <<>>
    BY <1>6, <1>t DEF check_next, At, Batches
  <2>1. x \in Conns /\ rest \in Seq(Conns)
    BY <2>0
  <2>2. /\ batch' = [batch EXCEPT ![a] = rest]
        /\ Goto(a, "start") \/ Goto(a, "check_next")
        /\ \/ /\ Mark(x, "UNKNOWN") /\ run_task(AddConnection(FALSE, FALSE))
              /\ UNCHANGED <<poolVars, queueVars>>
           \/ Add(x) /\ UNCHANGED tasks
        /\ UNCHANGED <<flagVars, sizeVars, countVars, sched, cur, fromget, job, doomed>>
    BY <1>6 DEF check_next
  <2> HIDE DEF x, rest, n
  <2>3. /\ Hands' /\ pc' \in [Tasks -> Labels] /\ cur' \in [Tasks -> Conns \cup {NoConn}]
        /\ \E m, y : m # "waiting" /\ Goes(a, m, y)
    BY <1>g, <1>l, <2>2
  <2>4. batch' \in [Admins -> Seq(Conns)]
    BY <1>t, <2>1, <2>2
  <2>5. /\ pool' \in Seq(Conns) /\ waiting' \in Seq(Clients \cup {Gone})
        /\ slot' \in [Clients -> Conns \cup {NoConn, Failed}]
        /\ status' \in [Conns -> Statuses] /\ full_event' \in {"none", "unset", "set"}
        /\ tasks' \in Seq(MaintenanceTask)
    <3>1. CASE Add(x) /\ UNCHANGED tasks
      BY <1>t, <2>1, <3>1, AddType
    <3>2. CASE /\ Mark(x, "UNKNOWN") /\ run_task(AddConnection(FALSE, FALSE))
               /\ UNCHANGED <<poolVars, queueVars>>
      <4>1. status' \in [Conns -> Statuses]
        BY <1>t, <3>2, MarkType DEF Statuses
      <4>2. AddConnection(FALSE, FALSE) \in MaintenanceTask
        BY NewTasks
      <4>3. tasks' \in Seq(MaintenanceTask)
        BY <1>t, <3>2, <4>2, RunType
      <4> QED
        BY <3>2, <4>1, <4>3 DEF AsyncTypeOK, poolVars, queueVars
    <3> QED
      BY <2>2, <3>1, <3>2
  <2>6. AsyncTypeOK'
    BY <2>2, <2>3, <2>4, <2>5 DEF AsyncTypeOK, Statuses, flagVars, sizeVars, countVars
  <2> QED
    BY <2>3, <2>6
<1>7. CASE wait(a) \/ wait_ends(a)
  <2>1. Goto(a, "done") \/ Goto(a, "await_full")
    BY <1>7 DEF wait, wait_ends
  <2>2. UNCHANGED cur
    BY <1>7 DEF wait, wait_ends
  <2>3. /\ Hands' /\ pc' \in [Tasks -> Labels] /\ cur' \in [Tasks -> Conns \cup {NoConn}]
        /\ \E m, x : m # "waiting" /\ Goes(a, m, x)
    BY <1>g, <1>l, <2>1, <2>2
  <2>4. /\ full_event' \in {"none", "unset", "set"} /\ tasks' \in Seq(MaintenanceTask)
        /\ UNCHANGED <<flagVars, sizeVars, countVars, pool, sched, queueVars, status, fromget,
                       job, adminVars>>
    <3>1. CASE wait(a)
      <4>1. AddConnection(FALSE, FALSE) \in MaintenanceTask
        BY NewTasks
      <4>2. run_task(AddConnection(FALSE, FALSE)) \/ UNCHANGED tasks
        BY <3>1 DEF wait
      <4>3. tasks' \in Seq(MaintenanceTask)
        BY <1>t, <4>1, <4>2, RunType
      <4>4. full_event' \in {"none", "unset", "set"}
        BY <3>1 DEF wait, AsyncTypeOK
      <4> QED
        BY <3>1, <4>3, <4>4 DEF wait
    <3>2. CASE wait_ends(a)
      BY <1>t, <3>2 DEF wait_ends, taskVars
    <3> QED
      BY <1>7, <3>1, <3>2
  <2>5. AsyncTypeOK'
    BY <2>3, <2>4 DEF AsyncTypeOK, flagVars, sizeVars, countVars, queueVars, adminVars
  <2> QED
    BY <2>3, <2>5
<1> QED
  BY <1>3, <1>4, <1>5, <1>6, <1>7 DEF AdminStep, Administer

\* So do the steps that no task makes.
LEMMA OtherTypes ==
  ASSUME AsyncTypeOK, Hands, Unopened,
         \/ open
         \/ \E k \in DelayedKinds : tick(k)
         \/ \E sizes \in setup.sizes : resize(sizes)
         \/ UNCHANGED vars
  PROVE  AsyncTypeOK' /\ Hands'
<1>t. /\ cur \in [Tasks -> Conns \cup {NoConn}] /\ pc \in [Tasks -> Labels]
      /\ tasks \in Seq(MaintenanceTask) /\ nconns \in Int /\ min_size \in Nat
      /\ sched \in [DelayedKinds -> Nat] /\ setup \in Setups
  BY DEF AsyncTypeOK
<1>1. CASE open
  <2>1. tasks' \in Seq(MaintenanceTask)
    <3>1. nconns \in Nat
      BY <1>1, <1>t DEF open, Unopened
    <3>2. AddConnection(FALSE, FALSE) \in MaintenanceTask /\ Simple("schedule") \in MaintenanceTask
      BY NewTasks
    <3>3. [i \in 1..nconns |-> AddConnection(FALSE, FALSE)] \in [1..nconns -> MaintenanceTask]
      BY <3>2
    <3>4. [i \in 1..nconns |-> AddConnection(FALSE, FALSE)] \in Seq(MaintenanceTask)
      BY <3>1, <3>3, FunctionIsSeq
    <3>5. PICK s \in Seq(MaintenanceTask) : s = [i \in 1..nconns |-> AddConnection(FALSE, FALSE)]
      BY <3>4
    <3>6. s \o <<Simple("schedule")>> \in Seq(MaintenanceTask)
      BY <3>2
    <3> QED
      BY <1>1, <3>5, <3>6 DEF open, InitialTasks
  <2>2. pc' \in [Tasks -> Labels]
    BY <1>1, <1>t DEF open, Labels
  <2>3. Hands'
    <3>1. /\ \A w \in Workers : pc'[w] = "idle" /\ pc[w] = "off"
          /\ \A t \in Tasks : t \notin Workers => pc'[t] = pc[t]
          /\ cur' = cur
      BY <1>1, TaskKinds DEF open, Unopened
    <3>2. /\ \A c \in Clients : c \notin Workers /\ c \in Tasks
          /\ \A a \in Admins : a \notin Workers /\ a \in Tasks
      BY AsyncTasksAssumption, TaskKinds
    <3> QED
      BY <3>1, <3>2 DEF Hands, WorkerPlaces, Holding
  <2>4. AsyncTypeOK'
    BY <1>1, <2>1, <2>2 DEF open, AsyncTypeOK, sizeVars, countVars, poolVars, queueVars, adminVars
  <2> QED
    BY <2>3, <2>4
<1>2. ASSUME NEW k \in DelayedKinds, tick(k)
      PROVE  AsyncTypeOK' /\ Hands'
  <2>1. sched' \in [DelayedKinds -> Nat]
    <3>1. sched[k] - 1 \in Nat
      BY <1>2, <1>t DEF tick
    <3> QED
      BY <1>2, <1>t, <3>1 DEF tick
  <2>2. tasks' \in Seq(MaintenanceTask)
    <3>1. Delayed(k) \in MaintenanceTask
      BY <1>2, DelayedTasks
    <3> QED
      BY <1>2, <1>t, <3>1, RunType DEF tick
  <2>3. AsyncTypeOK'
    BY <1>2, <2>1, <2>2
       DEF tick, AsyncTypeOK, flagVars, sizeVars, countVars, poolVars, queueVars, adminVars
  <2>4. Hands'
    BY <1>2 DEF tick, Hands
  <2> QED
    BY <2>3, <2>4
<1>3. ASSUME NEW z \in setup.sizes, resize(z)
      PROVE  AsyncTypeOK' /\ Hands'
  <2>1. z[1] \in Nat /\ z[2] \in Nat
    BY <1>3, <1>t, AsyncConstantsAssumption
  <2>2. PICK n \in Nat : n = IF z[1] > min_size THEN z[1] - min_size ELSE 0
    BY <1>t, <2>1
  <2>3. /\ nconns' = nconns + n
        /\ tasks' = tasks \o [i \in 1..n |-> AddConnection(FALSE, FALSE)]
        /\ min_size' = z[1] /\ max_size' = z[2]
        /\ UNCHANGED <<flagVars, nconns_min, growing, poolVars, sched, queueVars,
                       status, pc, cur, fromget, job, adminVars>>
    BY <1>3, <2>2 DEF resize
  <2>4. tasks' \in Seq(MaintenanceTask)
    <3>1. AddConnection(FALSE, FALSE) \in MaintenanceTask
      BY NewTasks
    <3> QED
      BY <1>t, <2>3, <3>1, CopiesType
  <2>5. nconns' \in Int
    BY <1>t, <2>3
  <2>6. AsyncTypeOK'
    BY <2>1, <2>3, <2>4, <2>5 DEF AsyncTypeOK, flagVars, poolVars, queueVars, adminVars
  <2>7. Hands'
    BY <2>3 DEF Hands
  <2> QED
    BY <2>6, <2>7
<1>4. CASE UNCHANGED vars
  <2>1. AsyncTypeOK'
    BY <1>4 DEF vars, AsyncTypeOK
  <2>2. Hands'
    BY <1>4 DEF vars, Hands
  <2> QED
    BY <2>1, <2>2
<1> QED
  BY <1>1, <1>2, <1>3, <1>4

\* So does a cancellation.
LEMMA CancelTypes ==
  ASSUME AsyncTypeOK, Hands, NEW t \in Clients \cup Admins, cancel(t)
  PROVE  AsyncTypeOK' /\ Hands' /\ \E l, x : l # "waiting" /\ Goes(t, l, x)
<1>t. /\ cur \in [Tasks -> Conns \cup {NoConn}] /\ pc \in [Tasks -> Labels]
      /\ status \in [Conns -> Statuses] /\ t \in Tasks
      /\ batch \in [Admins -> Seq(Conns)] /\ doomed \in [Admins -> Seq(Clients \cup {Gone})]
      /\ waiting \in Seq(Clients \cup {Gone})
  BY TaskKinds DEF AsyncTypeOK, Statuses
<1>d. \A u \in Clients : u \notin Workers /\ u \notin Admins
  BY AsyncTasksAssumption
<1>e. \A u \in Admins : u \notin Workers /\ u \notin Clients
  BY AsyncTasksAssumption
<1>1. Goes(t, IF t \in Clients THEN "idle" ELSE "done", NoConn)
  <2>1. Fits(t, IF t \in Clients THEN "idle" ELSE "done", NoConn)
    BY <1>d, <1>e, TaskKinds DEF Fits, ClientPlaces, AdminPlaces, Holding
  <2> QED
    BY <2>1 DEF cancel, Goes, Hold, Goto
<1>2. Hands' /\ pc' \in [Tasks -> Labels] /\ cur' \in [Tasks -> Conns \cup {NoConn}]
  BY <1>t, <1>1, GoesHands
<1>3. status' \in [Conns -> Statuses]
  BY <1>t DEF cancel, Statuses
<1>4. waiting' \in Seq(Clients \cup {Gone})
  BY <1>t, LeaveType DEF cancel
<1>5. batch' \in [Admins -> Seq(Conns)]
  BY <1>t DEF cancel
<1>6. doomed' \in [Admins -> Seq(Clients \cup {Gone})]
  <2> DEFINE D == [a \in Admins |-> [i \in DOMAIN doomed[a] |->
                     IF doomed[a][i] = t THEN Gone ELSE doomed[a][i]]]
  <2>1. D \in [Admins -> Seq(Clients \cup {Gone})]
    BY <1>t, DoomedType
  <2>2. \A a \in Admins : D[a] = [i \in DOMAIN doomed[a] |->
                                   IF doomed[a][i] = t THEN Gone ELSE doomed[a][i]]
    OBVIOUS
  <2>3. doomed' = [a \in Admins |-> IF a = t THEN <<>> ELSE
                     [i \in DOMAIN doomed[a] |-> IF doomed[a][i] = t THEN Gone ELSE doomed[a][i]]]
    BY DEF cancel
  <2> HIDE DEF D
  <2>4. doomed' = [a \in Admins |-> IF a = t THEN <<>> ELSE D[a]]
    BY <2>2, <2>3
  <2> QED
    BY <2>1, <2>4
<1>7. fromget' \in [Clients -> BOOLEAN]
  BY DEF cancel, AsyncTypeOK
<1>8. AsyncTypeOK'
  BY <1>2, <1>3, <1>4, <1>5, <1>6, <1>7
     DEF cancel, AsyncTypeOK, Statuses, flagVars, sizeVars, countVars, poolVars, taskVars
<1>9. (IF t \in Clients THEN "idle" ELSE "done") # "waiting"
  OBVIOUS
<1> QED
  BY <1>1, <1>2, <1>8, <1>9

-----------------------------------------------------------------------------
(* What check() and close() took                                             *)

\* A step that leaves the administrators alone.
LEMMA BatchesKept ==
  ASSUME Batches, UNCHANGED <<setup, closed, batch>>, \A a \in Admins : pc'[a] = pc[a]
  PROVE  Batches'
BY DEF Batches, kind

\* A step of administrator a, for the others.
LEMMA BatchesOthers ==
  ASSUME Batches, NEW a \in Admins, setup' = setup, closed => closed',
         \A b \in Admins : b # a => pc'[b] = pc[b] /\ batch'[b] = batch[b],
         /\ batch'[a] # <<>> => pc'[a] \in {"check_next", "gather"}
         /\ pc'[a] = "check_next" => batch'[a] # <<>> /\ kind = "pool"
         /\ pc'[a] = "gather" => closed'
  PROVE  Batches'
<1>1. kind' = kind
  BY DEF kind
<1>2. ASSUME NEW b \in Admins
      PROVE  /\ batch'[b] # <<>> => pc'[b] \in {"check_next", "gather"}
             /\ pc'[b] = "check_next" => batch'[b] # <<>> /\ kind = "pool"
             /\ pc'[b] = "gather" => closed'
  BY <1>2 DEF Batches
<1> QED
  BY <1>1, <1>2 DEF Batches

\* No step changes what the pool is, and only open() opens it.
LEMMA FlagsKept ==
  ASSUME Next, ~open
  PROVE  setup' = setup /\ opened' = opened /\ (closed => closed')
<1>1. ASSUME NEW c \in Clients, ClientStep(c)
      PROVE  UNCHANGED flagVars
  BY <1>1 DEF ClientStep, Request, getconn, getconn_locked, null_connected, null_connect_fails,
     wait_returns, wait_times_out, check_passes, check_fails, backoff_gives_up, backoff_retries,
     putconn, putconn_locked, reset_ends, add_locked, Acquire, MoveTo
<1>2. ASSUME NEW w \in Workers, WorkerStep(w)
      PROVE  UNCHANGED flagVars
  BY <1>2 DEF WorkerStep, Work, worker, _add_connection, reset_ends, add_locked, give_up_locked,
     _connect_fails
<1>3. ASSUME NEW a \in Admins, AdminStep(a)
      PROVE  setup' = setup /\ opened' = opened /\ (closed => closed')
  <2>1. CASE Close(a)
    BY <2>1 DEF Close
  <2>2. CASE UNCHANGED flagVars
    BY <2>2 DEF flagVars
  <2>3. close_ends(a) \/ check(a) \/ check_next(a) \/ wait(a) \/ wait_ends(a) => UNCHANGED flagVars
    BY DEF close_ends, check, check_next, wait, wait_ends
  <2>4. close(a) \/ close_locked(a) \/ wait_timeout(a) => Close(a) \/ UNCHANGED flagVars
    BY DEF close, close_locked, wait_timeout, CloseOrQueue, MoveTo
  <2> QED
    BY <1>3, <2>1, <2>2, <2>3, <2>4 DEF AdminStep, Administer
<1>4. ASSUME NEW t \in Clients \cup Admins, cancel(t)
      PROVE  UNCHANGED flagVars
  BY <1>4 DEF cancel
<1>5. ASSUME NEW k \in DelayedKinds, tick(k)
      PROVE  UNCHANGED flagVars
  BY <1>5 DEF tick
<1>6. ASSUME NEW z \in setup.sizes, resize(z)
      PROVE  UNCHANGED flagVars
  BY <1>6 DEF resize
<1> QED
  BY <1>1, <1>2, <1>3, <1>4, <1>5, <1>6 DEF Next, flagVars

\* A step of an administrator keeps them.
LEMMA AdminBatches ==
  ASSUME AsyncTypeOK, Hands, Batches, NEW a \in Admins, AdminStep(a)
  PROVE  Batches'
<1>t. /\ pc \in [Tasks -> Labels] /\ batch \in [Admins -> Seq(Conns)] /\ a \in Tasks
      /\ Admins \subseteq Tasks
  BY TaskKinds DEF AsyncTypeOK
<1>1. ASSUME NEW l, MoveTo(a, l), l \in {"closing", "done"}, pc[a] \in {"start", "await_full"}
      PROVE  Batches'
  <2>1. batch[a] = <<>> /\ UNCHANGED <<setup, closed, batch>> /\ pc' = [pc EXCEPT ![a] = l]
    BY <1>1 DEF Batches, MoveTo, Goto, flagVars, adminVars
  <2> QED
    BY <1>1, <1>t, <2>1, BatchesOthers
<1>2. ASSUME Close(a)
      PROVE  Batches'
  <2>1. /\ setup' = setup /\ closed' = TRUE /\ batch' = [batch EXCEPT ![a] = pool]
        /\ pc' = [pc EXCEPT ![a] = "gather"]
    BY <1>2 DEF Close, Goto
  <2> QED
    BY <1>t, <2>1, BatchesOthers
<1>3. CASE close(a) \/ close_locked(a) \/ wait_timeout(a)
  <2>1. Close(a) \/ (pc[a] \in {"start", "await_full"} /\ \E l \in {"closing", "done"} : MoveTo(a, l))
    BY <1>3 DEF close, close_locked, wait_timeout, CloseOrQueue, At
  <2> QED
    BY <1>1, <1>2, <2>1
<1>4. CASE close_ends(a)
  <2>1. /\ setup' = setup /\ closed' = closed /\ batch' = [batch EXCEPT ![a] = <<>>]
        /\ pc' = [pc EXCEPT ![a] = "done"]
    BY <1>4 DEF close_ends, Goto, flagVars
  <2> QED
    BY <1>t, <2>1, BatchesOthers
<1>5. CASE check(a)
  <2>1. /\ setup' = setup /\ closed' = closed /\ batch' = [batch EXCEPT ![a] = pool]
        /\ pc' = [pc EXCEPT ![a] = IF pool = <<>> THEN "start" ELSE "check_next"] /\ kind = "pool"
    BY <1>5 DEF check, Goto, flagVars
  <2> QED
    BY <1>t, <2>1, BatchesOthers
<1>6. CASE check_next(a)
  <2> DEFINE rest == SubSeq(batch[a], 1, Len(batch[a]) - 1)
  <2>1. /\ setup' = setup /\ closed' = closed /\ batch' = [batch EXCEPT ![a] = rest]
        /\ pc' = [pc EXCEPT ![a] = IF rest = <<>> THEN "start" ELSE "check_next"] /\ kind = "pool"
    BY <1>6 DEF check_next, Goto, flagVars, At, Batches
  <2> HIDE DEF rest
  <2> QED
    BY <1>t, <2>1, BatchesOthers
<1>7. CASE wait(a) \/ wait_ends(a)
  <2>1. /\ setup' = setup /\ closed' = closed /\ batch' = batch
        /\ \E l \in {"done", "await_full"} : pc' = [pc EXCEPT ![a] = l]
        /\ pc[a] \in {"start", "await_full"}
    BY <1>7 DEF wait, wait_ends, Goto, flagVars, adminVars, At
  <2>2. batch[a] = <<>>
    BY <2>1 DEF Batches
  <2> QED
    BY <1>t, <2>1, <2>2, BatchesOthers
<1> QED
  BY <1>3, <1>4, <1>5, <1>6, <1>7 DEF AdminStep, Administer

\* Every step does.
LEMMA BatchesStep ==
  ASSUME Steady, [Next]_vars
  PROVE  Batches'
<1>s. AsyncTypeOK /\ Hands /\ Batches /\ Jobs /\ Unopened
  BY DEF Steady
<1>t. pc \in [Tasks -> Labels] /\ batch \in [Admins -> Seq(Conns)] /\ Admins \subseteq Tasks
  BY <1>s, TaskKinds DEF AsyncTypeOK
<1>1. ASSUME NEW t \in Clients \cup Workers, NEW l, NEW x, Goes(t, l, x),
             UNCHANGED <<setup, closed, batch>>
      PROVE  Batches'
  <2>1. \A a \in Admins : a # t
    BY AsyncTasksAssumption
  <2>2. \A a \in Admins : pc'[a] = pc[a]
    BY <1>1, <1>t, <2>1 DEF Goes
  <2> QED
    BY <1>1, <1>s, <2>2, BatchesKept
<1>2. ASSUME NEW c \in Clients, ClientStep(c)
      PROVE  Batches'
  <2>1. UNCHANGED <<setup, closed, batch>>
    BY <1>2 DEF ClientStep, Request, getconn, getconn_locked, null_connected, null_connect_fails,
       wait_returns, wait_times_out, check_passes, check_fails, backoff_gives_up, backoff_retries,
       putconn, putconn_locked, reset_ends, add_locked, Acquire, MoveTo, flagVars, adminVars
  <2>2. \E l, x : Goes(c, l, x)
    BY <1>2, <1>s, ClientTypes
  <2> QED
    BY <1>1, <2>1, <2>2
<1>3. ASSUME NEW w \in Workers, WorkerStep(w)
      PROVE  Batches'
  <2>1. UNCHANGED <<setup, closed, batch>>
    BY <1>3 DEF WorkerStep, Work, worker, _add_connection, reset_ends, add_locked, give_up_locked,
       _connect_fails, flagVars, adminVars
  <2>2. \E l, x : Goes(w, l, x)
    BY <1>3, <1>s, WorkerTypes
  <2> QED
    BY <1>1, <2>1, <2>2
<1>4. ASSUME NEW a \in Admins, AdminStep(a)
      PROVE  Batches'
  BY <1>4, <1>s, AdminBatches
<1>5. ASSUME NEW t \in Clients \cup Admins, cancel(t)
      PROVE  Batches'
  <2>1. /\ UNCHANGED <<setup, closed>>
        /\ batch' = [a \in Admins |-> IF a = t THEN <<>> ELSE batch[a]]
        /\ pc' = [pc EXCEPT ![t] = IF t \in Clients THEN "idle" ELSE "done"]
    BY <1>5 DEF cancel, Goto, flagVars
  <2>2. CASE t \in Clients
    <3>1. t \notin Admins
      BY <2>2, AsyncTasksAssumption
    <3>2. batch' = batch /\ \A a \in Admins : pc'[a] = pc[a]
      BY <1>t, <2>1, <3>1
    <3> QED
      BY <1>s, <2>1, <3>2, BatchesKept
  <2>3. CASE t \in Admins
    <3>1. t \notin Clients
      BY <2>3, AsyncTasksAssumption
    <3>2. /\ pc'[t] = "done" /\ batch'[t] = <<>>
          /\ \A b \in Admins : b # t => pc'[b] = pc[b] /\ batch'[b] = batch[b]
      BY <1>t, <2>1, <2>3, <3>1
    <3> QED
      BY <1>s, <2>1, <2>3, <3>2, BatchesOthers
  <2> QED
    BY <2>2, <2>3
<1>6. CASE open
  <2>1. /\ setup' = setup /\ batch' = batch /\ batch = [a \in Admins |-> <<>>]
        /\ \A a \in Admins : pc'[a] = pc[a] /\ pc[a] \in {"start", "done"}
    <3>1. \A a \in Admins : a \notin Workers
      BY AsyncTasksAssumption
    <3> QED
      BY <1>6, <1>s, <1>t, <3>1 DEF open, Unopened, adminVars
  <2> QED
    BY <2>1 DEF Batches
<1>7. CASE \/ \E k \in DelayedKinds : tick(k)
           \/ \E z \in setup.sizes : resize(z)
           \/ UNCHANGED vars
  <2>1. UNCHANGED <<setup, closed, batch, pc>>
    BY <1>7 DEF tick, resize, vars, flagVars, adminVars
  <2> QED
    BY <1>s, <2>1, BatchesKept
<1> QED
  BY <1>2, <1>3, <1>4, <1>5, <1>6, <1>7 DEF Next

-----------------------------------------------------------------------------
(* Before open()                                                             *)

\* No task runs before open(), but that a call of an administrator may be cancelled.
LEMMA NobodyRuns ==
  ASSUME AsyncTypeOK, Unopened, ~opened
  PROVE  /\ \A c \in Clients : ~ClientStep(c)
         /\ \A w \in Workers : ~WorkerStep(w)
         /\ \A a \in Admins : ~AdminStep(a)
         /\ \A k \in DelayedKinds : ~tick(k)
         /\ \A z \in setup.sizes : ~resize(z)
<1>1. ASSUME NEW c \in Clients, ClientStep(c)
      PROVE  FALSE
  <2>1. closed /\ pc[c] = "idle"
    BY DEF Unopened
  <2> QED
    BY <1>1, <2>1 DEF ClientStep, Request, getconn, getconn_locked, null_connected,
       null_connect_fails, wait_returns, wait_times_out, check_passes, check_fails,
       backoff_gives_up, backoff_retries, putconn, putconn_locked, reset_ends, add_locked, At
<1>2. ASSUME NEW w \in Workers, WorkerStep(w)
      PROVE  FALSE
  <2>1. pc[w] = "off"
    BY DEF Unopened
  <2> QED
    BY <1>2, <2>1 DEF WorkerStep, Work, worker, _add_connection, reset_ends, add_locked,
       give_up_locked, _connect_fails, At
<1>3. ASSUME NEW a \in Admins, AdminStep(a)
      PROVE  FALSE
  <2>1. closed /\ pc[a] \in {"start", "done"}
    BY DEF Unopened
  <2> QED
    BY <1>3, <2>1 DEF AdminStep, Administer, close, close_locked, close_ends, check, check_next,
       wait, wait_ends, wait_timeout, At
<1> QED
  BY <1>1, <1>2, <1>3 DEF tick, resize

\* So things stay as they are.
LEMMA UnopenedStep ==
  ASSUME Steady, [Next]_vars
  PROVE  Unopened'
<1>s. AsyncTypeOK /\ Hands /\ Batches /\ Jobs /\ Unopened
  BY DEF Steady
<1>t. /\ pc \in [Tasks -> Labels] /\ Admins \subseteq Tasks
      /\ Clients \subseteq Tasks /\ Workers \subseteq Tasks /\ opened \in BOOLEAN
  BY <1>s, TaskKinds DEF AsyncTypeOK
<1>1. CASE UNCHANGED vars
  BY <1>1, <1>s DEF vars, Unopened, kind
<1>2. CASE open
  BY <1>2 DEF open, Unopened
<1>3. CASE opened
  <2>1. opened'
    BY <1>3, <1>1, <1>2, FlagsKept DEF open, vars
  <2> QED
    BY <2>1 DEF Unopened
<1>4. ASSUME ~opened, NEW t \in Clients \cup Admins, cancel(t)
      PROVE  Unopened'
  <2>u. /\ closed /\ pool = <<>> /\ waiting = <<>> /\ nconns = min_size
        /\ kind = "null" => min_size = 0
        /\ sched = [k \in DelayedKinds |-> 0] /\ slot = [c \in Clients |-> NoConn]
        /\ cur = [u \in Tasks |-> NoConn] /\ batch = [a \in Admins |-> <<>>]
        /\ \A c \in Clients : pc[c] = "idle"
        /\ \A w \in Workers : pc[w] = "off"
        /\ \A a \in Admins  : pc[a] \in {"start", "done"}
    BY <1>4, <1>s DEF Unopened
  <2>1. t \in Clients => t \notin Admins /\ t \notin Workers
    BY AsyncTasksAssumption
  <2>2. t \in Admins => t \notin Clients /\ t \notin Workers
    BY AsyncTasksAssumption
  <2>3. UNCHANGED <<setup, closed, pool, nconns, min_size, sched, slot>>
    BY <1>4 DEF cancel, flagVars, poolVars, countVars, sizeVars, taskVars
  <2>4. waiting' = <<>>
    <3>1. ~At(t, "waiting")
      BY <2>u, <1>4 DEF At
    <3> QED
      BY <1>4, <2>u, <3>1 DEF cancel
  <2>5. cur' = [u \in Tasks |-> NoConn]
    BY <1>4, <2>u DEF cancel, Hold
  <2>6. batch' = [a \in Admins |-> <<>>]
    BY <1>4, <2>u DEF cancel
  <2>7. /\ \A c \in Clients : pc'[c] = "idle"
        /\ \A w \in Workers : pc'[w] = "off"
        /\ \A a \in Admins  : pc'[a] \in {"start", "done"}
    <3>1. pc' = [pc EXCEPT ![t] = IF t \in Clients THEN "idle" ELSE "done"]
      BY <1>4 DEF cancel, Goto
    <3>2. CASE t \in Clients
      <4>1. \A u \in Tasks : u # t => pc'[u] = pc[u]
        BY <1>t, <3>1
      <4>2. pc'[t] = "idle"
        BY <1>t, <3>1, <3>2
      <4> QED
        BY <1>t, <2>1, <2>u, <3>2, <4>1, <4>2
    <3>3. CASE t \in Admins
      <4>1. \A u \in Tasks : u # t => pc'[u] = pc[u]
        BY <1>t, <3>1
      <4>2. pc'[t] = "done"
        BY <1>t, <2>2, <3>1, <3>3
      <4> QED
        BY <1>t, <2>2, <2>u, <3>3, <4>1, <4>2
    <3> QED
      BY <1>4, <3>2, <3>3
  <2>8. kind' = kind
    BY <2>3 DEF kind
  <2> QED
    BY <2>u, <2>3, <2>4, <2>5, <2>6, <2>7, <2>8 DEF Unopened
<1> QED
  BY <1>1, <1>2, <1>3, <1>4, <1>s, NobodyRuns DEF Next

-----------------------------------------------------------------------------
(* Jobs                                                                      *)

\* What is queued was queued before, or is as TaskOK says.
TasksKept ==
  \A i \in DOMAIN tasks' : (\E j \in DOMAIN tasks : tasks'[i] = tasks[j]) \/ TaskOK(tasks'[i])

\* The ways in which the queue of tasks changes.
LEMMA TasksRun ==
  ASSUME tasks \in Seq(MaintenanceTask), NEW k \in MaintenanceTask, TaskOK(k), run_task(k)
  PROVE  TasksKept
<1>1. CASE tasks' = tasks
  BY <1>1 DEF TasksKept
<1>2. CASE tasks' = Append(tasks, k)
  <2>1. \A i \in DOMAIN tasks' : (i \in DOMAIN tasks /\ tasks'[i] = tasks[i]) \/ tasks'[i] = k
    BY <1>2
  <2> QED
    BY <2>1 DEF TasksKept
<1> QED
  BY <1>1, <1>2 DEF run_task

\* One is taken off its head.
LEMMA TasksTail ==
  ASSUME tasks \in Seq(MaintenanceTask), tasks # <<>>, tasks' = Tail(tasks)
  PROVE  TasksKept
<1>1. \A i \in DOMAIN tasks' : i + 1 \in DOMAIN tasks /\ tasks'[i] = tasks[i + 1]
  OBVIOUS
<1> QED
  BY <1>1 DEF TasksKept

\* One is taken off, and another queued.
LEMMA TasksSwap ==
  ASSUME tasks \in Seq(MaintenanceTask), tasks # <<>>, NEW k \in MaintenanceTask, TaskOK(k),
         tasks' = Append(Tail(tasks), k)
  PROVE  TasksKept
<1> DEFINE s == Tail(tasks)
<1>1. s \in Seq(MaintenanceTask) /\ \A i \in DOMAIN s : i + 1 \in DOMAIN tasks /\ s[i] = tasks[i + 1]
  OBVIOUS
<1>2. tasks' = Append(s, k)
  OBVIOUS
<1> HIDE DEF s
<1>3. \A i \in DOMAIN tasks' : (i \in DOMAIN s /\ tasks'[i] = s[i]) \/ tasks'[i] = k
  BY <1>1, <1>2
<1> QED
  BY <1>1, <1>3 DEF TasksKept

\* Copies of one are queued.
LEMMA TasksCopies ==
  ASSUME tasks \in Seq(MaintenanceTask), NEW n \in Nat, NEW k \in MaintenanceTask, TaskOK(k),
         tasks' = tasks \o [i \in 1..n |-> k]
  PROVE  TasksKept
<1>1. [i \in 1..n |-> k] \in Seq(MaintenanceTask)
  <2>1. [i \in 1..n |-> k] \in [1..n -> MaintenanceTask]
    OBVIOUS
  <2> QED
    BY <2>1, FunctionIsSeq
<1>2. PICK s \in Seq(MaintenanceTask) : s = [i \in 1..n |-> k]
  BY <1>1
<1>3. \A i \in DOMAIN s : s[i] = k
  BY <1>2
<1>4. tasks' = tasks \o s
  BY <1>2
<1>5. \A i \in DOMAIN tasks' : \/ i \in DOMAIN tasks /\ tasks'[i] = tasks[i]
                               \/ \E j \in DOMAIN s : tasks'[i] = s[j]
  <2> SUFFICES ASSUME NEW i \in DOMAIN tasks', ~(i \in DOMAIN tasks /\ tasks'[i] = tasks[i])
               PROVE  \E j \in DOMAIN s : tasks'[i] = s[j]
    OBVIOUS
  <2>1. i - Len(tasks) \in DOMAIN s /\ tasks'[i] = s[i - Len(tasks)]
    BY <1>4
  <2> QED
    BY <2>1
<1> QED
  BY <1>3, <1>5 DEF TasksKept

\* It stays as it is.
LEMMA TasksSame ==
  ASSUME tasks' = tasks
  PROVE  TasksKept
BY DEF TasksKept

\* The tasks that are queued are as TaskOK says.
LEMMA NewTasksOK ==
  /\ TaskOK(AddConnection(FALSE, FALSE))
  /\ kind = "pool" => TaskOK(AddConnection(TRUE, FALSE))
  /\ \A x \in Conns : TaskOK(ReturnConnection(x))
  /\ \A k \in {"shrink", "schedule", "stop"} : TaskOK(Simple(k))
BY NewTasks DEF TaskOK

\* A null pool that nobody waits for stays so.
EventKept == kind = "null" /\ full_event = "none" => full_event' = "none"

\* Handing a connection over keeps the tasks and the event in order.
LEMMA AddEvent ==
  ASSUME NEW x, Add(x) \/ UNCHANGED poolVars
  PROVE  EventKept
BY DEF Add, Serve, poolVars, EventKept

\* So does waiting for the lock first.
LEMMA AddOrQueueEvent ==
  ASSUME NEW t, NEW x, AddOrQueue(t, x)
  PROVE  EventKept
<1>1. Add(x) \/ UNCHANGED poolVars
  BY DEF AddOrQueue
<1> QED
  BY <1>1, AddEvent

\* Settling a connection keeps both.
LEMMA SettleJobs ==
  ASSUME AsyncTypeOK, NEW t, NEW x, NEW s, Settle(t, x, s)
  PROVE  TasksKept /\ EventKept
<1>t. tasks \in Seq(MaintenanceTask)
  BY DEF AsyncTypeOK
<1>1. CASE AddOrQueue(t, x) /\ UNCHANGED tasks
  BY <1>1, AddOrQueueEvent, TasksSame
<1>2. CASE run_task(AddConnection(FALSE, FALSE)) /\ UNCHANGED poolVars
  <2>1. AddConnection(FALSE, FALSE) \in MaintenanceTask /\ TaskOK(AddConnection(FALSE, FALSE))
    BY NewTasks, NewTasksOK
  <2> QED
    BY <1>2, <1>t, <2>1, TasksRun, AddEvent
<1> QED
  BY <1>1, <1>2 DEF Settle

\* So does putting one back.
LEMMA PutJobs ==
  ASSUME AsyncTypeOK, NEW c \in Clients, cur[c] \in Conns, NEW s, Put(c, s)
  PROVE  TasksKept /\ EventKept
<1>t. tasks \in Seq(MaintenanceTask)
  BY DEF AsyncTypeOK
<1>1. CASE run_task(ReturnConnection(cur[c])) /\ UNCHANGED poolVars
  <2>1. ReturnConnection(cur[c]) \in MaintenanceTask /\ TaskOK(ReturnConnection(cur[c]))
    BY NewTasks, NewTasksOK
  <2> QED
    BY <1>1, <1>t, <2>1, TasksRun, AddEvent
<1>2. CASE UNCHANGED <<tasks, poolVars>>
  BY <1>2, TasksSame, AddEvent
<1>3. CASE Settle(c, cur[c], IF s = "IDLE" THEN s ELSE "UNKNOWN")
  BY <1>3, SettleJobs
<1> QED
  BY <1>1, <1>2, <1>3 DEF Put

\* Or closing it instead.
LEMMA PutOrCloseJobs ==
  ASSUME AsyncTypeOK, NEW c \in Clients, cur[c] \in Conns, NEW s, PutOrClose(c, s)
  PROVE  TasksKept /\ EventKept
<1>1. CASE UNCHANGED <<tasks, poolVars>>
  BY <1>1, TasksSame, AddEvent
<1>2. CASE Put(c, s)
  BY <1>2, PutJobs
<1> QED
  BY <1>1, <1>2 DEF PutOrClose

\* Growing queues a task that may grow.
LEMMA GrowJobs ==
  ASSUME AsyncTypeOK, _maybe_grow_pool
  PROVE  TasksKept
<1>1. CASE CanGrow
  <2>1. AddConnection(TRUE, FALSE) \in MaintenanceTask /\ TaskOK(AddConnection(TRUE, FALSE))
    BY <1>1, NewTasks, NewTasksOK DEF CanGrow
  <2>2. run_task(AddConnection(TRUE, FALSE))
    BY <1>1 DEF _maybe_grow_pool
  <2> QED
    BY <2>1, <2>2, TasksRun DEF AsyncTypeOK
<1>2. CASE ~CanGrow
  BY <1>2, TasksSame DEF _maybe_grow_pool
<1> QED
  BY <1>1, <1>2

\* The steps that keep the jobs.
LEMMA JobsKept ==
  ASSUME Jobs, setup' = setup, TasksKept, UNCHANGED <<job, sched>>, EventKept
  PROVE  Jobs'
<1>1. kind' = kind /\ Counted' = Counted
  BY DEF kind, Counted
<1>2. \A i \in DOMAIN tasks' : TaskOK(tasks'[i])
  BY DEF Jobs, TasksKept
<1>3. \A i \in DOMAIN tasks' : TaskOK(tasks[i])'
  BY <1>1, <1>2 DEF TaskOK
<1> QED
  BY <1>1, <1>3 DEF Jobs, EventKept

\* The steps that change them.
LEMMA JobsChange ==
  ASSUME Jobs, setup' = setup, TasksKept, \A w \in Workers : job'[w].growing => kind = "pool",
         sched'["grow"] > 0 => kind = "pool", EventKept
  PROVE  Jobs'
<1>1. kind' = kind /\ Counted' = Counted
  BY DEF kind, Counted
<1>2. \A i \in DOMAIN tasks' : TaskOK(tasks'[i])
  BY DEF Jobs, TasksKept
<1>3. \A i \in DOMAIN tasks' : TaskOK(tasks[i])'
  BY <1>1, <1>2 DEF TaskOK
<1> QED
  BY <1>1, <1>3 DEF Jobs, EventKept

\* Every step of a client keeps them.
LEMMA ClientJobs ==
  ASSUME AsyncTypeOK, Hands, Jobs, NEW c \in Clients, ClientStep(c)
  PROVE  Jobs'
<1>1. setup' = setup /\ UNCHANGED <<job, sched>>
  BY DEF ClientStep, Request, getconn, getconn_locked, null_connected, null_connect_fails,
     wait_returns, wait_times_out, check_passes, check_fails, backoff_gives_up, backoff_retries,
     putconn, putconn_locked, reset_ends, add_locked, Acquire, MoveTo, flagVars, taskVars
<1>t. c \in Tasks
  BY TaskKinds
<1>2. CASE Acquire(c)
  <2>1. UNCHANGED full_event
    BY <1>2 DEF Acquire
  <2>2. _maybe_grow_pool \/ UNCHANGED tasks
    BY <1>2 DEF Acquire, PopIdle, Enqueue
  <2> QED
    BY <1>1, <2>1, <2>2, GrowJobs, TasksSame, JobsKept DEF EventKept
<1>3. CASE UNCHANGED <<tasks, full_event>>
  BY <1>1, <1>3, TasksSame, JobsKept DEF EventKept
<1>4. CASE check_fails(c) \/ putconn(c) \/ putconn_locked(c) \/ reset_ends(c) \/ add_locked(c)
  <2>1. cur[c] \in Conns
    BY <1>4, <1>t DEF check_fails, putconn, putconn_locked, reset_ends, add_locked, At, Hands, Holding
  <2>2. CASE \E s : Put(c, s) \/ PutOrClose(c, s) \/ Settle(c, cur[c], s)
    BY <1>1, <2>1, <2>2, PutJobs, PutOrCloseJobs, SettleJobs, JobsKept
  <2>3. CASE UNCHANGED <<tasks, poolVars>>
    BY <1>1, <2>3, TasksSame, AddEvent, JobsKept
  <2>4. CASE Add(cur[c]) /\ UNCHANGED tasks
    BY <1>1, <2>4, TasksSame, AddEvent, JobsKept
  <2> QED
    BY <1>4, <2>2, <2>3, <2>4 DEF check_fails, putconn, putconn_locked, reset_ends, add_locked, taskVars
<1>5. \/ Acquire(c) \/ UNCHANGED <<tasks, full_event>>
      \/ check_fails(c) \/ putconn(c) \/ putconn_locked(c) \/ reset_ends(c) \/ add_locked(c)
  BY DEF ClientStep, Request, getconn, getconn_locked, null_connected, null_connect_fails,
     wait_returns, wait_times_out, check_passes, backoff_gives_up, backoff_retries, MoveTo,
     poolVars, taskVars
<1> QED
  BY <1>2, <1>3, <1>4, <1>5

\* And of a worker.
LEMMA WorkerJobs ==
  ASSUME AsyncTypeOK, Hands, Jobs, NEW w \in Workers, WorkerStep(w)
  PROVE  Jobs'
<1>t. /\ tasks \in Seq(MaintenanceTask) /\ sched \in [DelayedKinds -> Nat] /\ w \in Tasks
      /\ job \in [Workers -> [growing: BOOLEAN, retry: BOOLEAN]]
  BY TaskKinds DEF AsyncTypeOK
<1>s. setup' = setup
  BY DEF WorkerStep, Work, worker, _add_connection, reset_ends, add_locked, give_up_locked,
     _connect_fails, flagVars
<1>n. NoJob.growing = FALSE
  BY DEF NoJob, Job
<1>j. /\ \A v \in Workers : job[v].growing => kind = "pool"
      /\ sched["grow"] > 0 => kind = "pool"
  BY DEF Jobs
<1>d. "grow" \in DelayedKinds
  BY DEF DelayedKinds
<1>k. \A k : schedule_task(k) /\ k # "grow" => (sched'["grow"] > 0 => kind = "pool")
  BY <1>t, <1>j, <1>d DEF schedule_task
<1>1. CASE worker(w)
  <2>1. tasks # <<>> /\ EventKept
    BY <1>1 DEF worker, EventKept
  <2>2. TasksKept
    <3>1. AddConnection(FALSE, FALSE) \in MaintenanceTask /\ TaskOK(AddConnection(FALSE, FALSE))
      BY NewTasks, NewTasksOK
    <3>2. tasks' = Tail(tasks) \/ tasks' = Append(Tail(tasks), AddConnection(FALSE, FALSE))
      BY <1>1 DEF worker
    <3> QED
      BY <1>t, <2>1, <3>1, <3>2, TasksTail, TasksSwap
  <2>3. sched'["grow"] > 0 => kind = "pool"
    <3>1. sched' = sched \/ schedule_task("shrink")
      BY <1>1 DEF worker
    <3> QED
      BY <1>j, <1>k, <3>1
  <2>4. \A v \in Workers : job'[v].growing => kind = "pool"
    <3>1. job' = job \/ job' = [job EXCEPT ![w] = Job(Head(tasks).growing, Head(tasks).retry)]
      BY <1>1 DEF worker
    <3>2. Head(tasks).growing => kind = "pool"
      <4>1. 1 \in DOMAIN tasks /\ Head(tasks) = tasks[1]
        BY <1>t, <2>1
      <4> QED
        BY <4>1 DEF Jobs, TaskOK
    <3>3. \A v \in Workers : job'[v] = job[v] \/ job'[v] = Job(Head(tasks).growing, Head(tasks).retry)
      BY <1>t, <3>1
    <3>4. Job(Head(tasks).growing, Head(tasks).retry).growing = Head(tasks).growing
      BY DEF Job
    <3> QED
      BY <1>j, <3>2, <3>3, <3>4
  <2> QED
    BY <1>s, <2>1, <2>2, <2>3, <2>4, JobsChange
<1>2. CASE _add_connection(w)
  <2>1. job' = [job EXCEPT ![w] = NoJob] /\ sched' = sched
    BY <1>2 DEF _add_connection
  <2>2. /\ \A v \in Workers : job'[v].growing => kind = "pool"
        /\ sched'["grow"] > 0 => kind = "pool"
    BY <1>t, <1>n, <1>j, <2>1
  <2>3. EventKept
    <3>1. \E x : AddOrQueue(w, x) \/ Add(x)
      BY <1>2 DEF _add_connection
    <3> QED
      BY <3>1, AddOrQueueEvent, AddEvent
  <2>4. TasksKept
    <3>1. CASE UNCHANGED tasks
      BY <3>1, TasksSame
    <3>2. CASE ~UNCHANGED tasks
      <4>1. job[w].growing /\ run_task(AddConnection(TRUE, FALSE))
        BY <1>2, <3>2 DEF _add_connection
      <4>2. AddConnection(TRUE, FALSE) \in MaintenanceTask /\ TaskOK(AddConnection(TRUE, FALSE))
        BY <1>j, <4>1, NewTasks, NewTasksOK
      <4> QED
        BY <1>t, <4>1, <4>2, TasksRun
    <3> QED
      BY <3>1, <3>2
  <2> QED
    BY <1>s, <2>2, <2>3, <2>4, JobsChange
<1>3. CASE _connect_fails(w) \/ give_up_locked(w)
  <2>1. tasks' = tasks /\ UNCHANGED poolVars
    BY <1>3 DEF _connect_fails, give_up_locked, taskVars
  <2>2. job' = job \/ job' = [job EXCEPT ![w] = NoJob]
    BY <1>3 DEF _connect_fails, give_up_locked
  <2>3. sched' = sched \/ schedule_task(IF job[w].growing THEN "grow" ELSE "add")
    BY <1>3 DEF _connect_fails, give_up_locked, taskVars
  <2>4. sched'["grow"] > 0 => kind = "pool"
    BY <1>j, <1>k, <2>3
  <2>5. \A v \in Workers : job'[v].growing => kind = "pool"
    BY <1>j, <1>n, <1>t, <2>2
  <2> QED
    BY <1>s, <2>1, <2>4, <2>5, TasksSame, AddEvent, JobsChange
<1>4. CASE reset_ends(w)
  <2>1. cur[w] \in Conns /\ UNCHANGED <<job, sched>>
    BY <1>4, <1>t DEF reset_ends, At, Hands, Holding
  <2>2. \E s : Settle(w, cur[w], s)
    BY <1>4 DEF reset_ends
  <2> QED
    BY <1>s, <2>1, <2>2, SettleJobs, JobsKept
<1>5. CASE add_locked(w)
  <2>1. Add(cur[w]) /\ UNCHANGED <<tasks, job, sched>>
    BY <1>5 DEF add_locked, taskVars
  <2> QED
    BY <1>s, <2>1, TasksSame, AddEvent, JobsKept
<1> QED
  BY <1>1, <1>2, <1>3, <1>4, <1>5 DEF WorkerStep, Work

\* And of an administrator.
LEMMA AdminJobs ==
  ASSUME AsyncTypeOK, Jobs, NEW a \in Admins, AdminStep(a)
  PROVE  Jobs'
<1>t. tasks \in Seq(MaintenanceTask)
  BY DEF AsyncTypeOK
<1>1. setup' = setup /\ UNCHANGED <<job, sched>>
  <2>1. Close(a) \/ MoveTo(a, "closing") \/ MoveTo(a, "done") => setup' = setup /\ UNCHANGED <<job, sched>>
    BY DEF Close, MoveTo, flagVars, taskVars
  <2>2. close_ends(a) \/ check(a) \/ check_next(a) \/ wait(a) \/ wait_ends(a)
          => setup' = setup /\ UNCHANGED <<job, sched>>
    BY DEF close_ends, check, check_next, wait, wait_ends, flagVars, taskVars
  <2>3. close(a) \/ close_locked(a) \/ wait_timeout(a)
          => Close(a) \/ MoveTo(a, "closing") \/ MoveTo(a, "done")
    BY DEF close, close_locked, wait_timeout, CloseOrQueue
  <2> QED
    BY <2>1, <2>2, <2>3 DEF AdminStep, Administer
<1>2. CASE Close(a)
  <2>1. UNCHANGED full_event /\ tasks' = tasks \o StopTasks
    BY <1>2 DEF Close
  <2>2. TasksKept
    <3>1. CASE closed
      <4>1. tasks' = tasks
        BY <1>t, <2>1, <3>1 DEF StopTasks
      <4> QED
        BY <4>1, TasksSame
    <3>2. CASE ~closed
      <4>1. Cardinality(Workers) \in Nat
        BY AsyncTasksAssumption, FS_CardinalityType
      <4>2. Simple("stop") \in MaintenanceTask /\ TaskOK(Simple("stop"))
        BY NewTasks, NewTasksOK
      <4> QED
        BY <1>t, <2>1, <3>2, <4>1, <4>2, TasksCopies DEF StopTasks
    <3> QED
      BY <3>1, <3>2
  <2> QED
    BY <1>1, <2>1, <2>2, JobsKept DEF EventKept
<1>3. CASE UNCHANGED <<tasks, full_event>>
  BY <1>1, <1>3, TasksSame, JobsKept DEF EventKept
<1>4. CASE check(a)
  BY <1>1, <1>4, GrowJobs, JobsKept DEF check, EventKept
<1>5. CASE check_next(a)
  <2>1. \/ run_task(AddConnection(FALSE, FALSE)) /\ UNCHANGED poolVars
        \/ UNCHANGED tasks /\ \E x : Add(x)
    BY <1>5 DEF check_next
  <2>2. AddConnection(FALSE, FALSE) \in MaintenanceTask /\ TaskOK(AddConnection(FALSE, FALSE))
    BY NewTasks, NewTasksOK
  <2>3. TasksKept
    BY <1>t, <2>1, <2>2, TasksRun, TasksSame
  <2> QED
    BY <1>1, <2>1, <2>3, AddEvent, JobsKept
<1>6. CASE wait(a)
  <2>1. AddConnection(FALSE, FALSE) \in MaintenanceTask /\ TaskOK(AddConnection(FALSE, FALSE))
    BY NewTasks, NewTasksOK
  <2>2. run_task(AddConnection(FALSE, FALSE)) \/ UNCHANGED tasks
    BY <1>6 DEF wait
  <2>3. TasksKept
    BY <1>t, <2>1, <2>2, TasksRun, TasksSame
  <2>4. ~(Counted /\ kind = "null")
    BY <1>6 DEF wait, Counted
  <2>5. kind' = kind /\ Counted' = Counted
    BY <1>1 DEF kind, Counted
  <2>6. \A i \in DOMAIN tasks' : TaskOK(tasks'[i])
    BY <2>3 DEF Jobs, TasksKept
  <2>7. \A i \in DOMAIN tasks' : TaskOK(tasks[i])'
    BY <2>5, <2>6 DEF TaskOK
  <2> QED
    BY <1>1, <2>4, <2>5, <2>7 DEF Jobs
<1>7. CASE wait_ends(a)
  <2>1. tasks' = tasks /\ full_event' = "none"
    BY <1>7 DEF wait_ends, taskVars
  <2> QED
    BY <1>1, <2>1, TasksSame, JobsKept DEF EventKept
<1> QED
  <2>1. close(a) \/ close_locked(a) \/ wait_timeout(a) => Close(a) \/ UNCHANGED <<tasks, full_event>>
    BY DEF close, close_locked, wait_timeout, CloseOrQueue, MoveTo, taskVars, poolVars
  <2>2. close_ends(a) => UNCHANGED <<tasks, full_event>>
    BY DEF close_ends, taskVars, poolVars
  <2> QED
    BY <1>2, <1>3, <1>4, <1>5, <1>6, <1>7, <2>1, <2>2 DEF AdminStep, Administer

\* Every step does.
LEMMA JobsStep ==
  ASSUME Steady, [Next]_vars
  PROVE  Jobs'
<1>s. AsyncTypeOK /\ Hands /\ Batches /\ Jobs /\ Unopened
  BY DEF Steady
<1>t. tasks \in Seq(MaintenanceTask) /\ sched \in [DelayedKinds -> Nat]
  BY <1>s DEF AsyncTypeOK
<1>1. CASE open
  <2>1. setup' = setup /\ UNCHANGED <<job, sched, full_event>> /\ tasks' = InitialTasks
    BY <1>1 DEF open, poolVars
  <2>2. TasksKept
    <3>1. TaskOK(AddConnection(FALSE, FALSE)) /\ TaskOK(Simple("schedule"))
      BY NewTasksOK
    <3>2. nconns \in Nat
      BY <1>1, <1>s DEF open, Unopened, AsyncTypeOK
    <3>3. AddConnection(FALSE, FALSE) \in MaintenanceTask /\ Simple("schedule") \in MaintenanceTask
      BY NewTasks
    <3>4. [i \in 1..nconns |-> AddConnection(FALSE, FALSE)] \in [1..nconns -> MaintenanceTask]
      BY <3>3
    <3>5. [i \in 1..nconns |-> AddConnection(FALSE, FALSE)] \in Seq(MaintenanceTask)
      BY <3>2, <3>4, FunctionIsSeq
    <3>6. PICK s \in Seq(MaintenanceTask) : s = [i \in 1..nconns |-> AddConnection(FALSE, FALSE)]
      BY <3>5
    <3>7. \A i \in DOMAIN s : s[i] = AddConnection(FALSE, FALSE)
      BY <3>6
    <3>8. tasks' = <<>> \/ tasks' = Append(s, Simple("schedule"))
      <4>1. s \o <<Simple("schedule")>> = Append(s, Simple("schedule"))
        BY <3>3
      <4> QED
        BY <2>1, <3>6, <4>1 DEF InitialTasks
    <3>9. \A i \in DOMAIN tasks' : tasks'[i] = AddConnection(FALSE, FALSE) \/ tasks'[i] = Simple("schedule")
      <4>1. CASE tasks' = <<>>
        BY <4>1
      <4>2. CASE tasks' = Append(s, Simple("schedule"))
        <5>1. \A i \in DOMAIN tasks' : (i \in DOMAIN s /\ tasks'[i] = s[i]) \/ tasks'[i] = Simple("schedule")
          BY <3>3, <4>2
        <5> QED
          BY <3>7, <5>1
      <4> QED
        BY <3>8, <4>1, <4>2
    <3> QED
      BY <3>1, <3>9 DEF TasksKept
  <2> QED
    BY <1>s, <2>1, <2>2, JobsKept DEF EventKept
<1>2. ASSUME NEW t \in Clients \cup Admins, cancel(t)
      PROVE  Jobs'
  <2>1. setup' = setup /\ UNCHANGED <<job, sched, tasks, full_event>>
    BY <1>2 DEF cancel, flagVars, taskVars, poolVars
  <2> QED
    BY <1>s, <2>1, TasksSame, JobsKept DEF EventKept
<1>3. ASSUME NEW k \in DelayedKinds, tick(k)
      PROVE  Jobs'
  <2>1. setup' = setup /\ UNCHANGED <<job, full_event>> /\ sched[k] > 0
    BY <1>3 DEF tick, flagVars, poolVars
  <2>2. sched'["grow"] > 0 => kind = "pool"
    <3>1. sched' = [sched EXCEPT ![k] = sched[k] - 1] /\ "grow" \in DelayedKinds
      BY <1>3 DEF tick, DelayedKinds
    <3>2. sched'["grow"] > 0 => sched["grow"] > 0
      BY <1>t, <3>1
    <3> QED
      BY <1>s, <3>2 DEF Jobs
  <2>3. TasksKept
    <3>1. Delayed(k) \in MaintenanceTask /\ TaskOK(Delayed(k))
      BY <1>3, <1>s, <2>1, DelayedTasks DEF TaskOK, Jobs
    <3>2. run_task(Delayed(k)) \/ UNCHANGED tasks
      BY <1>3 DEF tick
    <3> QED
      BY <1>t, <3>1, <3>2, TasksRun, TasksSame
  <2> QED
    BY <1>s, <2>1, <2>2, <2>3, JobsChange DEF EventKept, Jobs
<1>4. ASSUME NEW z \in setup.sizes, resize(z)
      PROVE  Jobs'
  <2>1. setup' = setup /\ UNCHANGED <<job, sched, full_event>>
    BY <1>4 DEF resize, flagVars, poolVars
  <2>2. z[1] \in Nat /\ min_size \in Nat
    BY <1>4, <1>s, AsyncConstantsAssumption DEF AsyncTypeOK
  <2>3. PICK n \in Nat : n = IF z[1] > min_size THEN z[1] - min_size ELSE 0
    BY <2>2
  <2>4. tasks' = tasks \o [i \in 1..n |-> AddConnection(FALSE, FALSE)]
    BY <1>4, <2>3 DEF resize
  <2>5. AddConnection(FALSE, FALSE) \in MaintenanceTask /\ TaskOK(AddConnection(FALSE, FALSE))
    BY NewTasks, NewTasksOK
  <2>6. TasksKept
    BY <1>t, <2>4, <2>5, TasksCopies
  <2> QED
    BY <1>s, <2>1, <2>6, JobsKept DEF EventKept
<1>5. CASE UNCHANGED vars
  <2>1. setup' = setup /\ UNCHANGED <<job, sched, tasks, full_event>>
    BY <1>5 DEF vars
  <2> QED
    BY <1>s, <2>1, TasksSame, JobsKept DEF EventKept
<1> QED
  BY <1>1, <1>2, <1>3, <1>4, <1>5, <1>s, ClientJobs, WorkerJobs, AdminJobs DEF Next

-----------------------------------------------------------------------------
(* The queue of clients                                                      *)

\* A task that does not wait moves on.
LEMMA QueueMove ==
  ASSUME NEW w \in Seq(Clients \cup {Gone}), NEW s, NEW p \in [Tasks -> Labels], QueueOK(w, s, p),
         NEW t \in Tasks, NEW l, p[t] # "waiting"
  PROVE  QueueOK(w, s, [p EXCEPT ![t] = l])
<1> DEFINE q == [p EXCEPT ![t] = l]
<1>1. \A u \in Tasks : u # t => q[u] = p[u]
  OBVIOUS
<1>2. \A i \in DOMAIN w : w[i] # Gone => w[i] \in Tasks
  BY TaskKinds
<1>3. \A c \in Clients : c \in Tasks
  BY TaskKinds
<1> HIDE DEF q
<1>4. \A i \in DOMAIN w : w[i] # Gone => p[w[i]] = "waiting" /\ w[i] # t
  BY DEF QueueOK
<1>5. \A i \in DOMAIN w : w[i] # Gone => q[w[i]] = "waiting"
  BY <1>1, <1>2, <1>4
<1>6. \A c \in Clients : s[c] \in Conns => q[c] = "waiting"
  BY <1>1, <1>3 DEF QueueOK
<1>7. QueueOK(w, s, q)
  BY <1>5, <1>6 DEF QueueOK
<1> QED
  BY <1>7 DEF q

\* The first client that still waits is served, or nobody does.
LEMMA QueueServe ==
  ASSUME AsyncTypeOK, QueueOK(waiting, slot, pc), NEW x \in Conns, Serve(x)
  PROVE  QueueOK(waiting', slot', pc)
<1>t. waiting \in Seq(Clients \cup {Gone}) /\ slot \in [Clients -> Conns \cup {NoConn, Failed}]
  BY DEF AsyncTypeOK
<1>1. CASE waiting' = <<>> /\ UNCHANGED slot
  BY <1>1 DEF QueueOK
<1>2. CASE \E i \in DOMAIN waiting :
             /\ waiting[i] # Gone /\ slot' = [slot EXCEPT ![waiting[i]] = x]
             /\ waiting' = SubSeq(waiting, i + 1, Len(waiting))
  <2>1. PICK i \in DOMAIN waiting :
             /\ waiting[i] # Gone /\ slot' = [slot EXCEPT ![waiting[i]] = x]
             /\ waiting' = SubSeq(waiting, i + 1, Len(waiting))
    BY <1>2
  <2>2. waiting[i] \in Clients /\ i \in 1..Len(waiting) /\ Len(waiting) \in Nat
    BY <1>t, <2>1
  <2>3. \A j \in DOMAIN waiting' : j + i \in DOMAIN waiting /\ waiting'[j] = waiting[j + i] /\ j \in Nat \ {0}
    BY <1>t, <2>1, <2>2
  <2>4. \A j \in DOMAIN waiting' : waiting'[j] # Gone => waiting'[j] # waiting[i]
    <3> SUFFICES ASSUME NEW j \in DOMAIN waiting', waiting'[j] # Gone, waiting'[j] = waiting[i]
                 PROVE  FALSE
      OBVIOUS
    <3>1. j + i \in DOMAIN waiting /\ waiting[j + i] = waiting[i] /\ j + i # i
      BY <2>2, <2>3
    <3> QED
      BY <2>1, <3>1 DEF QueueOK
  <2>5. ASSUME NEW j \in DOMAIN waiting', waiting'[j] # Gone
        PROVE  /\ pc[waiting'[j]] = "waiting" /\ slot'[waiting'[j]] = NoConn
               /\ \A k \in DOMAIN waiting' : waiting'[k] = waiting'[j] => k = j
    <3>1. j + i \in DOMAIN waiting /\ waiting'[j] = waiting[j + i] /\ waiting[j + i] # Gone
      BY <2>3, <2>5
    <3>2. /\ pc[waiting'[j]] = "waiting" /\ slot[waiting'[j]] = NoConn
          /\ \A k \in DOMAIN waiting : waiting[k] = waiting[j + i] => k = j + i
      BY <3>1 DEF QueueOK
    <3>3. waiting'[j] # waiting[i] /\ waiting'[j] \in Clients
      BY <1>t, <2>4, <2>5, <3>1
    <3>4. slot'[waiting'[j]] = NoConn
      BY <1>t, <2>1, <3>2, <3>3
    <3>5. ASSUME NEW k \in DOMAIN waiting', waiting'[k] = waiting'[j]
          PROVE  k = j
      <4>1. k + i = j + i
        BY <2>3, <3>1, <3>2, <3>5
      <4>2. k \in Nat /\ j \in Nat /\ i \in Nat
        BY <2>2, <2>3
      <4> QED
        BY <4>1, <4>2
    <3> QED
      BY <3>2, <3>4, <3>5
  <2>6. \A c \in Clients : slot'[c] \in Conns => pc[c] = "waiting"
    <3>1. pc[waiting[i]] = "waiting"
      BY <2>1 DEF QueueOK
    <3>2. \A c \in Clients : c # waiting[i] => slot'[c] = slot[c]
      BY <1>t, <2>1
    <3> QED
      BY <3>1, <3>2 DEF QueueOK
  <2> QED
    BY <2>5, <2>6 DEF QueueOK
<1> QED
  BY <1>1, <1>2 DEF Serve

\* A step that hands a connection over, or leaves the queue alone, of a task that does
\* not wait, then or now.
LEMMA QueueHandOver ==
  ASSUME AsyncTypeOK, AsyncTypeOK', Queue, closed' = closed, NEW t \in Tasks,
         pc[t] # "waiting", NEW l, NEW y, Goes(t, l, y),
         UNCHANGED queueVars \/ \E x \in Conns : Add(x)
  PROVE  Queue'
<1>1. CASE closed
  BY <1>1 DEF Queue
<1>2. CASE ~closed
  <2>1. QueueOK(waiting, slot, pc)
    BY <1>2 DEF Queue
  <2>2. QueueOK(waiting', slot', pc)
    <3>1. CASE UNCHANGED queueVars
      BY <2>1, <3>1 DEF queueVars
    <3>2. ASSUME NEW x \in Conns, Add(x)
          PROVE  QueueOK(waiting', slot', pc)
      BY <1>2, <2>1, <3>2, QueueServe DEF Add
    <3> QED
      BY <3>1, <3>2
  <2>3. waiting' \in Seq(Clients \cup {Gone}) /\ pc \in [Tasks -> Labels]
    BY DEF AsyncTypeOK
  <2>4. QueueOK(waiting', slot', [pc EXCEPT ![t] = l])
    BY <2>2, <2>3, QueueMove
  <2>5. pc' = [pc EXCEPT ![t] = l]
    BY DEF Goes
  <2>6. QueueOK(waiting', slot', pc')
    BY <2>4, <2>5
  <2>7. Queue'
    BY <2>6 DEF Queue, QueueOK
  <2> QED
    BY <2>7
<1> QED
  BY <1>1, <1>2 DEF AsyncTypeOK

\* Client c joins the queue.
LEMMA QueueJoin ==
  ASSUME AsyncTypeOK, QueueOK(waiting, slot, pc), NEW c \in Clients, pc[c] # "waiting"
  PROVE  QueueOK(Append(waiting, c), [slot EXCEPT ![c] = NoConn], [pc EXCEPT ![c] = "waiting"])
<1> DEFINE w == Append(waiting, c)
           s == [slot EXCEPT ![c] = NoConn]
           p == [pc EXCEPT ![c] = "waiting"]
           n == Len(waiting) + 1
<1>t. /\ waiting \in Seq(Clients \cup {Gone}) /\ slot \in [Clients -> Conns \cup {NoConn, Failed}]
      /\ pc \in [Tasks -> Labels] /\ c \in Tasks /\ Clients \subseteq Tasks
  BY TaskKinds DEF AsyncTypeOK
<1>1. /\ DOMAIN w = 1..n /\ DOMAIN waiting = 1..(n - 1) /\ w[n] = c /\ n \in Nat \ {0}
      /\ \A i \in DOMAIN waiting : w[i] = waiting[i]
  BY <1>t
<1>2. /\ s[c] = NoConn /\ p[c] = "waiting"
      /\ \A d \in Clients : d # c => s[d] = slot[d] /\ p[d] = pc[d]
  BY <1>t
<1>3. \A i \in DOMAIN waiting : waiting[i] # Gone => waiting[i] # c /\ waiting[i] \in Clients
  BY <1>t DEF QueueOK
<1>4. c # Gone
  BY AsyncTasksAssumption
<1> HIDE DEF w, s, p, n
<1>5. ASSUME NEW i \in DOMAIN w, w[i] # Gone
      PROVE  /\ p[w[i]] = "waiting" /\ s[w[i]] = NoConn
             /\ \A j \in DOMAIN w : w[j] = w[i] => j = i
  <2>1. CASE i = n
    <3>1. \A j \in DOMAIN w : j = n \/ j \in DOMAIN waiting
      BY <1>1
    <3> QED
      BY <1>1, <1>2, <1>3, <1>4, <2>1, <3>1
  <2>2. CASE i # n
    <3>1. i \in DOMAIN waiting /\ w[i] = waiting[i]
      BY <1>1, <2>2
    <3>2. w[i] # c /\ w[i] \in Clients
      BY <1>3, <1>5, <3>1
    <3>3. /\ pc[w[i]] = "waiting" /\ slot[w[i]] = NoConn
          /\ \A j \in DOMAIN waiting : waiting[j] = w[i] => j = i
      BY <1>5, <3>1 DEF QueueOK
    <3>4. \A j \in DOMAIN w : w[j] = w[i] => j \in DOMAIN waiting /\ waiting[j] = w[i]
      BY <1>1, <3>2
    <3> QED
      BY <1>2, <3>2, <3>3, <3>4
  <2> QED
    BY <2>1, <2>2
<1>6. \A d \in Clients : s[d] \in Conns => p[d] = "waiting"
  BY <1>2 DEF QueueOK
<1>7. QueueOK(w, s, p)
  BY <1>5, <1>6 DEF QueueOK
<1> QED
  BY <1>7 DEF w, s, p

\* Client c leaves the queue, having been given nothing.
LEMMA QueueLeave ==
  ASSUME AsyncTypeOK, QueueOK(waiting, slot, pc), NEW c \in Clients, slot[c] = NoConn, NEW l
  PROVE  QueueOK(LeaveQueue(c), slot, [pc EXCEPT ![c] = l])
<1> DEFINE w == LeaveQueue(c)
           p == [pc EXCEPT ![c] = l]
<1>t. /\ waiting \in Seq(Clients \cup {Gone}) /\ slot \in [Clients -> Conns \cup {NoConn, Failed}]
      /\ pc \in [Tasks -> Labels] /\ c \in Tasks /\ Clients \subseteq Tasks
  BY TaskKinds DEF AsyncTypeOK
<1>1. /\ DOMAIN w = DOMAIN waiting
      /\ \A i \in DOMAIN waiting : w[i] # Gone => w[i] = waiting[i] /\ w[i] # c /\ w[i] \in Clients
  BY <1>t DEF LeaveQueue
<1>2. \A d \in Clients : d # c => p[d] = pc[d]
  BY <1>t
<1>c. c # Gone
  BY AsyncTasksAssumption
<1> HIDE DEF w, p
<1>3. ASSUME NEW i \in DOMAIN w, w[i] # Gone
      PROVE  /\ p[w[i]] = "waiting" /\ slot[w[i]] = NoConn
             /\ \A j \in DOMAIN w : w[j] = w[i] => j = i
  <2>1. i \in DOMAIN waiting /\ w[i] = waiting[i] /\ w[i] # c /\ w[i] \in Clients /\ waiting[i] # Gone
    BY <1>1, <1>3
  <2>2. /\ pc[w[i]] = "waiting" /\ slot[w[i]] = NoConn
        /\ \A j \in DOMAIN waiting : waiting[j] = w[i] => j = i
    BY <2>1 DEF QueueOK
  <2>3. \A j \in DOMAIN w : w[j] = w[i] => j \in DOMAIN waiting /\ waiting[j] = w[i]
    BY <1>1, <1>3
  <2> QED
    BY <1>2, <2>1, <2>2, <2>3
<1>4. \A d \in Clients : slot[d] \in Conns => p[d] = "waiting"
  <2>1. slot[c] \notin Conns
    BY TaskKinds
  <2> QED
    BY <1>2, <2>1 DEF QueueOK
<1>5. QueueOK(w, slot, p)
  BY <1>3, <1>4 DEF QueueOK
<1> QED
  BY <1>5 DEF w, p

\* Client c takes what was put in its slot.
LEMMA QueueReturn ==
  ASSUME AsyncTypeOK, QueueOK(waiting, slot, pc), NEW c \in Clients, slot[c] # NoConn, NEW l
  PROVE  QueueOK(waiting, [slot EXCEPT ![c] = NoConn], [pc EXCEPT ![c] = l])
<1> DEFINE s == [slot EXCEPT ![c] = NoConn]
           p == [pc EXCEPT ![c] = l]
<1>t. /\ waiting \in Seq(Clients \cup {Gone}) /\ slot \in [Clients -> Conns \cup {NoConn, Failed}]
      /\ pc \in [Tasks -> Labels] /\ c \in Tasks /\ Clients \subseteq Tasks
  BY TaskKinds DEF AsyncTypeOK
<1>1. s[c] = NoConn /\ \A d \in Clients : d # c => s[d] = slot[d] /\ p[d] = pc[d]
  BY <1>t
<1>2. \A i \in DOMAIN waiting : waiting[i] # Gone => waiting[i] # c /\ waiting[i] \in Clients
  BY <1>t DEF QueueOK
<1> HIDE DEF s, p
<1>3. ASSUME NEW i \in DOMAIN waiting, waiting[i] # Gone
      PROVE  /\ p[waiting[i]] = "waiting" /\ s[waiting[i]] = NoConn
             /\ \A j \in DOMAIN waiting : waiting[j] = waiting[i] => j = i
  BY <1>1, <1>2, <1>3 DEF QueueOK
<1>4. \A d \in Clients : s[d] \in Conns => p[d] = "waiting"
  <2>1. s[c] \notin Conns
    BY <1>1, TaskKinds
  <2> QED
    BY <1>1, <2>1 DEF QueueOK
<1>5. QueueOK(waiting, s, p)
  BY <1>3, <1>4 DEF QueueOK
<1> QED
  BY <1>5 DEF s, p

\* Every step of a client keeps the queue.
LEMMA ClientQueue ==
  ASSUME Steady, AsyncTypeOK', NEW c \in Clients, ClientStep(c)
  PROVE  Queue'
<1>s. AsyncTypeOK /\ Hands /\ Queue
  BY DEF Steady
<1>t. c \in Tasks /\ pc \in [Tasks -> Labels] /\ cur \in [Tasks -> Conns \cup {NoConn}]
  BY <1>s, TaskKinds DEF AsyncTypeOK
<1>c. closed' = closed
  BY DEF ClientStep, Request, getconn, getconn_locked, null_connected, null_connect_fails,
     wait_returns, wait_times_out, check_passes, check_fails, backoff_gives_up, backoff_retries,
     putconn, putconn_locked, reset_ends, add_locked, Acquire, MoveTo, flagVars
<1>z. closed \/ QueueOK(waiting, slot, pc)
  BY <1>s DEF Queue
<1>y. closed \/ QueueOK(waiting', slot', pc') => Queue'
  BY <1>c DEF Queue, QueueOK
<1>h. ASSUME pc[c] # "waiting", UNCHANGED queueVars \/ \E y \in Conns : Add(y)
      PROVE  Queue'
  <2>1. PICK l, x : Goes(c, l, x)
    BY <1>s, ClientTypes
  <2> QED
    BY <1>c, <1>h, <1>s, <1>t, <2>1, QueueHandOver
<1>1. ASSUME Acquire(c), pc[c] # "waiting"
      PROVE  Queue'
  <2>1. CASE Enqueue(c)
    <3>1. /\ waiting' = Append(waiting, c) /\ slot' = [slot EXCEPT ![c] = NoConn]
          /\ pc' = [pc EXCEPT ![c] = "waiting"]
      BY <2>1 DEF Enqueue, Goto
    <3>2. QueueOK(waiting, slot, pc) => QueueOK(waiting', slot', pc')
      BY <1>1, <1>s, <3>1, QueueJoin
    <3> QED
      BY <1>y, <1>z, <3>2
  <2>2. CASE UNCHANGED queueVars
    BY <1>1, <1>h, <2>2
  <2> QED
    BY <1>1, <2>1, <2>2 DEF Acquire, PopIdle
<1>2. CASE At(c, "idle") \/ At(c, "getconn") \/ At(c, "sleeping")
  <2>1. pc[c] # "waiting"
    BY <1>2 DEF At
  <2>2. Acquire(c) \/ UNCHANGED queueVars
    BY <1>2 DEF ClientStep, Request, getconn, getconn_locked, null_connected,
       null_connect_fails, wait_returns, wait_times_out, check_passes, check_fails,
       backoff_gives_up, backoff_retries, putconn, putconn_locked, reset_ends, add_locked, At, MoveTo
  <2> QED
    BY <1>1, <1>h, <2>1, <2>2
<1>3. CASE null_connected(c) \/ null_connect_fails(c) \/ check_passes(c)
  <2>1. pc[c] # "waiting" /\ UNCHANGED queueVars
    BY <1>3 DEF null_connected, null_connect_fails, check_passes, At
  <2> QED
    BY <1>h, <2>1
<1>4. CASE wait_returns(c)
  <2>1. /\ slot[c] # NoConn /\ slot' = [slot EXCEPT ![c] = NoConn] /\ waiting' = waiting
        /\ pc' = [pc EXCEPT ![c] = IF slot[c] = Failed THEN "idle" ELSE Checked]
    BY <1>4 DEF wait_returns, Goto
  <2>2. QueueOK(waiting, slot, pc) => QueueOK(waiting', slot', pc')
    BY <1>s, <2>1, QueueReturn
  <2> QED
    BY <1>y, <1>z, <2>2
<1>5. CASE wait_times_out(c)
  <2>1. /\ slot[c] = NoConn /\ slot' = slot /\ waiting' = LeaveQueue(c)
        /\ pc' = [pc EXCEPT ![c] = "idle"]
    BY <1>5 DEF wait_times_out, Goto
  <2>2. QueueOK(waiting, slot, pc) => QueueOK(waiting', slot', pc')
    BY <1>s, <2>1, QueueLeave
  <2> QED
    BY <1>y, <1>z, <2>2
<1>6. CASE check_fails(c) \/ putconn(c) \/ putconn_locked(c) \/ reset_ends(c) \/ add_locked(c)
  <2>1. pc[c] # "waiting" /\ cur[c] \in Conns
    BY <1>6, <1>s, <1>t DEF check_fails, putconn, putconn_locked, reset_ends, add_locked, At, Hands,
       Holding
  <2>2. Add(cur[c]) \/ UNCHANGED queueVars
    BY <1>6 DEF check_fails, putconn, putconn_locked, reset_ends, add_locked, Put, PutOrClose,
       Settle, AddOrQueue
  <2> QED
    BY <1>h, <2>1, <2>2
<1> QED
  BY <1>2, <1>3, <1>4, <1>5, <1>6
     DEF ClientStep, Request, getconn, getconn_locked, backoff_gives_up, backoff_retries

\* And of a worker.
LEMMA WorkerQueue ==
  ASSUME Steady, AsyncTypeOK', NEW w \in Workers, WorkerStep(w)
  PROVE  Queue'
<1>s. AsyncTypeOK /\ Hands /\ Queue /\ Jobs
  BY DEF Steady
<1>t. w \in Tasks /\ cur \in [Tasks -> Conns \cup {NoConn}]
  BY <1>s, TaskKinds DEF AsyncTypeOK
<1>c. closed' = closed
  BY DEF WorkerStep, Work, worker, _add_connection, reset_ends, add_locked, give_up_locked,
     _connect_fails, flagVars
<1>p. pc[w] # "waiting"
  BY <1>s DEF Hands, WorkerPlaces
<1>1. PICK l, x : Goes(w, l, x)
  BY <1>s, WorkerTypes
<1>2. UNCHANGED queueVars \/ \E y \in Conns : Add(y)
  <2>1. CASE worker(w) \/ _connect_fails(w) \/ give_up_locked(w)
    BY <2>1 DEF worker, _connect_fails, give_up_locked
  <2>2. CASE _add_connection(w)
    BY <2>2 DEF _add_connection, AddOrQueue
  <2>3. CASE reset_ends(w) \/ add_locked(w)
    <3>1. cur[w] \in Conns
      BY <1>s, <1>t, <2>3 DEF reset_ends, add_locked, At, Hands, Holding
    <3>2. Add(cur[w]) \/ UNCHANGED queueVars
      BY <2>3 DEF reset_ends, add_locked, Settle, AddOrQueue
    <3> QED
      BY <3>1, <3>2
  <2> QED
    BY <2>1, <2>2, <2>3 DEF WorkerStep, Work
<1> QED
  BY <1>1, <1>2, <1>c, <1>p, <1>s, <1>t, QueueHandOver

\* And of an administrator.
LEMMA AdminQueue ==
  ASSUME Steady, AsyncTypeOK', NEW a \in Admins, AdminStep(a)
  PROVE  Queue'
<1>s. AsyncTypeOK /\ Hands /\ Queue /\ Batches
  BY DEF Steady
<1>t. a \in Tasks /\ batch \in [Admins -> Seq(Conns)]
  BY <1>s, TaskKinds DEF AsyncTypeOK
<1>p. pc[a] # "waiting"
  BY <1>s DEF Hands, AdminPlaces
<1>1. PICK l, x : Goes(a, l, x)
  BY <1>s, AdminTypes
<1>2. CASE closed'
  BY <1>2 DEF Queue
<1>3. CASE closed' = closed /\ (UNCHANGED queueVars \/ \E y \in Conns : Add(y))
  BY <1>1, <1>3, <1>p, <1>s, <1>t, QueueHandOver
<1>4. close(a) \/ close_locked(a) \/ wait_timeout(a) => closed' \/ (closed' = closed /\ UNCHANGED queueVars)
  BY DEF close, close_locked, wait_timeout, CloseOrQueue, Close, MoveTo, flagVars
<1>5. close_ends(a) => closed'
  BY <1>s DEF close_ends, flagVars, Batches, At
<1>6. check(a) \/ wait(a) \/ wait_ends(a) => closed' = closed /\ UNCHANGED queueVars
  BY DEF check, wait, wait_ends, flagVars
<1>7. check_next(a) => closed' = closed /\ (UNCHANGED queueVars \/ \E y \in Conns : Add(y))
  <2>1. SUFFICES ASSUME check_next(a)
                 PROVE  closed' = closed /\ (UNCHANGED queueVars \/ \E y \in Conns : Add(y))
    OBVIOUS
  <2>2. batch[a] \in Seq(Conns) /\ batch[a] # <<>>
    BY <1>s, <1>t, <2>1 DEF check_next, At, Batches
  <2>3. batch[a][Len(batch[a])] \in Conns
    BY <2>2
  <2> QED
    BY <2>1, <2>3 DEF check_next, flagVars
<1> QED
  BY <1>2, <1>3, <1>4, <1>5, <1>6, <1>7 DEF AdminStep, Administer

\* Every step does.
LEMMA QueueStep ==
  ASSUME Steady, AsyncTypeOK', [Next]_vars
  PROVE  Queue'
<1>s. AsyncTypeOK /\ Hands /\ Queue /\ Batches /\ Unopened
  BY DEF Steady
<1>1. CASE open
  <2>1. waiting' = <<>> /\ slot' = [c \in Clients |-> NoConn]
    BY <1>1, <1>s DEF open, Unopened, queueVars
  <2>2. \A c \in Clients : slot'[c] \notin Conns
    BY <2>1, TaskKinds
  <2> QED
    BY <2>1, <2>2 DEF Queue, QueueOK
<1>2. ASSUME NEW t \in Clients \cup Admins, cancel(t)
      PROVE  Queue'
  <2>1. /\ closed' = closed /\ slot' = slot
        /\ pc' = [pc EXCEPT ![t] = IF t \in Clients THEN "idle" ELSE "done"]
    BY <1>2 DEF cancel, Goto, flagVars
  <2>2. closed \/ QueueOK(waiting, slot, pc)
    BY <1>s DEF Queue
  <2>3. closed \/ QueueOK(waiting', slot', pc') => Queue'
    BY <2>1 DEF Queue, QueueOK
  <2>4. CASE pc[t] = "waiting"
    <3>1. t \in Clients /\ slot[t] = NoConn /\ waiting' = LeaveQueue(t)
      <4>1. \A a \in Admins : pc[a] # "waiting"
        BY <1>s DEF Hands, AdminPlaces
      <4> QED
        BY <1>2, <2>4, <4>1 DEF cancel, At
    <3>2. QueueOK(waiting, slot, pc) => QueueOK(waiting', slot', pc')
      BY <1>s, <2>1, <3>1, QueueLeave
    <3> QED
      BY <2>2, <2>3, <3>2
  <2>5. CASE pc[t] # "waiting"
    <3>1. waiting' = waiting
      BY <1>2, <2>5 DEF cancel, At
    <3>2. waiting \in Seq(Clients \cup {Gone}) /\ pc \in [Tasks -> Labels] /\ t \in Tasks
      BY <1>s, TaskKinds DEF AsyncTypeOK
    <3>3. QueueOK(waiting, slot, pc) => QueueOK(waiting', slot', pc')
      BY <2>1, <2>5, <3>1, <3>2, QueueMove
    <3> QED
      BY <2>2, <2>3, <3>3
  <2> QED
    BY <2>4, <2>5
<1>3. CASE \/ \E k \in DelayedKinds : tick(k)
           \/ \E z \in setup.sizes : resize(z)
           \/ UNCHANGED vars
  <2>1. UNCHANGED <<closed, waiting, slot, pc>>
    BY <1>3 DEF tick, resize, vars, flagVars, queueVars
  <2> QED
    BY <1>s, <2>1 DEF Queue, QueueOK
<1> QED
  BY <1>1, <1>2, <1>3, ClientQueue, WorkerQueue, AdminQueue DEF Next

-----------------------------------------------------------------------------
(* The invariant                                                             *)

\* It holds at first.
LEMMA SteadyInit ==
  ASSUME Init
  PROVE  Steady
<1>a. /\ \A x \in Setups : x.min \in Nat /\ x.max \in Nat /\ (x.kind = "null" => x.min = 0)
      /\ \A c \in Clients : c \notin Workers
      /\ \A a \in Admins : a \notin Workers /\ a \notin Clients
  BY AsyncConstantsAssumption, AsyncTasksAssumption
<1>1. AsyncTypeOK
  <2>1. pc \in [Tasks -> Labels]
    BY DEF Init, Labels
  <2>2. job \in [Workers -> [growing: BOOLEAN, retry: BOOLEAN]]
    BY DEF Init, NoJob, Job
  <2>3. min_size \in Nat /\ max_size \in Nat
    BY <1>a DEF Init
  <2>4. /\ slot \in [Clients -> Conns \cup {NoConn, Failed}] /\ cur \in [Tasks -> Conns \cup {NoConn}]
        /\ sched \in [DelayedKinds -> Nat] /\ fromget \in [Clients -> BOOLEAN]
    BY DEF Init
  <2>5. /\ batch \in [Admins -> Seq(Conns)] /\ doomed \in [Admins -> Seq(Clients \cup {Gone})]
        /\ pool \in Seq(Conns) /\ waiting \in Seq(Clients \cup {Gone}) /\ tasks \in Seq(MaintenanceTask)
    BY DEF Init
  <2>7. status \in [Conns -> {"UNKNOWN", "IDLE", "INTRANS", "ACTIVE"}]
    BY DEF Init
  <2>8. nconns = min_size /\ nconns_min = min_size /\ growing = FALSE
    BY DEF Init
  <2>6. /\ setup \in Setups /\ closed \in BOOLEAN /\ opened \in BOOLEAN
        /\ full_event \in {"none", "unset", "set"}
        /\ nconns \in Int /\ nconns_min \in Nat /\ growing \in BOOLEAN
    <3>1. setup \in Setups /\ closed = TRUE /\ opened = FALSE /\ full_event = "none"
      BY DEF Init
    <3>2. min_size \in Int
      BY <2>3
    <3> QED
      BY <2>3, <2>8, <3>1, <3>2
  <2> QED
    BY <2>1, <2>2, <2>3, <2>4, <2>5, <2>6, <2>7 DEF AsyncTypeOK
<1>2. /\ \A w \in Workers : pc[w] = "off"
      /\ \A c \in Clients : pc[c] = "idle"
      /\ \A a \in Admins : pc[a] = "start"
  BY <1>a, TaskKinds DEF Init
<1>3. Hands
  <2>1. \A t \in Tasks : cur[t] \notin Conns /\ pc[t] \notin Holding
    BY TaskKinds DEF Init, Holding
  <2> QED
    BY <1>2, <2>1 DEF Hands, ClientPlaces, WorkerPlaces, AdminPlaces
<1>4. Batches
  BY <1>2 DEF Init, Batches
<1>5. Jobs
  BY DEF Init, Jobs, NoJob, Job, DelayedKinds
<1>6. Unopened
  BY <1>2, <1>a DEF Init, Unopened, kind
<1>7. Queue
  BY DEF Init, Queue
<1> QED
  BY <1>1, <1>3, <1>4, <1>5, <1>6, <1>7 DEF Steady

\* Every step keeps it.
LEMMA SteadyStep ==
  ASSUME Steady, [Next]_vars
  PROVE  Steady'
<1>s. AsyncTypeOK /\ Hands /\ Queue /\ Batches /\ Unopened /\ Jobs
  BY DEF Steady
<1>1. AsyncTypeOK' /\ Hands'
  BY <1>s, ClientTypes, WorkerTypes, AdminTypes, OtherTypes, CancelTypes DEF Next
<1> QED
  BY <1>1, BatchesStep, JobsStep, UnopenedStep, QueueStep DEF Steady

\* Every variable keeps its type, whoever is cancelled, wherever it is suspended.
THEOREM AsyncTypeOKCorrect == Spec => []AsyncTypeOK
<1>1. Init => Steady
  BY SteadyInit
<1>2. Steady /\ [Next]_vars => Steady'
  BY SteadyStep
<1>3. Steady => AsyncTypeOK
  BY DEF Steady
<1> QED
  BY <1>1, <1>2, <1>3, PTL DEF Spec

-----------------------------------------------------------------------------
(* What _nconns counts                                                       *)

Holders    == {t \in Tasks : cur[t] # NoConn}
Connecting == {w \in Workers : pc[w] \in {"connecting", "giveup"}}
Given      == {c \in Clients : slot[c] \in Conns}
Batched    == [a \in Admins |-> Len(batch[a])]
Pending    == {k \in MaintenanceTask : k.kind \in {"add", "return"}}
Later      == sched["add"] + sched["grow"]

\* In the hands of the tasks of the loop, and on hand for any of them.
InHands == Cardinality(Holders) + Cardinality(Connecting)
OnHand  == Len(pool) + Cardinality(Given) + NQueued(tasks, Pending) + Later
           + Cardinality(Pairs(Batched))

AllFinite == IsFiniteSet(Holders) /\ IsFiniteSet(Given) /\ IsFiniteSet(Pairs(Batched))

\* While it counts, the pool counts right, and finitely many.
Counting == opened /\ ~closed /\ Counted
CountInv == Counting => AllFinite /\ nconns = OnHand + InHands

\* What task t has in hand when it is at l with x in its local variable.
Holds(x)       == IF x # NoConn THEN 1 ELSE 0
Connects(t, l) == IF t \in Workers /\ l \in {"connecting", "giveup"} THEN 1 ELSE 0
Part(t, l, x)  == Holds(x) + Connects(t, l)

\* The parts are numbers.
LEMMA PartType ==
  ASSUME NEW t, NEW l, NEW x
  PROVE  Part(t, l, x) \in Int /\ Holds(x) \in {0, 1} /\ Connects(t, l) \in {0, 1}
BY DEF Part, Holds, Connects

\* When a task goes on, what is in hand changes by its part.
LEMMA InHandsGoes ==
  ASSUME AsyncTypeOK, IsFiniteSet(Holders), NEW t \in Tasks, NEW l, NEW x, Goes(t, l, x)
  PROVE  /\ IsFiniteSet(Holders)' /\ InHands \in Int /\ InHands' \in Int
         /\ InHands' = InHands + Part(t, l, x) - Part(t, pc[t], cur[t])
<1>t. /\ pc \in [Tasks -> Labels] /\ cur \in [Tasks -> Conns \cup {NoConn}]
      /\ pc' = [pc EXCEPT ![t] = l] /\ cur' = [cur EXCEPT ![t] = x]
  BY DEF AsyncTypeOK, Goes
<1>k. /\ pc'[t] = l /\ cur'[t] = x
      /\ \A u \in Tasks : u # t => pc'[u] = pc[u] /\ cur'[u] = cur[u]
  BY <1>t
<1>1. /\ IsFiniteSet(Holders)' /\ Cardinality(Holders) \in Int /\ Cardinality(Holders)' \in Int
      /\ Cardinality(Holders)' = Cardinality(Holders) + Holds(x) - Holds(cur[t])
  <2> DEFINE S == Holders
             U == Holders'
  <2>1. \A u : u # t => (u \in U <=> u \in S)
    BY <1>k DEF Holders
  <2>2. (t \in S <=> Holds(cur[t]) = 1) /\ (t \in U <=> Holds(x) = 1)
    BY <1>k DEF Holders, Holds
  <2>3. Holds(cur[t]) \in {0, 1} /\ Holds(x) \in {0, 1}
    BY PartType
  <2> HIDE DEF S, U
  <2>4. IsFiniteSet(S)
    BY DEF S
  <2>5. /\ IsFiniteSet(U) /\ Cardinality(S) \in Nat /\ Cardinality(U) \in Nat
        /\ t \in U /\ t \notin S => Cardinality(U) = Cardinality(S) + 1
        /\ t \notin U /\ t \in S => Cardinality(U) = Cardinality(S) - 1
        /\ (t \in U <=> t \in S) => Cardinality(U) = Cardinality(S)
    BY <2>1, <2>4, OneChange
  <2>6. Cardinality(U) = Cardinality(S) + Holds(x) - Holds(cur[t])
    BY <2>2, <2>3, <2>5
  <2> QED
    BY <2>5, <2>6 DEF S, U
<1>2. /\ Cardinality(Connecting) \in Int /\ Cardinality(Connecting)' \in Int
      /\ Cardinality(Connecting)' = Cardinality(Connecting) + Connects(t, l) - Connects(t, pc[t])
  <2> DEFINE S == Connecting
             U == Connecting'
  <2>1. \A u : u # t => (u \in U <=> u \in S)
    BY <1>k, TaskKinds DEF Connecting
  <2>2. (t \in S <=> Connects(t, pc[t]) = 1) /\ (t \in U <=> Connects(t, l) = 1)
    BY <1>k DEF Connecting, Connects
  <2>3. Connects(t, pc[t]) \in {0, 1} /\ Connects(t, l) \in {0, 1}
    BY PartType
  <2>4. IsFiniteSet(S)
    BY FS_Subset, AsyncTasksAssumption DEF Connecting
  <2> HIDE DEF S, U
  <2>5. /\ Cardinality(S) \in Nat /\ Cardinality(U) \in Nat
        /\ t \in U /\ t \notin S => Cardinality(U) = Cardinality(S) + 1
        /\ t \notin U /\ t \in S => Cardinality(U) = Cardinality(S) - 1
        /\ (t \in U <=> t \in S) => Cardinality(U) = Cardinality(S)
    BY <2>1, <2>4, OneChange
  <2>6. Cardinality(U) = Cardinality(S) + Connects(t, l) - Connects(t, pc[t])
    BY <2>2, <2>3, <2>5
  <2> QED
    BY <2>5, <2>6 DEF S, U
<1>3. /\ Holds(x) \in Int /\ Holds(cur[t]) \in Int
      /\ Connects(t, l) \in Int /\ Connects(t, pc[t]) \in Int
  BY DEF Holds, Connects
<1>4. InHands \in Int /\ InHands' \in Int
  BY <1>1, <1>2 DEF InHands
<1>5. InHands' = InHands + Part(t, l, x) - Part(t, pc[t], cur[t])
  BY <1>1, <1>2, <1>3 DEF InHands, Part
<1> QED
  BY <1>1, <1>4, <1>5

\* When none goes on, it does not change.
LEMMA InHandsKept ==
  ASSUME IsFiniteSet(Holders), UNCHANGED <<pc, cur>>
  PROVE  /\ IsFiniteSet(Holders)' /\ InHands \in Int /\ InHands' = InHands
<1>1. Holders' = Holders /\ Connecting' = Connecting
  BY DEF Holders, Connecting
<1>2. IsFiniteSet(Connecting)
  BY FS_Subset, AsyncTasksAssumption DEF Connecting
<1>3. Cardinality(Holders) \in Nat /\ Cardinality(Connecting) \in Nat
  BY <1>2, FS_CardinalityType
<1> QED
  BY <1>1, <1>3 DEF InHands

\* The terms of OnHand are numbers.
LEMMA OnHandType ==
  ASSUME AsyncTypeOK, IsFiniteSet(Given), IsFiniteSet(Pairs(Batched))
  PROVE  /\ OnHand \in Int /\ Len(pool) \in Nat /\ Cardinality(Given) \in Nat
         /\ NQueued(tasks, Pending) \in Nat /\ Later \in Nat /\ Cardinality(Pairs(Batched)) \in Nat
<1>1. Len(pool) \in Nat /\ Later \in Nat
  BY DEF AsyncTypeOK, DelayedKinds, Later
<1>2. Cardinality(Given) \in Nat /\ Cardinality(Pairs(Batched)) \in Nat
  BY FS_CardinalityType
<1>3. NQueued(tasks, Pending) \in Nat
  BY QueuedFinite DEF AsyncTypeOK
<1> QED
  BY <1>1, <1>2, <1>3 DEF OnHand

\* a more in the pool, g given, q tasks queued, d delayed, b in batches.
Counts(a, g, q, d, b) ==
  /\ Len(pool)' = Len(pool) + a
  /\ IsFiniteSet(Given)' /\ Cardinality(Given)' = Cardinality(Given) + g
  /\ NQueued(tasks, Pending)' = NQueued(tasks, Pending) + q
  /\ Later' = Later + d
  /\ IsFiniteSet(Pairs(Batched))'
  /\ Cardinality(Pairs(Batched))' = Cardinality(Pairs(Batched)) + b

\* The terms first, then what changes.
LEMMA Regroup ==
  ASSUME NEW l \in Int, NEW v \in Int, NEW n \in Int, NEW s \in Int, NEW p \in Int,
         NEW a \in Int, NEW g \in Int, NEW q \in Int, NEW d \in Int, NEW b \in Int
  PROVE  (l + a) + (v + g) + (n + q) + (s + d) + (p + b)
         = (l + v + n + s + p) + (a + g + q + d + b)
OBVIOUS

\* What is on hand changes by the sum.
LEMMA OnHandCounts ==
  ASSUME AsyncTypeOK, IsFiniteSet(Given), IsFiniteSet(Pairs(Batched)),
         NEW a \in Int, NEW g \in Int, NEW q \in Int, NEW d \in Int, NEW b \in Int,
         Counts(a, g, q, d, b)
  PROVE  /\ OnHand \in Int /\ OnHand' = OnHand + (a + g + q + d + b)
         /\ IsFiniteSet(Given)' /\ IsFiniteSet(Pairs(Batched))'
<1>1. /\ OnHand \in Int /\ Len(pool) \in Int /\ Cardinality(Given) \in Int
      /\ NQueued(tasks, Pending) \in Int /\ Later \in Int /\ Cardinality(Pairs(Batched)) \in Int
  BY OnHandType
<1>2. OnHand' = (Len(pool) + a) + (Cardinality(Given) + g) + (NQueued(tasks, Pending) + q)
                + (Later + d) + (Cardinality(Pairs(Batched)) + b)
  BY DEF OnHand, Counts
<1>3. PICK l \in Int, v \in Int, n \in Int, s \in Int, p \in Int :
        /\ l = Len(pool) /\ v = Cardinality(Given) /\ n = NQueued(tasks, Pending)
        /\ s = Later /\ p = Cardinality(Pairs(Batched))
  BY <1>1
<1>4. OnHand' = (l + a) + (v + g) + (n + q) + (s + d) + (p + b)
  BY <1>2, <1>3
<1>5. OnHand = l + v + n + s + p
  BY <1>3 DEF OnHand
<1>6. OnHand' = (l + v + n + s + p) + (a + g + q + d + b)
  BY <1>4, Regroup
<1> QED
  BY <1>1, <1>5, <1>6 DEF Counts

\* A step of task t that counts what it moves keeps the count.
LEMMA GoesKeepsCount ==
  ASSUME AsyncTypeOK, AllFinite, nconns = OnHand + InHands,
         NEW t \in Tasks, NEW l, NEW x, Goes(t, l, x),
         NEW a \in Int, NEW g \in Int, NEW q \in Int, NEW d \in Int, NEW b \in Int,
         Counts(a, g, q, d, b),
         nconns' = nconns + (a + g + q + d + b) + Part(t, l, x) - Part(t, pc[t], cur[t])
  PROVE  AllFinite' /\ nconns' = OnHand' + InHands'
<1>1. /\ IsFiniteSet(Holders)' /\ InHands \in Int /\ InHands' \in Int
      /\ InHands' = InHands + Part(t, l, x) - Part(t, pc[t], cur[t])
  BY InHandsGoes DEF AllFinite
<1>2. /\ OnHand \in Int /\ OnHand' = OnHand + (a + g + q + d + b)
      /\ IsFiniteSet(Given)' /\ IsFiniteSet(Pairs(Batched))'
  BY OnHandCounts DEF AllFinite
<1>3. PICK m \in Int : m = a + g + q + d + b
  OBVIOUS
<1>4. Part(t, l, x) \in Int /\ Part(t, pc[t], cur[t]) \in Int
  BY PartType
<1>5. nconns' = nconns + m + Part(t, l, x) - Part(t, pc[t], cur[t]) /\ OnHand' = OnHand + m
  BY <1>2, <1>3
<1>6. nconns' = OnHand' + InHands'
  BY <1>1, <1>2, <1>3, <1>4, <1>5
<1> QED
  BY <1>1, <1>2, <1>6 DEF AllFinite

\* So does one in which no task goes on.
LEMMA StaysKeepsCount ==
  ASSUME AsyncTypeOK, AllFinite, nconns = OnHand + InHands, UNCHANGED <<pc, cur>>,
         NEW a \in Int, NEW g \in Int, NEW q \in Int, NEW d \in Int, NEW b \in Int,
         Counts(a, g, q, d, b), nconns' = nconns + (a + g + q + d + b)
  PROVE  AllFinite' /\ nconns' = OnHand' + InHands'
<1>1. IsFiniteSet(Holders)' /\ InHands \in Int /\ InHands' = InHands
  BY InHandsKept DEF AllFinite
<1>2. /\ OnHand \in Int /\ OnHand' = OnHand + (a + g + q + d + b)
      /\ IsFiniteSet(Given)' /\ IsFiniteSet(Pairs(Batched))'
  BY OnHandCounts DEF AllFinite
<1>3. PICK m \in Int : m = a + g + q + d + b
  OBVIOUS
<1>4. nconns' = nconns + m /\ OnHand' = OnHand + m
  BY <1>2, <1>3
<1>5. nconns' = OnHand' + InHands'
  BY <1>1, <1>2, <1>3, <1>4
<1> QED
  BY <1>1, <1>2, <1>5 DEF AllFinite

\* What a step leaves alone counts as before.
LEMMA KeptCounts ==
  ASSUME AsyncTypeOK, IsFiniteSet(Given), IsFiniteSet(Pairs(Batched))
  PROVE  /\ UNCHANGED pool => Len(pool)' = Len(pool) + 0
         /\ UNCHANGED slot => /\ IsFiniteSet(Given)'
                              /\ Cardinality(Given)' = Cardinality(Given) + 0
         /\ UNCHANGED tasks => NQueued(tasks, Pending)' = NQueued(tasks, Pending) + 0
         /\ UNCHANGED sched => Later' = Later + 0
         /\ UNCHANGED batch =>
              /\ IsFiniteSet(Pairs(Batched))'
              /\ Cardinality(Pairs(Batched))' = Cardinality(Pairs(Batched)) + 0
<1>1. /\ Len(pool) \in Nat /\ NQueued(tasks, Pending) \in Nat /\ Later \in Nat
      /\ Cardinality(Given) \in Nat /\ Cardinality(Pairs(Batched)) \in Nat
  BY OnHandType
<1>2. UNCHANGED tasks => NQueued(tasks, Pending)' = NQueued(tasks, Pending)
  BY DEF NQueued
<1>3. UNCHANGED sched => Later' = Later
  BY DEF Later
<1>4. UNCHANGED slot => Given' = Given
  BY DEF Given
<1>5. UNCHANGED batch => Pairs(Batched)' = Pairs(Batched)
  BY DEF Pairs, Batched
<1> QED
  BY <1>1, <1>2, <1>3, <1>4, <1>5

\* A client is given a connection.
LEMMA GivenMore ==
  ASSUME AsyncTypeOK, IsFiniteSet(Given), NEW c \in Clients, NEW x \in Conns,
         slot[c] \notin Conns, slot' = [slot EXCEPT ![c] = x]
  PROVE  IsFiniteSet(Given)' /\ Cardinality(Given)' = Cardinality(Given) + 1
<1>1. slot'[c] = x /\ \A e \in Clients : e # c => slot'[e] = slot[e]
  BY DEF AsyncTypeOK
<1> DEFINE S == Given
           U == Given'
<1>2. /\ \A e : e # c => (e \in U <=> e \in S)
      /\ c \notin S /\ c \in U /\ IsFiniteSet(S)
  BY <1>1 DEF Given
<1> HIDE DEF S, U
<1>3. IsFiniteSet(U) /\ Cardinality(U) = Cardinality(S) + 1
  BY <1>2, OneChange
<1> QED
  BY <1>3 DEF S, U

\* The slot of a client is emptied.
LEMMA GivenLess ==
  ASSUME AsyncTypeOK, IsFiniteSet(Given), NEW c \in Clients, slot' = [slot EXCEPT ![c] = NoConn]
  PROVE  /\ IsFiniteSet(Given)'
         /\ slot[c] \in Conns => Cardinality(Given)' = Cardinality(Given) + (-1)
         /\ slot[c] \notin Conns => Cardinality(Given)' = Cardinality(Given) + 0
<1>1. slot'[c] = NoConn /\ \A e \in Clients : e # c => slot'[e] = slot[e]
  BY DEF AsyncTypeOK
<1> DEFINE S == Given
           U == Given'
<1>2. /\ \A e : e # c => (e \in U <=> e \in S)
      /\ c \notin U /\ IsFiniteSet(S) /\ (c \in S <=> slot[c] \in Conns)
  BY <1>1, TaskKinds DEF Given
<1> HIDE DEF S, U
<1>3. /\ IsFiniteSet(U) /\ Cardinality(S) \in Nat
      /\ c \in S => Cardinality(U) = Cardinality(S) - 1
      /\ c \notin S => Cardinality(U) = Cardinality(S)
  BY <1>2, OneChange
<1>4. /\ slot[c] \in Conns => Cardinality(U) = Cardinality(S) + (-1)
      /\ slot[c] \notin Conns => Cardinality(U) = Cardinality(S) + 0
  BY <1>2, <1>3
<1> QED
  BY <1>3, <1>4 DEF S, U

-----------------------------------------------------------------------------
(* What each move counts                                                     *)

\* The tasks that make or return a connection are pending, the others are not.
LEMMA PendingTasks ==
  /\ \A g, r \in BOOLEAN : AddConnection(g, r) \in Pending
  /\ \A x \in Conns : ReturnConnection(x) \in Pending
  /\ \A k \in {"shrink", "schedule", "stop"} : Simple(k) \notin Pending
  /\ \A k \in DelayedKinds : Delayed(k) \in Pending <=> k # "shrink"
<1>1. /\ \A g, r \in BOOLEAN : AddConnection(g, r) \in Pending
      /\ \A x \in Conns : ReturnConnection(x) \in Pending
      /\ \A k \in {"shrink", "schedule", "stop"} : Simple(k) \notin Pending
  BY NewTasks DEF Pending
<1>2. ASSUME NEW k \in DelayedKinds
      PROVE  Delayed(k) \in Pending <=> k # "shrink"
  BY DelayedTasks DEF Pending
<1> QED
  BY <1>1, <1>2

\* A task that is queued counts if it is one of them.
LEMMA RunCounts ==
  ASSUME AsyncTypeOK, ~closed, NEW k \in MaintenanceTask, run_task(k)
  PROVE  /\ k \in Pending => NQueued(tasks, Pending)' = NQueued(tasks, Pending) + 1
         /\ k \notin Pending => NQueued(tasks, Pending)' = NQueued(tasks, Pending) + 0
<1>1. tasks \in Seq(MaintenanceTask) /\ tasks' = Append(tasks, k)
  BY DEF AsyncTypeOK, run_task
<1>2. NQueued(tasks, Pending) \in Nat
  BY <1>1, QueuedFinite
<1>3. NQueued(tasks, Pending)' = NQueued(Append(tasks, k), Pending)
  BY <1>1 DEF NQueued
<1> QED
  BY <1>1, <1>2, <1>3, QueuedAppend

\* A task that is taken counted if it was one of them.
LEMMA TakeCounts ==
  ASSUME AsyncTypeOK, tasks # <<>>, tasks' = Tail(tasks)
  PROVE  /\ Head(tasks) \in Pending => NQueued(tasks, Pending)' = NQueued(tasks, Pending) + (-1)
         /\ Head(tasks) \notin Pending => NQueued(tasks, Pending)' = NQueued(tasks, Pending) + 0
<1>1. tasks \in Seq(MaintenanceTask)
  BY DEF AsyncTypeOK
<1>2. NQueued(tasks, Pending) \in Nat
  BY <1>1, QueuedFinite
<1>3. NQueued(tasks, Pending)' = NQueued(Tail(tasks), Pending)
  BY DEF NQueued
<1>4. /\ Head(tasks) \in Pending => NQueued(Tail(tasks), Pending) = NQueued(tasks, Pending) - 1
      /\ Head(tasks) \notin Pending => NQueued(Tail(tasks), Pending) = NQueued(tasks, Pending)
  BY <1>1, QueuedTail
<1> QED
  BY <1>2, <1>3, <1>4

\* One of them in the place of another.
LEMMA SwapCounts ==
  ASSUME AsyncTypeOK, tasks # <<>>, Head(tasks) \in Pending, NEW k \in MaintenanceTask,
         k \in Pending, tasks' = Append(Tail(tasks), k)
  PROVE  NQueued(tasks, Pending)' = NQueued(tasks, Pending) + 0
<1>1. tasks \in Seq(MaintenanceTask)
  BY DEF AsyncTypeOK
<1>2. Tail(tasks) \in Seq(MaintenanceTask)
  BY <1>1
<1>3. NQueued(tasks, Pending) \in Nat
  BY <1>1, QueuedFinite
<1>4. NQueued(tasks, Pending)' = NQueued(Append(Tail(tasks), k), Pending)
  BY DEF NQueued
<1>5. NQueued(Append(Tail(tasks), k), Pending) = NQueued(Tail(tasks), Pending) + 1
  BY <1>2, QueuedAppend
<1>6. NQueued(Tail(tasks), Pending) = NQueued(tasks, Pending) - 1
  BY <1>1, QueuedTail
<1> QED
  BY <1>3, <1>4, <1>5, <1>6

\* n copies of one of them.
LEMMA CopiesCount ==
  ASSUME NEW s \in Seq(MaintenanceTask), NEW n \in Nat, NEW k \in MaintenanceTask, k \in Pending
  PROVE  NQueued(s \o [i \in 1..n |-> k], Pending) = NQueued(s, Pending) + n
<1> DEFINE m == Len(s)
           S == {i \in DOMAIN s : s[i] \in Pending}
           u == s \o [i \in 1..n |-> k]
           U == {i \in DOMAIN u : u[i] \in Pending}
           N == (m + 1)..(m + n)
<1>1. m \in Nat /\ DOMAIN s = 1..m
  OBVIOUS
<1>2. [i \in 1..n |-> k] \in [1..n -> MaintenanceTask]
  OBVIOUS
<1>3. [i \in 1..n |-> k] \in Seq(MaintenanceTask)
  BY <1>2, FunctionIsSeq
<1>4. PICK c \in Seq(MaintenanceTask) : c = [i \in 1..n |-> k]
  BY <1>3
<1>5. Len(c) = n /\ DOMAIN c = 1..n /\ \A i \in 1..n : c[i] = k
  BY <1>3, <1>4
<1>6. u = s \o c
  BY <1>4
<1>7. /\ DOMAIN u = 1..(m + n) /\ \A i \in 1..m : u[i] = s[i]
      /\ \A i \in (m + 1)..(m + n) : u[i] = c[i - m]
  BY <1>1, <1>5, <1>6
<1> HIDE DEF u, m
<1>8. \A i \in N : i - m \in 1..n /\ i \in DOMAIN u /\ i \notin DOMAIN s
  BY <1>1, <1>7
<1>9. \A i \in DOMAIN u : i \in DOMAIN s \/ i \in N
  BY <1>1, <1>7
<1>10. \A i \in DOMAIN s : i \in DOMAIN u /\ u[i] = s[i]
  BY <1>1, <1>7
<1>11. \A i \in N : u[i] = k
  BY <1>5, <1>7, <1>8
<1>12. U = S \cup N /\ S \cap N = {}
  <2> HIDE DEF N
  <2> QED
    BY <1>8, <1>9, <1>10, <1>11
<1>13. IsFiniteSet(S) /\ Cardinality(S) \in Nat
  BY QueuedFinite, FS_CardinalityType
<1>14. IsFiniteSet(N) /\ Cardinality(N) = n
  <2>1. m + 1 \in Int /\ m + n \in Int
    BY <1>1
  <2>2. IsFiniteSet(N) /\ Cardinality(N) = IF m + 1 > m + n THEN 0 ELSE (m + n) - (m + 1) + 1
    BY <2>1, FS_Interval
  <2>3. (IF m + 1 > m + n THEN 0 ELSE (m + n) - (m + 1) + 1) = n
    BY <1>1
  <2> QED
    BY <2>2, <2>3
<1>15. NQueued(s, Pending) = Cardinality(S) /\ NQueued(u, Pending) = Cardinality(U)
  BY DEF NQueued
<1> HIDE DEF S, U, N
<1>16. Cardinality(S \cup N) = Cardinality(S) + Cardinality(N) - Cardinality(S \cap N)
  BY <1>13, <1>14, FS_Union
<1>17. Cardinality({}) = 0
  BY FS_EmptySet
<1>18. Cardinality(U) = Cardinality(S) + Cardinality(N)
  <2>1. Cardinality(U) = Cardinality(S) + Cardinality(N) - Cardinality({})
    BY <1>12, <1>16
  <2>2. PICK i \in Int, j \in Int : i = Cardinality(S) /\ j = Cardinality(N)
    BY <1>13, <1>14
  <2>3. Cardinality(U) = i + j - 0
    BY <1>17, <2>1, <2>2
  <2> QED
    BY <2>2, <2>3
<1>19. NQueued(u, Pending) = NQueued(s, Pending) + n
  BY <1>14, <1>15, <1>18
<1> QED
  BY <1>19 DEF u

\* What an administrator has in its list counts.
LEMMA BatchCounts ==
  ASSUME AsyncTypeOK, IsFiniteSet(Pairs(Batched)), NEW a \in Admins, NEW s \in Seq(Conns),
         batch' = [batch EXCEPT ![a] = s]
  PROVE  /\ IsFiniteSet(Pairs(Batched))'
         /\ Cardinality(Pairs(Batched))' = Cardinality(Pairs(Batched)) + (Len(s) - Len(batch[a]))
<1>1. batch \in [Admins -> Seq(Conns)]
  BY DEF AsyncTypeOK
<1> DEFINE f == Batched
           g == Batched'
<1>2. f \in [Admins -> Nat] /\ f[a] = Len(batch[a])
  BY <1>1 DEF Batched
<1>3. batch' \in [Admins -> Seq(Conns)] /\ batch'[a] = s
  BY <1>1
<1>4. g \in [Admins -> Nat] /\ g[a] = Len(s)
  BY <1>3 DEF Batched
<1>5. \A b \in Admins : b # a => f[b] = g[b]
  BY <1>1 DEF Batched
<1>6. Pairs(Batched)' = Pairs(g) /\ Pairs(Batched) = Pairs(f)
  BY DEF Pairs
<1>8. f[a] \in Nat /\ g[a] \in Nat
  BY <1>2, <1>4
<1> HIDE DEF f, g
<1>7. /\ IsFiniteSet(Pairs(g)) /\ Cardinality(Pairs(f)) \in Nat
      /\ Cardinality(Pairs(g)) = Cardinality(Pairs(f)) + g[a] - f[a]
  BY <1>2, <1>4, <1>5, <1>6, PairsChange
<1>9. PICK p \in Nat, i \in Nat, j \in Nat : p = Cardinality(Pairs(f)) /\ i = g[a] /\ j = f[a]
  BY <1>7, <1>8
<1>10. Cardinality(Pairs(g)) = p + (i - j)
  BY <1>7, <1>9
<1> QED
  BY <1>2, <1>4, <1>6, <1>7, <1>9, <1>10

\* a more in the pool and g more given, as an added connection counts.
Adds(a, g) == /\ Len(pool)' = Len(pool) + a
              /\ IsFiniteSet(Given)' /\ Cardinality(Given)' = Cardinality(Given) + g
              /\ AddCount = nconns + (a + g) - 1
              /\ kind = "pool" => a + g = 1

\* A connection that is added goes to a client or to the pool, or a null pool closes it and
\* counts one less.
LEMMA AddCounts ==
  ASSUME AsyncTypeOK, Jobs, Queue, ~closed, Counted, IsFiniteSet(Given), NEW x \in Conns, Add(x)
  PROVE  \E a, g \in Int : Adds(a, g)
<1>t. /\ pool \in Seq(Conns) /\ waiting \in Seq(Clients \cup {Gone}) /\ nconns \in Int
      /\ Cardinality(Given) \in Int /\ Len(pool) \in Int
  BY FS_CardinalityType DEF AsyncTypeOK
<1>1. Serve(x)
  BY DEF Add
<1>2. CASE \E i \in DOMAIN waiting : /\ waiting[i] # Gone
                                     /\ slot' = [slot EXCEPT ![waiting[i]] = x]
                                     /\ UNCHANGED poolVars
  <2>1. PICK i \in DOMAIN waiting : /\ waiting[i] # Gone
                                    /\ slot' = [slot EXCEPT ![waiting[i]] = x]
                                    /\ UNCHANGED poolVars
    BY <1>2
  <2>2. waiting[i] \in Clients
    BY <1>t, <2>1
  <2>3. slot[waiting[i]] \notin Conns
    BY <2>1, TaskKinds DEF Queue, QueueOK
  <2>4. IsFiniteSet(Given)' /\ Cardinality(Given)' = Cardinality(Given) + 1
    BY <2>1, <2>2, <2>3, GivenMore
  <2>5. Len(pool)' = Len(pool) + 0
    BY <1>t, <2>1 DEF poolVars
  <2>6. AddCount = nconns + (0 + 1) - 1
    BY <1>t, <2>1 DEF AddCount
  <2>7. Adds(0, 1)
    BY <2>4, <2>5, <2>6 DEF Adds
  <2> QED
    BY <2>7
<1>3. CASE UNCHANGED slot /\ kind = "pool" /\ pool' = Append(pool, x)
  <2>1. Len(pool)' = Len(pool) + 1
    BY <1>t, <1>3
  <2>2. IsFiniteSet(Given)' /\ Cardinality(Given)' = Cardinality(Given) + 0
    BY <1>3, <1>t DEF Given
  <2>3. AddCount = nconns + (1 + 0) - 1
    BY <1>3, <1>t DEF AddCount
  <2>4. Adds(1, 0)
    BY <2>1, <2>2, <2>3 DEF Adds
  <2> QED
    BY <2>4
<1>4. CASE UNCHANGED slot /\ kind = "null" /\ UNCHANGED pool /\ \A i \in DOMAIN waiting : waiting[i] = Gone
  <2>1. Len(pool)' = Len(pool) + 0
    BY <1>t, <1>4
  <2>2. IsFiniteSet(Given)' /\ Cardinality(Given)' = Cardinality(Given) + 0
    BY <1>4, <1>t DEF Given
  <2>3. full_event = "none"
    BY <1>4 DEF Jobs
  <2>4. AddCount = nconns + (0 + 0) - 1
    BY <1>4, <1>t, <2>3 DEF AddCount
  <2>5. Adds(0, 0)
    BY <1>4, <2>1, <2>2, <2>4 DEF Adds
  <2> QED
    BY <2>5
<1> QED
  BY <1>1, <1>2, <1>3, <1>4 DEF Serve

-----------------------------------------------------------------------------
(* A connection passed on                                                    *)

\* What has been counted right, and what then has to be.
Right == opened /\ ~closed /\ Counted /\ AllFinite /\ nconns = OnHand + InHands
Kept  == AllFinite' /\ nconns' = OnHand' + InHands'

\* What a task has in hand.
LEMMA PartOf ==
  ASSUME NEW t, NEW l
  PROVE  /\ l \notin {"connecting", "giveup"} => Part(t, l, NoConn) = 0
         /\ t \notin Workers => Part(t, l, NoConn) = 0
         /\ t \in Workers /\ l \in {"connecting", "giveup"} => Part(t, l, NoConn) = 1
         /\ l \notin {"connecting", "giveup"} => \A x \in Conns : Part(t, l, x) = 1
BY TaskKinds DEF Part, Holds, Connects

\* One connection, where it holds one.
LEMMA HeldPart ==
  ASSUME AsyncTypeOK, Hands, NEW t \in Tasks, pc[t] \in Holding
  PROVE  cur[t] \in Conns /\ Part(t, pc[t], cur[t]) = 1
<1>1. cur[t] \in Conns /\ pc[t] \notin {"connecting", "giveup"}
  BY DEF Hands, Holding
<1> QED
  BY <1>1, PartOf

\* Task t goes to l with y; a more in the pool, g given and q queued, it counts right
\* if it had a connection.
Passing(t, a, g, q, l, y) ==
  /\ Goes(t, l, y)
  /\ Len(pool)' = Len(pool) + a
  /\ IsFiniteSet(Given)' /\ Cardinality(Given)' = Cardinality(Given) + g
  /\ NQueued(tasks, Pending)' = NQueued(tasks, Pending) + q
  /\ nconns' = nconns + (a + g + q) + Part(t, l, y) - 1
Passes(t) == \E a, g, q \in Int : \E l, y : Passing(t, a, g, q, l, y)

\* The steps that pass a connection on leave the rest alone.
LEMMA PassCounts ==
  ASSUME AsyncTypeOK, Right, NEW t \in Tasks, Part(t, pc[t], cur[t]) = 1,
         Passes(t), UNCHANGED <<sched, batch>>
  PROVE  Kept
<1>0. PICK a \in Int, g \in Int, q \in Int : \E l, y : Passing(t, a, g, q, l, y)
  BY DEF Passes
<1>1. PICK l, y : Passing(t, a, g, q, l, y)
  BY <1>0
<1>2. Part(t, pc[t], cur[t]) = 1
  OBVIOUS
<1>3. Later' = Later + 0 /\ IsFiniteSet(Pairs(Batched))'
      /\ Cardinality(Pairs(Batched))' = Cardinality(Pairs(Batched)) + 0
  BY KeptCounts DEF Right, AllFinite
<1>4. Counts(a, g, q, 0, 0)
  BY <1>1, <1>3 DEF Passing, Counts
<1>5. a + g + q + 0 + 0 = a + g + q
  OBVIOUS
<1>6. nconns' = nconns + (a + g + q + 0 + 0) + Part(t, l, y) - Part(t, pc[t], cur[t])
  BY <1>1, <1>2, <1>5 DEF Passing
<1>7. Goes(t, l, y)
  BY <1>1 DEF Passing
<1>9. AllFinite /\ nconns = OnHand + InHands
  BY DEF Right
<1>8. AllFinite' /\ nconns' = OnHand' + InHands'
  BY <1>4, <1>6, <1>7, <1>9, GoesKeepsCount
<1> QED
  BY <1>8 DEF Kept

\* That is, if the task holds one.
LEMMA PassKeeps ==
  ASSUME AsyncTypeOK, Hands, Right, NEW t \in Tasks, pc[t] \in Holding,
         Passes(t), UNCHANGED <<sched, batch>>
  PROVE  Kept
BY HeldPart, PassCounts

\* The task goes on with the connection, or without.
LEMMA PassAlong ==
  ASSUME AsyncTypeOK, Right, NEW t, NEW l, NEW x \in Conns, Goes(t, l, x),
         l \notin {"connecting", "giveup"}, UNCHANGED <<pool, slot, tasks, nconns>>
  PROVE  Passes(t)
<1>1. Part(t, l, x) = 1
  BY PartOf
<1>2. nconns' = nconns + (0 + 0 + 0) + Part(t, l, x) - 1
  BY <1>1 DEF AsyncTypeOK
<1>3. /\ Len(pool)' = Len(pool) + 0
      /\ IsFiniteSet(Given)' /\ Cardinality(Given)' = Cardinality(Given) + 0
      /\ NQueued(tasks, Pending)' = NQueued(tasks, Pending) + 0
  BY KeptCounts DEF Right, AllFinite
<1>4. Passing(t, 0, 0, 0, l, x)
  BY <1>2, <1>3 DEF Passing
<1> QED
  BY <1>4 DEF Passes

\* It is to be replaced, or to be returned by a worker.
LEMMA PassToTask ==
  ASSUME AsyncTypeOK, Right, NEW t, NEW l, Goes(t, l, NoConn), NEW k \in MaintenanceTask,
         l \notin {"connecting", "giveup"}, UNCHANGED <<pool, slot, nconns>>,
         k \in Pending, run_task(k)
  PROVE  Passes(t)
<1>1. Part(t, l, NoConn) = 0
  BY PartOf
<1>2. nconns' = nconns + (0 + 0 + 1) + Part(t, l, NoConn) - 1
  BY <1>1 DEF AsyncTypeOK
<1>3. /\ Len(pool)' = Len(pool) + 0
      /\ IsFiniteSet(Given)' /\ Cardinality(Given)' = Cardinality(Given) + 0
  BY KeptCounts DEF Right, AllFinite
<1>4. NQueued(tasks, Pending)' = NQueued(tasks, Pending) + 1
  BY RunCounts DEF Right
<1>5. Passing(t, 0, 0, 1, l, NoConn)
  BY <1>2, <1>3, <1>4 DEF Passing
<1> QED
  BY <1>5 DEF Passes

\* It is added.
LEMMA PassToPool ==
  ASSUME AsyncTypeOK, Jobs, Queue, Right, NEW t, NEW l, NEW x \in Conns, Goes(t, l, NoConn),
         l \notin {"connecting", "giveup"}, Add(x), UNCHANGED tasks, nconns' = AddCount
  PROVE  Passes(t)
<1>1. Part(t, l, NoConn) = 0
  BY PartOf
<1>2. PICK a \in Int, g \in Int : Adds(a, g)
  BY AddCounts DEF Right, AllFinite
<1>3. NQueued(tasks, Pending)' = NQueued(tasks, Pending) + 0
  BY KeptCounts DEF Right, AllFinite
<1>4. nconns' = nconns + (a + g) - 1 /\ nconns \in Int
  BY <1>2 DEF Adds, AsyncTypeOK
<1>5. nconns' = nconns + (a + g + 0) + Part(t, l, NoConn) - 1
  BY <1>1, <1>4
<1>6. Passing(t, a, g, 0, l, NoConn)
  BY <1>2, <1>3, <1>5 DEF Adds, Passing
<1> QED
  BY <1>6 DEF Passes

\* AddOrQueue passes a connection on.
LEMMA AddOrQueuePasses ==
  ASSUME AsyncTypeOK, Jobs, Queue, Right, NEW t \in Clients \cup Workers, NEW x \in Conns,
         AddOrQueue(t, x), UNCHANGED tasks
  PROVE  Passes(t)
<1>1. CASE Add(x) /\ nconns' = AddCount /\ Hold(t, NoConn) /\ Goto(t, After(t))
  <2>1. Goes(t, After(t), NoConn) /\ After(t) \notin {"connecting", "giveup"}
    BY <1>1, AfterFits DEF Goes, Hold, Goto
  <2> QED
    BY <1>1, <2>1, PassToPool
<1>2. CASE /\ Hold(t, x) /\ Goto(t, "adding")
           /\ UNCHANGED <<poolVars, queueVars, nconns>>
  <2>1. Fits(t, "adding", x)
    BY AsyncTasksAssumption DEF Fits, ClientPlaces, WorkerPlaces, Holding
  <2>2. Goes(t, "adding", x)
    BY <1>2, <2>1 DEF Goes, Hold, Goto
  <2>3. UNCHANGED <<pool, slot, tasks, nconns>>
    BY <1>2 DEF poolVars, queueVars
  <2> QED
    BY <2>2, <2>3, PassAlong
<1> QED
  BY <1>1, <1>2 DEF AddOrQueue

\* So does Settle.
LEMMA SettlePasses ==
  ASSUME AsyncTypeOK, Jobs, Queue, Right, NEW t \in Clients \cup Workers, NEW x \in Conns, NEW s,
         Settle(t, x, s)
  PROVE  Passes(t)
<1>1. CASE /\ run_task(AddConnection(FALSE, FALSE)) /\ Hold(t, NoConn) /\ Goto(t, After(t))
           /\ UNCHANGED <<poolVars, queueVars, nconns>>
  <2>1. Goes(t, After(t), NoConn) /\ After(t) \notin {"connecting", "giveup"}
    BY <1>1, AfterFits DEF Goes, Hold, Goto
  <2>2. UNCHANGED <<pool, slot, nconns>>
    BY <1>1 DEF poolVars, queueVars
  <2>3. /\ AddConnection(FALSE, FALSE) \in MaintenanceTask
        /\ AddConnection(FALSE, FALSE) \in Pending
    BY NewTasks, PendingTasks
  <2> QED
    BY <1>1, <2>1, <2>2, <2>3, PassToTask
<1>2. CASE AddOrQueue(t, x) /\ UNCHANGED tasks
  BY <1>2, AddOrQueuePasses
<1> QED
  BY <1>1, <1>2 DEF Settle

\* And Put.
LEMMA PutPasses ==
  ASSUME AsyncTypeOK, Jobs, Queue, Right, NEW c \in Clients, cur[c] \in Conns, NEW s, Put(c, s)
  PROVE  Passes(c)
<1>t. c \in Clients \cup Workers /\ c \in Tasks
  BY TaskKinds
<1>1. CASE /\ run_task(ReturnConnection(cur[c])) /\ Hold(c, NoConn) /\ Goto(c, After(c))
           /\ UNCHANGED <<poolVars, queueVars, nconns>>
  <2>1. Goes(c, After(c), NoConn) /\ After(c) \notin {"connecting", "giveup"}
    BY <1>1, AfterFits DEF Goes, Hold, Goto
  <2>2. UNCHANGED <<pool, slot, nconns>>
    BY <1>1 DEF poolVars, queueVars
  <2>3. /\ ReturnConnection(cur[c]) \in MaintenanceTask
        /\ ReturnConnection(cur[c]) \in Pending
    BY NewTasks, PendingTasks
  <2> QED
    BY <1>1, <2>1, <2>2, <2>3, PassToTask
<1>2. CASE /\ Goto(c, "returning") /\ UNCHANGED <<cur, tasks, poolVars, queueVars, nconns>>
  <2>1. Fits(c, "returning", cur[c])
    BY AsyncTasksAssumption DEF Fits, ClientPlaces, WorkerPlaces, Holding
  <2>2. Goes(c, "returning", cur[c])
    BY <1>2, <1>t, <2>1, GoesKept
  <2>3. UNCHANGED <<pool, slot, tasks, nconns>>
    BY <1>2 DEF poolVars, queueVars
  <2> QED
    BY <2>2, <2>3, PassAlong
<1>3. CASE Settle(c, cur[c], IF s = "IDLE" THEN s ELSE "UNKNOWN")
  BY <1>3, <1>t, SettlePasses
<1> QED
  BY <1>1, <1>2, <1>3 DEF Put

\* And PutOrClose.
LEMMA PutOrClosePasses ==
  ASSUME AsyncTypeOK, Jobs, Queue, Right, NEW c \in Clients, cur[c] \in Conns, NEW s,
         PutOrClose(c, s)
  PROVE  Passes(c)
<1>1. CASE /\ kind = "null" /\ Hold(c, NoConn) /\ Goto(c, "idle") /\ nconns' = nconns - 1
           /\ UNCHANGED <<tasks, poolVars, queueVars>>
  <2>1. Fits(c, "idle", NoConn)
    BY AsyncTasksAssumption, TaskKinds DEF Fits, ClientPlaces, WorkerPlaces, Holding
  <2>2. Goes(c, "idle", NoConn) /\ Part(c, "idle", NoConn) = 0
    BY <1>1, <2>1, PartOf DEF Goes, Hold, Goto
  <2>3. UNCHANGED <<pool, slot, tasks>>
    BY <1>1 DEF poolVars, queueVars
  <2>4. nconns' = nconns + (0 + 0 + 0) + Part(c, "idle", NoConn) - 1
    BY <1>1, <2>2 DEF AsyncTypeOK
  <2>5. /\ Len(pool)' = Len(pool) + 0
        /\ IsFiniteSet(Given)' /\ Cardinality(Given)' = Cardinality(Given) + 0
        /\ NQueued(tasks, Pending)' = NQueued(tasks, Pending) + 0
    BY <2>3, KeptCounts DEF Right, AllFinite
  <2>6. Passing(c, 0, 0, 0, "idle", NoConn)
    BY <2>2, <2>4, <2>5 DEF Passing
  <2> QED
    BY <2>6 DEF Passes
<1>2. CASE Put(c, s)
  BY <1>2, PutPasses
<1> QED
  BY <1>1, <1>2 DEF PutOrClose, Right

-----------------------------------------------------------------------------
(* The count, step by step                                                   *)

\* A step of task t that counts what it moves.
LEMMA GoesRight ==
  ASSUME AsyncTypeOK, Right, NEW t \in Tasks, NEW l, NEW x, Goes(t, l, x),
         NEW a \in Int, NEW g \in Int, NEW q \in Int, NEW d \in Int, NEW b \in Int,
         Counts(a, g, q, d, b),
         nconns' = nconns + (a + g + q + d + b) + Part(t, l, x) - Part(t, pc[t], cur[t])
  PROVE  Kept
<1>1. AllFinite /\ nconns = OnHand + InHands
  BY DEF Right
<1>2. AllFinite' /\ nconns' = OnHand' + InHands'
  BY <1>1, GoesKeepsCount
<1> QED
  BY <1>2 DEF Kept

\* One in which no task goes on.
LEMMA StaysRight ==
  ASSUME AsyncTypeOK, Right, UNCHANGED <<pc, cur>>,
         NEW a \in Int, NEW g \in Int, NEW q \in Int, NEW d \in Int, NEW b \in Int,
         Counts(a, g, q, d, b), nconns' = nconns + (a + g + q + d + b)
  PROVE  Kept
<1>1. AllFinite /\ nconns = OnHand + InHands
  BY DEF Right
<1>2. AllFinite' /\ nconns' = OnHand' + InHands'
  BY <1>1, StaysKeepsCount
<1> QED
  BY <1>2 DEF Kept

\* One in which a task goes on as it is.
LEMMA MovesRight ==
  ASSUME AsyncTypeOK, Right, NEW t \in Tasks, NEW l, NEW x, Goes(t, l, x),
         Part(t, l, x) = Part(t, pc[t], cur[t]),
         UNCHANGED <<pool, slot, tasks, sched, batch, nconns>>
  PROVE  Kept
<1>1. Counts(0, 0, 0, 0, 0)
  BY KeptCounts DEF Right, AllFinite, Counts
<1>2. nconns \in Int /\ Part(t, l, x) \in Int
  BY PartType DEF AsyncTypeOK
<1>3. nconns' = nconns + (0 + 0 + 0 + 0 + 0) + Part(t, l, x) - Part(t, pc[t], cur[t])
  BY <1>2
<1> QED
  BY <1>1, <1>3, GoesRight

\* The pool grows by the task that it queues.
LEMMA GrowCounts ==
  ASSUME AsyncTypeOK, Right, _maybe_grow_pool
  PROVE  \E q \in Int : /\ NQueued(tasks, Pending)' = NQueued(tasks, Pending) + q
                        /\ nconns' = nconns + q
<1>1. CASE CanGrow
  <2>1. AddConnection(TRUE, FALSE) \in MaintenanceTask /\ AddConnection(TRUE, FALSE) \in Pending
    BY NewTasks, PendingTasks
  <2>2. run_task(AddConnection(TRUE, FALSE)) /\ nconns' = nconns + 1
    BY <1>1 DEF _maybe_grow_pool
  <2>3. NQueued(tasks, Pending)' = NQueued(tasks, Pending) + 1
    BY <2>1, <2>2, RunCounts DEF Right
  <2> QED
    BY <2>2, <2>3
<1>2. CASE ~CanGrow
  <2>1. NQueued(tasks, Pending)' = NQueued(tasks, Pending) + 0
    BY <1>2, KeptCounts DEF _maybe_grow_pool, Right, AllFinite
  <2>2. nconns' = nconns + 0
    BY <1>2 DEF _maybe_grow_pool, AsyncTypeOK
  <2> QED
    BY <2>1, <2>2
<1> QED
  BY <1>1, <1>2

\* A client takes a connection, joins the queue, or moves on.
LEMMA AcquireCounts ==
  ASSUME AsyncTypeOK, Hands, Queue, Right, NEW c \in Clients, cur[c] = NoConn, pc[c] # "waiting",
         Acquire(c)
  PROVE  Kept
<1>t. c \in Tasks /\ nconns \in Int /\ pool \in Seq(Conns)
  BY TaskKinds DEF AsyncTypeOK
<1>d. c \notin Workers /\ c \notin Admins
  BY AsyncTasksAssumption
<1>f. /\ \A l \in {"connecting", "idle", "waiting"} : Fits(c, l, NoConn) /\ Part(c, l, NoConn) = 0
      /\ \A x \in Conns : Fits(c, Checked, x) /\ Part(c, Checked, x) = 1
      /\ Part(c, pc[c], cur[c]) = 0
  BY <1>d, PartOf, TaskKinds DEF Fits, ClientPlaces, Holding, Checked
<1>u. UNCHANGED <<sched, batch>>
  BY DEF Acquire, adminVars
<1>k. /\ Later' = Later + 0 /\ IsFiniteSet(Pairs(Batched))'
      /\ Cardinality(Pairs(Batched))' = Cardinality(Pairs(Batched)) + 0
  BY <1>u, KeptCounts DEF Right, AllFinite
<1>1. CASE pool # <<>> /\ PopIdle(c)
  <2>1. Head(pool) \in Conns /\ Len(Tail(pool)) = Len(pool) - 1 /\ Len(pool) \in Nat
    BY <1>1, <1>t, PoolHead
  <2>2. Goes(c, Checked, Head(pool))
    BY <1>1, <1>f, <2>1 DEF PopIdle, Goes, Hold, Goto
  <2>3. Len(pool)' = Len(pool) + (-1)
    BY <1>1, <2>1 DEF PopIdle
  <2>4. /\ IsFiniteSet(Given)' /\ Cardinality(Given)' = Cardinality(Given) + 0
        /\ NQueued(tasks, Pending)' = NQueued(tasks, Pending) + 0
    BY <1>1, KeptCounts DEF PopIdle, queueVars, Right, AllFinite
  <2>5. Counts(-1, 0, 0, 0, 0)
    BY <1>k, <2>3, <2>4 DEF Counts
  <2>6. nconns' = nconns + ((-1) + 0 + 0 + 0 + 0) + Part(c, Checked, Head(pool)) - Part(c, pc[c], cur[c])
    BY <1>1, <1>f, <1>t, <2>1 DEF PopIdle
  <2> QED
    BY <1>t, <2>2, <2>5, <2>6, GoesRight
<1>2. CASE /\ \E l \in {"connecting", "idle"} : Goto(c, l)
           /\ UNCHANGED <<countVars, pool, queueVars, tasks, cur>>
  <2>1. PICK l \in {"connecting", "idle"} : Goto(c, l)
    BY <1>2
  <2>2. Goes(c, l, NoConn)
    BY <1>2, <1>f, <1>t, <2>1, GoesKept
  <2>3. UNCHANGED <<pool, slot, tasks, sched, batch, nconns>>
    BY <1>2, <1>u DEF countVars, queueVars
  <2>4. Part(c, l, NoConn) = Part(c, pc[c], cur[c])
    BY <1>f
  <2> QED
    BY <1>t, <2>2, <2>3, <2>4, MovesRight
<1>3. CASE Enqueue(c)
  <2>1. Goes(c, "waiting", NoConn)
    BY <1>3, <1>f, <1>t, GoesKept DEF Enqueue
  <2>2. slot[c] \notin Conns
    BY DEF Queue, QueueOK, Right
  <2>3. IsFiniteSet(Given)' /\ Cardinality(Given)' = Cardinality(Given) + 0
    BY <1>3, <2>2, GivenLess DEF Enqueue, Right, AllFinite
  <2>4. PICK q \in Int : /\ NQueued(tasks, Pending)' = NQueued(tasks, Pending) + q
                         /\ nconns' = nconns + q
    BY <1>3, GrowCounts DEF Enqueue
  <2>5. Len(pool)' = Len(pool) + 0
    BY <1>3, KeptCounts DEF Enqueue, Right, AllFinite
  <2>6. Counts(0, 0, q, 0, 0)
    BY <1>k, <2>3, <2>4, <2>5 DEF Counts
  <2>7. nconns' = nconns + (0 + 0 + q + 0 + 0) + Part(c, "waiting", NoConn) - Part(c, pc[c], cur[c])
    BY <1>f, <1>t, <2>4
  <2> QED
    BY <1>t, <2>1, <2>6, <2>7, GoesRight
<1> QED
  BY <1>1, <1>2, <1>3 DEF Acquire

\* A task that only moves on.
LEMMA MoveToCounts ==
  ASSUME AsyncTypeOK, Right, NEW t \in Tasks, NEW l, MoveTo(t, l), Fits(t, l, cur[t]),
         Part(t, l, cur[t]) = Part(t, pc[t], cur[t])
  PROVE  Kept
<1>1. Goes(t, l, cur[t])
  BY GoesKept DEF MoveTo
<1>2. UNCHANGED <<pool, slot, tasks, sched, batch, nconns>>
  BY DEF MoveTo, countVars, poolVars, taskVars, queueVars, adminVars
<1> QED
  BY <1>1, <1>2, MovesRight

\* A task that had to queue adds its connection.
LEMMA AddLockedPasses ==
  ASSUME AsyncTypeOK, Hands, Jobs, Queue, Right, NEW t \in Clients \cup Workers, add_locked(t)
  PROVE  Kept
<1>t. t \in Tasks
  BY TaskKinds
<1>1. pc[t] \in Holding /\ cur[t] \in Conns
  BY <1>t DEF add_locked, At, Hands, Holding
<1>2. Goes(t, After(t), NoConn) /\ After(t) \notin {"connecting", "giveup"}
  BY AfterFits DEF add_locked, Goes, Hold, Goto
<1>3. /\ Add(cur[t]) /\ UNCHANGED tasks /\ nconns' = AddCount /\ UNCHANGED <<sched, batch>>
  BY DEF add_locked, taskVars, adminVars
<1>4. Passes(t)
  BY <1>1, <1>2, <1>3, PassToPool
<1> QED
  BY <1>1, <1>3, <1>4, <1>t, PassKeeps

\* The end of a reset.
LEMMA ResetPasses ==
  ASSUME AsyncTypeOK, Hands, Jobs, Queue, Right, NEW t \in Clients \cup Workers, reset_ends(t)
  PROVE  Kept
<1>t. t \in Tasks
  BY TaskKinds
<1>1. pc[t] \in Holding /\ cur[t] \in Conns
  BY <1>t DEF reset_ends, At, Hands, Holding
<1>2. UNCHANGED <<sched, batch>>
  BY DEF reset_ends, adminVars
<1>3. Passes(t)
  BY <1>1, SettlePasses DEF reset_ends
<1> QED
  BY <1>1, <1>2, <1>3, <1>t, PassKeeps

\* Every step of a client counts right.
LEMMA ClientCounts ==
  ASSUME AsyncTypeOK, Hands, Jobs, Queue, Right, NEW c \in Clients, ClientStep(c)
  PROVE  Kept
<1>t. /\ cur \in [Tasks -> Conns \cup {NoConn}] /\ c \in Tasks /\ c \in Clients \cup Workers
      /\ nconns \in Int /\ slot \in [Clients -> Conns \cup {NoConn, Failed}]
  BY TaskKinds DEF AsyncTypeOK
<1>d. c \notin Workers /\ c \notin Admins
  BY AsyncTasksAssumption
<1>n. NoConn \notin Conns
  BY TaskKinds
<1>f. /\ \A l \in ClientPlaces \ Holding : Fits(c, l, NoConn)
      /\ \A l \in Holding : \A x \in Conns : Fits(c, l, x)
  BY <1>d, <1>n DEF Fits, ClientPlaces
<1>l. /\ {"idle", "getconn", "connecting", "waiting", "sleeping"} \subseteq ClientPlaces \ Holding
      /\ Checked \in Holding /\ "using" \in Holding /\ "putconn" \in Holding
  BY DEF ClientPlaces, Holding, Checked
<1>h. pc[c] \notin Holding => cur[c] = NoConn
  BY <1>t, NothingHeld
<1>p. /\ \A l : Part(c, l, NoConn) = 0
      /\ \A l \in Holding : \A x \in Conns : Part(c, l, x) = 1
  BY <1>d, PartOf DEF Holding
<1>x. pc[c] \in Holding => cur[c] \in Conns /\ Part(c, pc[c], cur[c]) = 1
  BY <1>t, HeldPart
<1>1. CASE \/ At(c, "idle") \/ At(c, "getconn") \/ At(c, "sleeping")
  <2>1. cur[c] = NoConn /\ pc[c] # "waiting"
    BY <1>1, <1>h DEF At, Holding
  <2>2. CASE Acquire(c)
    BY <2>1, <2>2, AcquireCounts
  <2>3. CASE MoveTo(c, "getconn")
    BY <2>1, <2>3, <1>f, <1>l, <1>p, <1>t, MoveToCounts
  <2>4. CASE backoff_gives_up(c)
    <3>1. Goes(c, "idle", cur[c])
      BY <1>f, <1>l, <1>t, <2>1, <2>4, GoesKept DEF backoff_gives_up
    <3>2. UNCHANGED <<pool, slot, tasks, sched, batch, nconns>>
      BY <2>4 DEF backoff_gives_up, countVars, poolVars, taskVars, queueVars, adminVars
    <3>3. Part(c, "idle", cur[c]) = Part(c, pc[c], cur[c])
      BY <1>p, <2>1
    <3> QED
      BY <1>t, <3>1, <3>2, <3>3, MovesRight
  <2> QED
    BY <1>1, <2>2, <2>3, <2>4 DEF ClientStep, Request, getconn, getconn_locked, null_connected,
       null_connect_fails, wait_returns, wait_times_out, check_passes, check_fails,
       backoff_gives_up, backoff_retries, putconn, putconn_locked, reset_ends, add_locked, At
<1>2. CASE null_connected(c)
  <2>1. PICK x \in Conns : Hold(c, x) /\ Mark(x, "IDLE")
    BY <1>2 DEF null_connected
  <2>2. Goes(c, Checked, x)
    BY <1>2, <1>f, <1>l, <2>1 DEF null_connected, Goes, Goto, Hold
  <2>3. cur[c] = NoConn
    BY <1>2, <1>h DEF null_connected, At, Holding
  <2>4. Counts(0, 0, 0, 0, 0)
    BY <1>2, KeptCounts DEF null_connected, poolVars, taskVars, queueVars, adminVars, Right,
                            AllFinite, Counts
  <2>5. Part(c, Checked, x) = 1 /\ Part(c, pc[c], cur[c]) = 0
    BY <1>p, <1>l, <2>3
  <2>6. nconns' = nconns + (0 + 0 + 0 + 0 + 0) + Part(c, Checked, x) - Part(c, pc[c], cur[c])
    BY <1>2, <1>t, <2>5 DEF null_connected
  <2> QED
    BY <1>t, <2>2, <2>4, <2>6, GoesRight
<1>3. CASE null_connect_fails(c)
  <2>1. cur[c] = NoConn
    BY <1>3, <1>h DEF null_connect_fails, At, Holding
  <2>2. MoveTo(c, "idle")
    BY <1>3 DEF null_connect_fails, MoveTo
  <2> QED
    BY <1>f, <1>l, <1>p, <1>t, <2>1, <2>2, MoveToCounts
<1>4. CASE check_passes(c)
  <2>1. pc[c] \in Holding
    BY <1>4 DEF check_passes, At, Holding
  <2>2. MoveTo(c, "using")
    BY <1>4 DEF check_passes, MoveTo
  <2>3. Fits(c, "using", cur[c]) /\ Part(c, "using", cur[c]) = Part(c, pc[c], cur[c])
    BY <1>f, <1>l, <1>p, <1>x, <2>1
  <2> QED
    BY <1>t, <2>2, <2>3, MoveToCounts
<1>5. CASE wait_returns(c)
  <2>1. cur[c] = NoConn
    BY <1>5, <1>h DEF wait_returns, At, Holding
  <2>2. slot[c] # Failed => slot[c] \in Conns
    BY <1>5, <1>t DEF wait_returns
  <2>3. /\ slot' = [slot EXCEPT ![c] = NoConn]
        /\ Len(pool)' = Len(pool) + 0 /\ NQueued(tasks, Pending)' = NQueued(tasks, Pending) + 0
        /\ Later' = Later + 0 /\ IsFiniteSet(Pairs(Batched))'
        /\ Cardinality(Pairs(Batched))' = Cardinality(Pairs(Batched)) + 0
    BY <1>5, KeptCounts DEF wait_returns, poolVars, taskVars, adminVars, Right, AllFinite
  <2>4. nconns' = nconns
    BY <1>5 DEF wait_returns, countVars
  <2>5. CASE slot[c] = Failed
    <3>1. Goes(c, "idle", NoConn)
      BY <1>5, <1>f, <1>l, <1>t, <2>1, <2>5, GoesKept DEF wait_returns
    <3>2. IsFiniteSet(Given)' /\ Cardinality(Given)' = Cardinality(Given) + 0
      BY <2>3, <2>5, TaskKinds, GivenLess DEF Right, AllFinite
    <3>3. Counts(0, 0, 0, 0, 0)
      BY <2>3, <3>2 DEF Counts
    <3>4. nconns' = nconns + (0 + 0 + 0 + 0 + 0) + Part(c, "idle", NoConn) - Part(c, pc[c], cur[c])
      BY <1>p, <1>t, <2>1, <2>4
    <3> QED
      BY <1>t, <3>1, <3>3, <3>4, GoesRight
  <2>6. CASE slot[c] # Failed
    <3>1. Goes(c, Checked, slot[c])
      BY <1>5, <1>f, <1>l, <2>2, <2>6 DEF wait_returns, Goes, Hold, Goto
    <3>2. IsFiniteSet(Given)' /\ Cardinality(Given)' = Cardinality(Given) + (-1)
      BY <2>2, <2>3, <2>6, GivenLess DEF Right, AllFinite
    <3>3. Counts(0, -1, 0, 0, 0)
      BY <2>3, <3>2 DEF Counts
    <3>5. Part(c, Checked, slot[c]) = 1 /\ Part(c, pc[c], cur[c]) = 0
      BY <1>l, <1>p, <2>1, <2>2, <2>6
    <3>4. nconns' = nconns + (0 + (-1) + 0 + 0 + 0) + Part(c, Checked, slot[c]) - Part(c, pc[c], cur[c])
      BY <1>t, <2>4, <3>5
    <3> QED
      BY <1>t, <3>1, <3>3, <3>4, GoesRight
  <2> QED
    BY <2>5, <2>6
<1>6. CASE wait_times_out(c)
  <2>1. cur[c] = NoConn
    BY <1>6, <1>h DEF wait_times_out, At, Holding
  <2>2. Goes(c, "idle", cur[c])
    BY <1>6, <1>f, <1>l, <1>t, <2>1, GoesKept DEF wait_times_out
  <2>3. UNCHANGED <<pool, slot, tasks, sched, batch, nconns>>
    BY <1>6 DEF wait_times_out, countVars, poolVars, taskVars
  <2>4. Part(c, "idle", cur[c]) = Part(c, pc[c], cur[c])
    BY <1>p, <2>1
  <2> QED
    BY <1>t, <2>2, <2>3, <2>4, MovesRight
<1>7. CASE check_fails(c) \/ putconn(c) \/ putconn_locked(c)
  <2>1. pc[c] \in Holding
    BY <1>7 DEF check_fails, putconn, putconn_locked, At, Holding
  <2>2. UNCHANGED <<sched, batch>>
    BY <1>7 DEF check_fails, putconn, putconn_locked, adminVars
  <2>3. cur[c] \in Conns
    BY <1>x, <2>1
  <2>4. CASE check_fails(c)
    <3>1. Passes(c)
      BY <2>3, <2>4, PutPasses DEF check_fails
    <3> QED
      BY <1>t, <2>1, <2>2, <3>1, PassKeeps
  <2>5. CASE \E s : PutOrClose(c, s)
    <3>1. Passes(c)
      BY <2>3, <2>5, PutOrClosePasses
    <3> QED
      BY <1>t, <2>1, <2>2, <3>1, PassKeeps
  <2>6. CASE Goto(c, "putconn") /\ UNCHANGED <<cur, tasks, poolVars, queueVars, nconns>>
    <3>1. Fits(c, "putconn", cur[c]) /\ Part(c, "putconn", cur[c]) = Part(c, pc[c], cur[c])
      BY <1>f, <1>l, <1>p, <1>x, <2>1
    <3>2. Goes(c, "putconn", cur[c])
      BY <1>t, <2>6, <3>1, GoesKept
    <3>3. UNCHANGED <<pool, slot, tasks, sched, batch, nconns>>
      BY <2>2, <2>6 DEF poolVars, queueVars
    <3> QED
      BY <1>t, <3>1, <3>2, <3>3, MovesRight
  <2> QED
    BY <1>7, <2>4, <2>5, <2>6 DEF putconn, putconn_locked
<1>8. CASE reset_ends(c)
  BY <1>8, <1>t, ResetPasses
<1>9. CASE add_locked(c)
  BY <1>9, <1>t, AddLockedPasses
<1> QED
  BY <1>1, <1>2, <1>3, <1>4, <1>5, <1>6, <1>7, <1>8, <1>9
     DEF ClientStep, Request, getconn, getconn_locked, backoff_gives_up, backoff_retries

\* What a worker schedules counts if it makes a connection.
LEMMA ScheduleCounts ==
  ASSUME AsyncTypeOK
  PROVE  /\ schedule_task("shrink") => Later' = Later + 0
         /\ \A k \in {"add", "grow"} : schedule_task(k) => Later' = Later + 1
<1>1. sched \in [DelayedKinds -> Nat] /\ DelayedKinds = {"add", "grow", "shrink"}
  BY DEF AsyncTypeOK, DelayedKinds
<1>2. ASSUME schedule_task("shrink")
      PROVE  Later' = Later + 0
  BY <1>1, <1>2 DEF schedule_task, Later
<1>3. ASSUME schedule_task("add")
      PROVE  Later' = Later + 1
  BY <1>1, <1>3 DEF schedule_task, Later
<1>4. ASSUME schedule_task("grow")
      PROVE  Later' = Later + 1
  BY <1>1, <1>4 DEF schedule_task, Later
<1> QED
  BY <1>2, <1>3, <1>4

\* A worker takes a task.
LEMMA WorkerTakes ==
  ASSUME AsyncTypeOK, Hands, Jobs, Right, NEW w \in Workers, worker(w)
  PROVE  Kept
<1>t. /\ cur \in [Tasks -> Conns \cup {NoConn}] /\ w \in Tasks /\ nconns \in Int
      /\ tasks \in Seq(MaintenanceTask) /\ pool \in Seq(Conns)
  BY TaskKinds DEF AsyncTypeOK
<1>d. w \notin Clients /\ w \notin Admins
  BY AsyncTasksAssumption
<1>n. NoConn \notin Conns
  BY TaskKinds
<1>f. /\ \A l \in {"stopped", "connecting"} : Fits(w, l, NoConn)
      /\ \A x \in Conns : Fits(w, "returning", x)
  BY <1>d, <1>n DEF Fits, WorkerPlaces, Holding
<1> DEFINE tk == Head(tasks)
           x  == tk.conn
<1>0. tasks # <<>> /\ cur[w] = NoConn /\ pc[w] = "idle" /\ ~closed
  BY <1>t, NothingHeld DEF worker, At, Holding, Right
<1>1. tk \in MaintenanceTask /\ tk = tasks[1] /\ 1 \in DOMAIN tasks
  BY <1>t, <1>0
<1>2. tk.kind = "return" => x \in Conns
  BY <1>1 DEF Jobs, TaskOK
<1>3. tk \in Pending <=> tk.kind \in {"add", "return"}
  BY <1>1 DEF Pending
<1>p. Part(w, pc[w], cur[w]) = 0
  BY <1>0, PartOf
<1>u. UNCHANGED <<slot, batch>>
  BY DEF worker, queueVars, adminVars
<1>k. /\ IsFiniteSet(Given)' /\ Cardinality(Given)' = Cardinality(Given) + 0
      /\ IsFiniteSet(Pairs(Batched))'
      /\ Cardinality(Pairs(Batched))' = Cardinality(Pairs(Batched)) + 0
      /\ UNCHANGED pool => Len(pool)' = Len(pool) + 0
      /\ UNCHANGED sched => Later' = Later + 0
  BY <1>u, KeptCounts DEF Right, AllFinite
<1> HIDE DEF tk, x
<1>q. tasks' = Tail(tasks) =>
        /\ tk \in Pending => NQueued(tasks, Pending)' = NQueued(tasks, Pending) + (-1)
        /\ tk \notin Pending => NQueued(tasks, Pending)' = NQueued(tasks, Pending) + 0
  BY <1>0, TakeCounts DEF tk
<1>4. CASE tk.kind = "stop" /\ tasks' = Tail(tasks) /\ Goto(w, "stopped")
           /\ UNCHANGED <<cur, sched, pool, nconns>>
  <2>1. Goes(w, "stopped", NoConn) /\ Part(w, "stopped", NoConn) = 0
    BY <1>f, <1>t, <1>0, <1>4, PartOf, GoesKept
  <2>2. Counts(0, 0, 0, 0, 0)
    BY <1>3, <1>4, <1>k, <1>q DEF Counts
  <2>3. nconns' = nconns + (0 + 0 + 0 + 0 + 0) + Part(w, "stopped", NoConn) - Part(w, pc[w], cur[w])
    BY <1>4, <1>p, <1>t, <2>1
  <2> QED
    BY <1>t, <2>1, <2>2, <2>3, GoesRight
<1>5. CASE tk.kind = "add" /\ tasks' = Tail(tasks) /\ Goto(w, "connecting")
           /\ UNCHANGED <<cur, sched, pool, nconns>>
  <2>1. Goes(w, "connecting", NoConn) /\ Part(w, "connecting", NoConn) = 1
    BY <1>f, <1>t, <1>0, <1>5, PartOf, GoesKept
  <2>2. Counts(0, 0, -1, 0, 0)
    BY <1>3, <1>5, <1>k, <1>q DEF Counts
  <2>3. nconns' = nconns + (0 + 0 + (-1) + 0 + 0) + Part(w, "connecting", NoConn)
                  - Part(w, pc[w], cur[w])
    BY <1>5, <1>p, <1>t, <2>1
  <2> QED
    BY <1>t, <2>1, <2>2, <2>3, GoesRight
<1>6. CASE tk.kind = "return" /\ tasks' = Append(Tail(tasks), AddConnection(FALSE, FALSE))
           /\ UNCHANGED <<pc, cur, sched, pool, nconns>>
  <2>1. AddConnection(FALSE, FALSE) \in MaintenanceTask /\ AddConnection(FALSE, FALSE) \in Pending
    BY NewTasks, PendingTasks
  <2>2. NQueued(tasks, Pending)' = NQueued(tasks, Pending) + 0
    BY <1>0, <1>3, <1>6, <2>1, SwapCounts DEF tk
  <2>3. Counts(0, 0, 0, 0, 0)
    BY <1>6, <1>k, <2>2 DEF Counts
  <2>4. nconns' = nconns + (0 + 0 + 0 + 0 + 0)
    BY <1>6, <1>t
  <2> QED
    BY <1>6, <2>3, <2>4, StaysRight
<1>7. CASE tk.kind = "return" /\ tasks' = Tail(tasks) /\ Goto(w, "returning") /\ Hold(w, x)
           /\ UNCHANGED <<sched, pool, nconns>>
  <2>1. Goes(w, "returning", x) /\ Part(w, "returning", x) = 1
    BY <1>f, <1>2, <1>7, PartOf DEF Goes, Goto, Hold
  <2>2. Counts(0, 0, -1, 0, 0)
    BY <1>3, <1>7, <1>k, <1>q DEF Counts
  <2>3. nconns' = nconns + (0 + 0 + (-1) + 0 + 0) + Part(w, "returning", x) - Part(w, pc[w], cur[w])
    BY <1>7, <1>p, <1>t, <2>1
  <2> QED
    BY <1>t, <2>1, <2>2, <2>3, GoesRight
<1>8. CASE tk.kind = "shrink" /\ tasks' = Tail(tasks) /\ schedule_task("shrink") /\ _shrink_pool
           /\ UNCHANGED <<pc, cur>>
  <2>1. /\ NQueued(tasks, Pending)' = NQueued(tasks, Pending) + 0
        /\ Later' = Later + 0
    BY <1>3, <1>8, <1>q, ScheduleCounts
  <2>2. CASE CanShrink
    <3>1. pool # <<>> /\ pool' = Tail(pool) /\ nconns' = nconns - 1
      BY <1>8, <2>2 DEF _shrink_pool, CanShrink
    <3>2. Len(pool)' = Len(pool) + (-1)
      BY <1>t, <3>1, PoolHead
    <3>3. Counts(-1, 0, 0, 0, 0)
      BY <1>k, <2>1, <3>2 DEF Counts
    <3>4. nconns' = nconns + ((-1) + 0 + 0 + 0 + 0)
      BY <1>t, <3>1
    <3> QED
      BY <1>8, <3>3, <3>4, StaysRight
  <2>3. CASE ~CanShrink
    <3>1. UNCHANGED <<pool, nconns>>
      BY <1>8, <2>3 DEF _shrink_pool
    <3>2. Counts(0, 0, 0, 0, 0)
      BY <1>k, <2>1, <3>1 DEF Counts
    <3>3. nconns' = nconns + (0 + 0 + 0 + 0 + 0)
      BY <1>t, <3>1
    <3> QED
      BY <1>8, <3>2, <3>3, StaysRight
  <2> QED
    BY <2>2, <2>3
<1>9. CASE tk.kind = "schedule" /\ tasks' = Tail(tasks) /\ schedule_task("shrink")
           /\ UNCHANGED <<pc, cur, pool, nconns>>
  <2>1. Counts(0, 0, 0, 0, 0)
    BY <1>3, <1>9, <1>k, <1>q, ScheduleCounts DEF Counts
  <2>2. nconns' = nconns + (0 + 0 + 0 + 0 + 0)
    BY <1>9, <1>t
  <2> QED
    BY <1>9, <2>1, <2>2, StaysRight
<1> QED
  BY <1>0, <1>4, <1>5, <1>6, <1>7, <1>8, <1>9 DEF worker, tk, x

\* A connection is made.
LEMMA AddConnectionCounts ==
  ASSUME AsyncTypeOK, Hands, Jobs, Queue, Right, NEW w \in Workers, _add_connection(w)
  PROVE  Kept
<1>t. w \in Tasks /\ nconns \in Int /\ w \in Clients \cup Workers
  BY TaskKinds DEF AsyncTypeOK
<1>0. cur[w] = NoConn /\ pc[w] = "connecting"
  BY <1>t, NothingHeld DEF _add_connection, At, Holding
<1>p. Part(w, pc[w], cur[w]) = 1 /\ Part(w, "idle", NoConn) = 0
  BY <1>0, PartOf
<1>u. UNCHANGED <<sched, batch>>
  BY DEF _add_connection, adminVars
<1>1. PICK x \in Conns :
         \/ AddOrQueue(w, x) /\ UNCHANGED tasks
         \/ /\ job[w].growing /\ Add(x) /\ Goto(w, "idle") /\ UNCHANGED cur
            /\ IF KeepGrowing THEN /\ nconns' = nconns + 1
                                   /\ run_task(AddConnection(TRUE, FALSE))
                              ELSE UNCHANGED <<nconns, tasks>>
  BY DEF _add_connection
<1>2. CASE AddOrQueue(w, x) /\ UNCHANGED tasks
  <2>1. Passes(w)
    BY <1>2, <1>t, AddOrQueuePasses
  <2> QED
    BY <1>p, <1>t, <1>u, <2>1, PassCounts
<1>3. CASE /\ job[w].growing /\ Add(x) /\ Goto(w, "idle") /\ UNCHANGED cur
           /\ IF KeepGrowing THEN /\ nconns' = nconns + 1
                                  /\ run_task(AddConnection(TRUE, FALSE))
                             ELSE UNCHANGED <<nconns, tasks>>
  <2>1. kind = "pool"
    BY <1>3 DEF Jobs
  <2>2. PICK a \in Int, g \in Int : Adds(a, g)
    BY <1>3, AddCounts DEF Right, AllFinite
  <2>3. a + g = 1
    BY <2>1, <2>2 DEF Adds
  <2>4. \E q \in Int : /\ NQueued(tasks, Pending)' = NQueued(tasks, Pending) + q
                       /\ nconns' = nconns + q
    <3>1. CASE KeepGrowing
      <4>1. /\ AddConnection(TRUE, FALSE) \in MaintenanceTask
            /\ AddConnection(TRUE, FALSE) \in Pending
        BY NewTasks, PendingTasks
      <4>2. NQueued(tasks, Pending)' = NQueued(tasks, Pending) + 1
        BY <1>3, <3>1, <4>1, RunCounts DEF Right
      <4> QED
        BY <1>3, <3>1, <4>2
    <3>2. CASE ~KeepGrowing
      <4>1. NQueued(tasks, Pending)' = NQueued(tasks, Pending) + 0
        BY <1>3, <3>2, KeptCounts DEF Right, AllFinite
      <4>2. nconns' = nconns + 0
        BY <1>3, <1>t, <3>2
      <4> QED
        BY <4>1, <4>2
    <3> QED
      BY <3>1, <3>2
  <2>5. PICK q \in Int : /\ NQueued(tasks, Pending)' = NQueued(tasks, Pending) + q
                         /\ nconns' = nconns + q
    BY <2>4
  <2>6. Goes(w, "idle", NoConn)
    <3>1. Fits(w, "idle", NoConn)
      BY AsyncTasksAssumption, TaskKinds DEF Fits, WorkerPlaces, Holding
    <3> QED
      BY <1>0, <1>3, <1>t, <3>1, GoesKept
  <2>7. nconns' = nconns + (a + g + q) + Part(w, "idle", NoConn) - 1
    <3>1. nconns' = nconns + (1 + q) + 0 - 1
      BY <1>t, <2>5
    <3> QED
      BY <1>p, <2>3, <3>1
  <2>8. Passing(w, a, g, q, "idle", NoConn)
    BY <2>2, <2>5, <2>6, <2>7 DEF Adds, Passing
  <2>9. Passes(w)
    BY <2>8 DEF Passes
  <2> QED
    BY <1>p, <1>t, <1>u, <2>9, PassCounts
<1> QED
  BY <1>1, <1>2, <1>3

\* It cannot be made.
LEMMA ConnectFailsCounts ==
  ASSUME AsyncTypeOK, Hands, Right, NEW w \in Workers, _connect_fails(w) \/ give_up_locked(w)
  PROVE  Kept
<1>t. w \in Tasks /\ nconns \in Int
  BY TaskKinds DEF AsyncTypeOK
<1>0. cur[w] = NoConn /\ pc[w] \in {"connecting", "giveup"}
  BY <1>t, NothingHeld DEF _connect_fails, give_up_locked, At, Holding
<1>p. /\ Part(w, pc[w], cur[w]) = 1 /\ Part(w, "idle", NoConn) = 0
      /\ Part(w, "giveup", NoConn) = 1
  BY <1>0, PartOf
<1>f. Fits(w, "idle", NoConn) /\ Fits(w, "giveup", NoConn)
  BY AsyncTasksAssumption, TaskKinds DEF Fits, WorkerPlaces, Holding
<1>u. UNCHANGED <<pool, tasks, slot, batch, cur>>
  BY DEF _connect_fails, give_up_locked, poolVars, queueVars, adminVars, taskVars
<1>k. /\ IsFiniteSet(Given)' /\ Cardinality(Given)' = Cardinality(Given) + 0
      /\ IsFiniteSet(Pairs(Batched))'
      /\ Cardinality(Pairs(Batched))' = Cardinality(Pairs(Batched)) + 0
      /\ Len(pool)' = Len(pool) + 0
      /\ NQueued(tasks, Pending)' = NQueued(tasks, Pending) + 0
      /\ UNCHANGED sched => Later' = Later + 0
  BY <1>u, KeptCounts DEF Right, AllFinite
<1>g. \A l \in {"idle", "giveup"} : Goto(w, l) => Goes(w, l, NoConn)
  BY <1>0, <1>f, <1>t, <1>u, GoesKept
<1>1. CASE /\ \E k \in {"add", "grow"} : schedule_task(k)
           /\ Goto(w, "idle") /\ UNCHANGED nconns
  <2>1. Later' = Later + 1
    BY <1>1, ScheduleCounts
  <2>2. Counts(0, 0, 0, 1, 0)
    BY <1>k, <2>1 DEF Counts
  <2>3. nconns' = nconns + (0 + 0 + 0 + 1 + 0) + Part(w, "idle", NoConn) - Part(w, pc[w], cur[w])
    BY <1>1, <1>p, <1>t
  <2> QED
    BY <1>1, <1>g, <1>t, <2>2, <2>3, GoesRight
<1>2. CASE nconns' = nconns - 1 /\ Goto(w, "idle") /\ UNCHANGED sched
  <2>1. Counts(0, 0, 0, 0, 0)
    BY <1>2, <1>k DEF Counts
  <2>2. nconns' = nconns + (0 + 0 + 0 + 0 + 0) + Part(w, "idle", NoConn) - Part(w, pc[w], cur[w])
    BY <1>2, <1>p, <1>t
  <2>3. Goes(w, "idle", NoConn)
    BY <1>2, <1>g
  <2> QED
    BY <1>t, <2>1, <2>2, <2>3, GoesRight
<1>3. CASE Goto(w, "giveup") /\ UNCHANGED <<nconns, sched>>
  <2>1. Goes(w, "giveup", NoConn) /\ Part(w, "giveup", NoConn) = Part(w, pc[w], cur[w])
    BY <1>3, <1>g, <1>p
  <2> QED
    BY <1>3, <1>t, <1>u, <2>1, MovesRight
<1>4. schedule_task(IF job[w].growing THEN "grow" ELSE "add")
        => \E k \in {"add", "grow"} : schedule_task(k)
  OBVIOUS
<1> QED
  BY <1>1, <1>2, <1>3, <1>4 DEF _connect_fails, give_up_locked, taskVars

\* Every step of a worker counts right.
LEMMA WorkerCounts ==
  ASSUME AsyncTypeOK, Hands, Jobs, Queue, Right, NEW w \in Workers, WorkerStep(w)
  PROVE  Kept
<1>1. w \in Clients \cup Workers
  OBVIOUS
<1> QED
  BY <1>1, WorkerTakes, AddConnectionCounts, ConnectFailsCounts, ResetPasses, AddLockedPasses
     DEF WorkerStep, Work

\* The list of an administrator is taken up one by one.
LEMMA CheckNextCounts ==
  ASSUME AsyncTypeOK, Hands, Batches, Jobs, Queue, Right, NEW a \in Admins, check_next(a)
  PROVE  Kept
<1>t. /\ a \in Tasks /\ nconns \in Int /\ batch \in [Admins -> Seq(Conns)]
  BY TaskKinds DEF AsyncTypeOK
<1>d. a \notin Clients /\ a \notin Workers
  BY AsyncTasksAssumption
<1> DEFINE n == Len(batch[a])
           x == batch[a][n]
           rest == SubSeq(batch[a], 1, n - 1)
<1>0. /\ batch[a] \in Seq(Conns) /\ batch[a] # <<>> /\ kind = "pool"
      /\ pc[a] = "check_next" /\ cur[a] = NoConn
  BY <1>t, NothingHeld DEF check_next, At, Batches, Holding
<1>1. x \in Conns /\ rest \in Seq(Conns) /\ Len(rest) = n - 1 /\ n \in Nat
  BY <1>0
<1>2. /\ batch' = [batch EXCEPT ![a] = rest]
      /\ Goto(a, "start") \/ Goto(a, "check_next")
      /\ \/ run_task(AddConnection(FALSE, FALSE)) /\ UNCHANGED <<poolVars, queueVars>>
         \/ Add(x) /\ UNCHANGED tasks
      /\ UNCHANGED <<countVars, sched, cur>>
  BY DEF check_next
<1>3. PICK l \in {"start", "check_next"} : Goto(a, l)
  BY <1>2
<1>4. Goes(a, l, NoConn)
  <2>1. Fits(a, l, NoConn)
    BY <1>d, TaskKinds DEF Fits, AdminPlaces, Holding
  <2> QED
    BY <1>0, <1>2, <1>3, <1>t, <2>1, GoesKept
<1>p. Part(a, l, NoConn) = 0 /\ Part(a, pc[a], cur[a]) = 0
  BY <1>0, <1>d, PartOf
<1>5. /\ IsFiniteSet(Pairs(Batched))'
      /\ Cardinality(Pairs(Batched))' = Cardinality(Pairs(Batched)) + (-1)
  <2> HIDE DEF rest
  <2>1. /\ IsFiniteSet(Pairs(Batched))'
        /\ Cardinality(Pairs(Batched))' = Cardinality(Pairs(Batched)) + (Len(rest) - n)
    BY <1>1, <1>2, BatchCounts DEF Right, AllFinite
  <2>2. Len(rest) - n = -1
    BY <1>1
  <2> QED
    BY <2>1, <2>2
<1> HIDE DEF n, x, rest
<1>6. nconns' = nconns /\ Later' = Later + 0
  BY <1>2, KeptCounts DEF countVars, Right, AllFinite
<1>7. CASE run_task(AddConnection(FALSE, FALSE)) /\ UNCHANGED <<poolVars, queueVars>>
  <2>1. AddConnection(FALSE, FALSE) \in MaintenanceTask /\ AddConnection(FALSE, FALSE) \in Pending
    BY NewTasks, PendingTasks
  <2>2. NQueued(tasks, Pending)' = NQueued(tasks, Pending) + 1
    BY <1>7, <2>1, RunCounts DEF Right
  <2>3. /\ Len(pool)' = Len(pool) + 0
        /\ IsFiniteSet(Given)' /\ Cardinality(Given)' = Cardinality(Given) + 0
    BY <1>7, KeptCounts DEF poolVars, queueVars, Right, AllFinite
  <2>4. Counts(0, 0, 1, 0, -1)
    BY <1>5, <1>6, <2>2, <2>3 DEF Counts
  <2>5. nconns' = nconns + (0 + 0 + 1 + 0 + (-1)) + Part(a, l, NoConn) - Part(a, pc[a], cur[a])
    BY <1>6, <1>p, <1>t
  <2> QED
    BY <1>4, <1>t, <2>4, <2>5, GoesRight
<1>8. CASE Add(x) /\ UNCHANGED tasks
  <2>1. PICK m \in Int, g \in Int : Adds(m, g)
    BY <1>1, <1>8, AddCounts DEF Right, AllFinite
  <2>2. m + g = 1
    BY <1>0, <2>1 DEF Adds
  <2>3. NQueued(tasks, Pending)' = NQueued(tasks, Pending) + 0
    BY <1>8, KeptCounts DEF Right, AllFinite
  <2>4. Counts(m, g, 0, 0, -1)
    BY <1>5, <1>6, <2>1, <2>3 DEF Adds, Counts
  <2>5. m + g + 0 + 0 + (-1) = 0
    BY <2>2
  <2>6. nconns' = nconns + (m + g + 0 + 0 + (-1)) + Part(a, l, NoConn) - Part(a, pc[a], cur[a])
    BY <1>6, <1>p, <1>t, <2>5
  <2> QED
    BY <1>4, <1>t, <2>4, <2>6, GoesRight
<1> QED
  BY <1>2, <1>7, <1>8

\* Every connection of the pool is taken to be checked.
LEMMA CheckCounts ==
  ASSUME AsyncTypeOK, Hands, Batches, Right, NEW a \in Admins, check(a)
  PROVE  Kept
<1>t. /\ a \in Tasks /\ nconns \in Int /\ batch \in [Admins -> Seq(Conns)] /\ pool \in Seq(Conns)
  BY TaskKinds DEF AsyncTypeOK
<1>d. a \notin Clients /\ a \notin Workers
  BY AsyncTasksAssumption
<1>0. pc[a] = "start" /\ cur[a] = NoConn /\ batch[a] = <<>>
  BY <1>t, NothingHeld DEF check, At, Batches, Holding
<1>1. /\ batch' = [batch EXCEPT ![a] = pool] /\ pool' = <<>> /\ _maybe_grow_pool
      /\ Goto(a, "start") \/ Goto(a, "check_next")
      /\ UNCHANGED <<sched, queueVars, cur>>
  BY DEF check
<1>2. PICK l \in {"start", "check_next"} : Goto(a, l)
  BY <1>1
<1>3. Goes(a, l, NoConn)
  <2>1. Fits(a, l, NoConn)
    BY <1>d, TaskKinds DEF Fits, AdminPlaces, Holding
  <2> QED
    BY <1>0, <1>1, <1>2, <1>t, <2>1, GoesKept
<1>p. Part(a, l, NoConn) = 0 /\ Part(a, pc[a], cur[a]) = 0
  BY <1>0, <1>d, PartOf
<1>4. PICK m \in Nat : m = Len(pool)
  BY <1>t
<1>5. /\ IsFiniteSet(Pairs(Batched))'
      /\ Cardinality(Pairs(Batched))' = Cardinality(Pairs(Batched)) + m
  <2>1. /\ IsFiniteSet(Pairs(Batched))'
        /\ Cardinality(Pairs(Batched))'
             = Cardinality(Pairs(Batched)) + (Len(pool) - Len(batch[a]))
    BY <1>1, <1>t, BatchCounts DEF Right, AllFinite
  <2>2. Len(pool) - Len(batch[a]) = m
    BY <1>0, <1>4
  <2> QED
    BY <2>1, <2>2
<1>6. Len(pool)' = Len(pool) + (-m)
  BY <1>1, <1>4
<1>7. /\ Later' = Later + 0
      /\ IsFiniteSet(Given)' /\ Cardinality(Given)' = Cardinality(Given) + 0
  BY <1>1, KeptCounts DEF queueVars, Right, AllFinite
<1>8. PICK q \in Int : /\ NQueued(tasks, Pending)' = NQueued(tasks, Pending) + q
                       /\ nconns' = nconns + q
  BY <1>1, GrowCounts
<1>9. Counts(-m, 0, q, 0, m)
  BY <1>5, <1>6, <1>7, <1>8 DEF Counts
<1>10. (-m) + 0 + q + 0 + m = q /\ -m \in Int
  OBVIOUS
<1>11. nconns' = nconns + ((-m) + 0 + q + 0 + m) + Part(a, l, NoConn) - Part(a, pc[a], cur[a])
  BY <1>8, <1>10, <1>p, <1>t
<1> QED
  BY <1>3, <1>9, <1>10, <1>11, <1>t, GoesRight

\* Every step of an administrator counts right, until the pool is closed.
LEMMA AdminCounts ==
  ASSUME AsyncTypeOK, Hands, Batches, Jobs, Queue, Right, NEW a \in Admins, AdminStep(a), ~closed'
  PROVE  Kept
<1>t. a \in Tasks
  BY TaskKinds
<1>d. a \notin Clients /\ a \notin Workers
  BY AsyncTasksAssumption
<1>0. pc[a] \in AdminPlaces /\ cur[a] = NoConn
  <2>1. pc[a] \in AdminPlaces /\ pc[a] \notin Holding
    BY DEF Hands, AdminPlaces, Holding
  <2> QED
    BY <1>t, <2>1, NothingHeld
<1>p. \A l : Part(a, l, NoConn) = 0
  BY <1>d, PartOf
<1>f. \A l \in AdminPlaces : Fits(a, l, NoConn)
  BY <1>d, TaskKinds DEF Fits, AdminPlaces, Holding
<1>1. CASE close(a) \/ close_locked(a) \/ wait_timeout(a)
  <2>1. \E l \in {"closing", "done"} : MoveTo(a, l)
    BY <1>1 DEF close, close_locked, wait_timeout, CloseOrQueue, Close
  <2>2. PICK l \in {"closing", "done"} : MoveTo(a, l)
    BY <2>1
  <2>3. Fits(a, l, cur[a]) /\ Part(a, l, cur[a]) = Part(a, pc[a], cur[a])
    BY <1>0, <1>f, <1>p DEF AdminPlaces
  <2> QED
    BY <1>t, <2>2, <2>3, MoveToCounts
<1>2. ~close_ends(a)
  BY DEF close_ends, At, Batches, Right
<1>3. CASE wait(a) \/ wait_ends(a)
  <2>1. \E l \in {"done", "await_full"} : Goto(a, l)
    BY <1>3 DEF wait, wait_ends
  <2>2. PICK l \in {"done", "await_full"} : Goto(a, l)
    BY <2>1
  <2>3. UNCHANGED cur
    BY <1>3 DEF wait, wait_ends
  <2>4. UNCHANGED <<pool, slot, tasks, sched, batch, nconns>>
    <3>1. CASE wait(a)
      <4>1. kind # "null"
        BY <3>1 DEF wait, Right, Counted
      <4> QED
        BY <3>1, <4>1 DEF wait, countVars, queueVars, adminVars
    <3>2. CASE wait_ends(a)
      BY <3>2 DEF wait_ends, countVars, queueVars, taskVars, adminVars
    <3> QED
      BY <1>3, <3>1, <3>2
  <2>5. Goes(a, l, NoConn)
    BY <1>0, <1>f, <1>t, <2>2, <2>3, GoesKept DEF AdminPlaces
  <2>6. Part(a, l, NoConn) = Part(a, pc[a], cur[a])
    BY <1>0, <1>p
  <2> QED
    BY <1>t, <2>4, <2>5, <2>6, MovesRight
<1>4. CASE check(a)
  BY <1>4, CheckCounts
<1>5. CASE check_next(a)
  BY <1>5, CheckNextCounts
<1> QED
  BY <1>1, <1>2, <1>3, <1>4, <1>5 DEF AdminStep, Administer

\* A delayed task that is due is queued: it counts as before.
LEMMA DueRight ==
  ASSUME AsyncTypeOK, Right, UNCHANGED <<nconns, pc, cur>>,
         Len(pool)' = Len(pool) + 0,
         IsFiniteSet(Given)', Cardinality(Given)' = Cardinality(Given) + 0,
         NQueued(tasks, Pending)' = NQueued(tasks, Pending) + 1, Later' = Later + (-1),
         IsFiniteSet(Pairs(Batched))',
         Cardinality(Pairs(Batched))' = Cardinality(Pairs(Batched)) + 0
  PROVE  Kept
<1>r. AllFinite /\ nconns = OnHand + InHands
  BY DEF Right
<1>1. IsFiniteSet(Holders)' /\ InHands' = InHands
  BY <1>r, InHandsKept DEF AllFinite
<1>2. /\ Len(pool) \in Nat /\ Cardinality(Given) \in Nat /\ NQueued(tasks, Pending) \in Nat
      /\ Later \in Nat /\ Cardinality(Pairs(Batched)) \in Nat
  BY <1>r, OnHandType DEF AllFinite
<1>3. PICK l \in Int, v \in Int, n \in Int, s \in Int, p \in Int :
        /\ l = Len(pool) /\ v = Cardinality(Given) /\ n = NQueued(tasks, Pending)
        /\ s = Later /\ p = Cardinality(Pairs(Batched))
  BY <1>2
<1>4. OnHand = l + v + n + s + p
  BY <1>3 DEF OnHand
<1>5. OnHand' = (l + 0) + (v + 0) + (n + 1) + (s + (-1)) + (p + 0)
  BY <1>3 DEF OnHand
<1>6. (l + 0) + (v + 0) + (n + 1) + (s + (-1)) + (p + 0) = l + v + n + s + p
  OBVIOUS
<1>7. OnHand' = OnHand
  BY <1>4, <1>5, <1>6
<1> QED
  BY <1>r, <1>1, <1>7 DEF Kept, AllFinite

\* So do the steps of the scheduler, and a resize.
LEMMA OtherCounts ==
  ASSUME AsyncTypeOK, Right,
         \/ \E k \in DelayedKinds : tick(k)
         \/ \E z \in setup.sizes : resize(z)
         \/ UNCHANGED vars
  PROVE  Kept
<1>t. /\ nconns \in Int /\ tasks \in Seq(MaintenanceTask) /\ min_size \in Nat
      /\ sched \in [DelayedKinds -> Nat] /\ setup \in Setups
  BY DEF AsyncTypeOK
<1>1. ASSUME NEW k \in DelayedKinds, tick(k)
      PROVE  Kept
  <2>1. Delayed(k) \in MaintenanceTask /\ (Delayed(k) \in Pending <=> k # "shrink")
    BY DelayedTasks, PendingTasks
  <2>2. run_task(Delayed(k)) /\ sched' = [sched EXCEPT ![k] = @ - 1]
    BY <1>1 DEF tick, Right
  <2>3. UNCHANGED <<pc, cur>> /\ UNCHANGED <<pool, slot, batch, nconns>>
    BY <1>1 DEF tick, countVars, poolVars, queueVars, adminVars
  <2>4. /\ Len(pool)' = Len(pool) + 0
        /\ IsFiniteSet(Given)' /\ Cardinality(Given)' = Cardinality(Given) + 0
        /\ IsFiniteSet(Pairs(Batched))'
        /\ Cardinality(Pairs(Batched))' = Cardinality(Pairs(Batched)) + 0
    BY <2>3, KeptCounts DEF Right, AllFinite
  <2>5. CASE k = "shrink"
    <3>1. Later' = Later + 0
      BY <1>t, <2>2, <2>5 DEF Later, DelayedKinds
    <3>2. NQueued(tasks, Pending)' = NQueued(tasks, Pending) + 0
      BY <2>1, <2>2, <2>5, RunCounts DEF Right
    <3>3. Counts(0, 0, 0, 0, 0)
      BY <2>4, <3>1, <3>2 DEF Counts
    <3>4. nconns' = nconns + (0 + 0 + 0 + 0 + 0)
      BY <1>t, <2>3
    <3> QED
      BY <2>3, <3>3, <3>4, StaysRight
  <2>6. CASE k # "shrink"
    <3>1. Later' = Later + (-1)
      <4>1. CASE k = "add"
        BY <1>t, <2>2, <4>1 DEF Later, DelayedKinds
      <4>2. CASE k = "grow"
        BY <1>t, <2>2, <4>2 DEF Later, DelayedKinds
      <4> QED
        BY <1>1, <2>6, <4>1, <4>2 DEF DelayedKinds
    <3>2. NQueued(tasks, Pending)' = NQueued(tasks, Pending) + 1
      BY <2>1, <2>2, <2>6, RunCounts DEF Right
    <3> QED
      BY <2>3, <2>4, <3>1, <3>2, DueRight
  <2> QED
    BY <2>5, <2>6
<1>2. ASSUME NEW z \in setup.sizes, resize(z)
      PROVE  Kept
  <2>1. z[1] \in Nat
    BY <1>2, <1>t, AsyncConstantsAssumption
  <2>2. PICK n \in Nat : n = IF z[1] > min_size THEN z[1] - min_size ELSE 0
    BY <1>t, <2>1
  <2>3. /\ nconns' = nconns + n
        /\ tasks' = tasks \o [i \in 1..n |-> AddConnection(FALSE, FALSE)]
        /\ UNCHANGED <<poolVars, sched, queueVars, pc, cur, adminVars>>
    BY <1>2, <2>2 DEF resize
  <2>4. AddConnection(FALSE, FALSE) \in MaintenanceTask /\ AddConnection(FALSE, FALSE) \in Pending
    BY NewTasks, PendingTasks
  <2>5. NQueued(tasks, Pending)' = NQueued(tasks, Pending) + n
    <3>1. NQueued(tasks, Pending)'
            = NQueued(tasks \o [i \in 1..n |-> AddConnection(FALSE, FALSE)], Pending)
      BY <2>3 DEF NQueued
    <3> QED
      BY <1>t, <2>4, <3>1, CopiesCount
  <2>6. /\ Len(pool)' = Len(pool) + 0 /\ Later' = Later + 0
        /\ IsFiniteSet(Given)' /\ Cardinality(Given)' = Cardinality(Given) + 0
        /\ IsFiniteSet(Pairs(Batched))'
        /\ Cardinality(Pairs(Batched))' = Cardinality(Pairs(Batched)) + 0
    BY <2>3, KeptCounts DEF poolVars, queueVars, adminVars, Right, AllFinite
  <2>7. PICK q \in Int : q = n
    OBVIOUS
  <2>8. Counts(0, 0, q, 0, 0)
    BY <2>5, <2>6, <2>7 DEF Counts
  <2>9. nconns' = nconns + (0 + 0 + q + 0 + 0) /\ UNCHANGED <<pc, cur>>
    BY <1>t, <2>3, <2>7
  <2> QED
    BY <2>8, <2>9, StaysRight
<1>3. CASE UNCHANGED vars
  <2>1. Counts(0, 0, 0, 0, 0)
    BY <1>3, KeptCounts DEF vars, Right, AllFinite, Counts
  <2>2. nconns' = nconns + (0 + 0 + 0 + 0 + 0) /\ UNCHANGED <<pc, cur>>
    BY <1>3, <1>t DEF vars
  <2> QED
    BY <2>1, <2>2, StaysRight
<1> QED
  BY <1>1, <1>2, <1>3

\* No task is cancelled while it holds a connection, or goes through the list of check().
NoneLost == Cancels \cap (Holding \cup {"check_next"}) = {}

\* A cancellation elsewhere moves nothing.
LEMMA CancelCounts ==
  ASSUME NoneLost, AsyncTypeOK, Hands, Batches, Right, NEW t \in Clients \cup Admins, cancel(t)
  PROVE  Kept
<1>t. /\ t \in Tasks /\ pc \in [Tasks -> Labels] /\ batch \in [Admins -> Seq(Conns)]
  BY TaskKinds DEF AsyncTypeOK
<1>d. t \notin Workers
  BY AsyncTasksAssumption
<1>1. pc[t] \notin Holding /\ pc[t] # "check_next"
  BY DEF cancel, NoneLost
<1>2. cur[t] = NoConn
  BY <1>1, <1>t, NothingHeld
<1>3. t \in Admins => batch[t] = <<>>
  BY <1>1 DEF Batches, Right
<1>4. batch' = batch
  <2>1. batch' = [a \in Admins |-> IF a = t THEN <<>> ELSE batch[a]]
    BY DEF cancel
  <2> QED
    BY <1>3, <1>t, <2>1
<1>5. UNCHANGED <<pool, slot, tasks, sched, batch, nconns>>
  BY <1>4 DEF cancel, poolVars, taskVars, countVars
<1>6. PICK l : Goes(t, l, NoConn)
  <2>1. Fits(t, IF t \in Clients THEN "idle" ELSE "done", NoConn)
    BY AsyncTasksAssumption, TaskKinds DEF Fits, ClientPlaces, AdminPlaces, Holding
  <2>2. Goes(t, IF t \in Clients THEN "idle" ELSE "done", NoConn)
    BY <2>1 DEF cancel, Goes, Hold, Goto
  <2> QED
    BY <2>2
<1>7. Part(t, l, NoConn) = Part(t, pc[t], cur[t])
  BY <1>2, <1>d, PartOf
<1> QED
  BY <1>5, <1>6, <1>7, <1>t, MovesRight

\* The initial tasks make as many connections as are counted.
LEMMA InitialCount ==
  ASSUME AsyncTypeOK, Unopened, ~opened
  PROVE  NQueued(InitialTasks, Pending) = nconns
<1>1. nconns = min_size /\ min_size \in Nat /\ (kind = "null" => min_size = 0)
  BY DEF AsyncTypeOK, Unopened
<1>2. <<>> \in Seq(MaintenanceTask) /\ NQueued(<<>>, Pending) = 0
  <2>1. {i \in DOMAIN <<>> : <<>>[i] \in Pending} = {}
    OBVIOUS
  <2> QED
    BY <2>1, FS_EmptySet DEF NQueued
<1>3. CASE kind = "null"
  BY <1>1, <1>2, <1>3 DEF InitialTasks
<1>4. CASE kind # "null"
  <2> DEFINE f == [i \in 1..nconns |-> AddConnection(FALSE, FALSE)]
             e == Simple("schedule")
  <2>1. /\ AddConnection(FALSE, FALSE) \in MaintenanceTask /\ AddConnection(FALSE, FALSE) \in Pending
        /\ e \in MaintenanceTask /\ e \notin Pending
    BY NewTasks, PendingTasks
  <2>2. f \in [1..nconns -> MaintenanceTask]
    BY <2>1
  <2>3. f \in Seq(MaintenanceTask)
    BY <1>1, <2>2, FunctionIsSeq
  <2>4. NQueued(<<>> \o f, Pending) = NQueued(<<>>, Pending) + nconns
    BY <1>1, <1>2, <2>1, CopiesCount
  <2>5. InitialTasks = f \o <<e>>
    BY <1>4 DEF InitialTasks
  <2> HIDE DEF f, e
  <2>6. <<>> \o f = f /\ f \o <<e>> = Append(f, e)
    BY <2>1, <2>3
  <2>7. NQueued(f, Pending) = nconns
    BY <1>1, <1>2, <2>4, <2>6
  <2> QED
    BY <2>1, <2>3, <2>5, <2>6, <2>7, QueuedAppend
<1> QED
  BY <1>3, <1>4

\* open() starts with the right count.
LEMMA OpenCounts ==
  ASSUME AsyncTypeOK, Unopened, open
  PROVE  Kept
<1>t. /\ pc \in [Tasks -> Labels] /\ Workers \subseteq Tasks /\ nconns \in Int
  BY TaskKinds DEF AsyncTypeOK
<1>u. /\ pool = <<>> /\ sched = [k \in DelayedKinds |-> 0]
      /\ slot = [c \in Clients |-> NoConn] /\ cur = [t \in Tasks |-> NoConn]
      /\ batch = [a \in Admins |-> <<>>]
  BY DEF open, Unopened
<1>1. /\ pool' = <<>> /\ sched' = [k \in DelayedKinds |-> 0]
      /\ slot' = [c \in Clients |-> NoConn] /\ cur' = [t \in Tasks |-> NoConn]
      /\ batch' = [a \in Admins |-> <<>>] /\ nconns' = nconns /\ tasks' = InitialTasks
      /\ \A w \in Workers : pc'[w] = "idle"
  BY <1>t, <1>u DEF open, poolVars, queueVars, adminVars, countVars
<1>2. IsFiniteSet({}) /\ Cardinality({}) = 0
  BY FS_EmptySet
<1>3. Holders' = {} /\ Connecting' = {} /\ Given' = {}
  BY <1>1, TaskKinds DEF Holders, Connecting, Given
<1>4. Pairs(Batched)' = {}
  <2>1. \A a \in Admins : Batched'[a] = 0
    BY <1>1 DEF Batched
  <2> QED
    BY <2>1 DEF Pairs
<1>5. Later' = 0 /\ Len(pool)' = 0
  BY <1>1 DEF Later, DelayedKinds
<1>6. NQueued(tasks, Pending)' = nconns
  <2>1. NQueued(tasks, Pending)' = NQueued(InitialTasks, Pending)
    BY <1>1 DEF NQueued
  <2> QED
    BY <2>1, InitialCount DEF open
<1>7. InHands' = 0
  BY <1>2, <1>3 DEF InHands
<1>8. OnHand' = 0 + 0 + nconns + 0 + 0
  BY <1>2, <1>3, <1>4, <1>5, <1>6 DEF OnHand
<1>9. AllFinite'
  BY <1>2, <1>3, <1>4 DEF AllFinite
<1>10. nconns' = OnHand' + InHands'
  BY <1>1, <1>7, <1>8, <1>t
<1> QED
  BY <1>9, <1>10 DEF Kept

\* Every step keeps the count.
LEMMA CountStep ==
  ASSUME NoneLost, Steady, CountInv, [Next]_vars
  PROVE  CountInv'
<1>s. AsyncTypeOK /\ Hands /\ Queue /\ Batches /\ Unopened /\ Jobs
  BY DEF Steady
<1>1. SUFFICES ASSUME opened', ~closed', Counted'
               PROVE  Kept
  BY DEF CountInv, Counting, Kept
<1>2. CASE open
  BY <1>2, <1>s, OpenCounts
<1>3. CASE ~open
  <2>1. opened /\ ~closed /\ setup' = setup
    <3>1. CASE Next
      BY <1>1, <1>3, <3>1, FlagsKept
    <3>2. CASE UNCHANGED vars
      BY <1>1, <3>2 DEF vars
    <3> QED
      BY <3>1, <3>2
  <2>2. Counted
    BY <1>1, <2>1 DEF Counted, kind
  <2>3. Right
    BY <2>1, <2>2 DEF Right, CountInv, Counting
  <2>4. ASSUME NEW c \in Clients, ClientStep(c)
        PROVE  Kept
    BY <1>s, <2>3, <2>4, ClientCounts
  <2>5. ASSUME NEW w \in Workers, WorkerStep(w)
        PROVE  Kept
    BY <1>s, <2>3, <2>5, WorkerCounts
  <2>6. ASSUME NEW a \in Admins, AdminStep(a)
        PROVE  Kept
    BY <1>1, <1>s, <2>3, <2>6, AdminCounts
  <2>7. ASSUME NEW t \in Clients \cup Admins, cancel(t)
        PROVE  Kept
    BY <1>s, <2>3, <2>7, CancelCounts
  <2>8. CASE \/ \E k \in DelayedKinds : tick(k)
             \/ \E z \in setup.sizes : resize(z)
             \/ UNCHANGED vars
    BY <1>s, <2>3, <2>8, OtherCounts
  <2> QED
    BY <1>3, <2>4, <2>5, <2>6, <2>7, <2>8 DEF Next
<1> QED
  BY <1>2, <1>3

\* The count is the one that AsyncAccounting states.
LEMMA CountIsAccounting ==
  ASSUME AsyncTypeOK, CountInv
  PROVE  AsyncAccounting
<1> SUFFICES ASSUME opened, ~closed, Counted
             PROVE  nconns = Len(pool) + Out + Preparing
  BY DEF AsyncAccounting
<1>1. IsFiniteSet(Holders) /\ IsFiniteSet(Given) /\ IsFiniteSet(Pairs(Batched))
      /\ nconns = OnHand + InHands
  BY DEF CountInv, Counting, AllFinite
<1>2. UNION {{a} \X DOMAIN batch[a] : a \in Admins} = Pairs(Batched)
  <2>1. \A a \in Admins : DOMAIN batch[a] = 1..Batched[a]
    BY DEF AsyncTypeOK, Batched
  <2> QED
    BY <2>1 DEF Pairs
<1>3. NQueued(tasks, Pending) = Cardinality({i \in DOMAIN tasks : tasks[i].kind \in {"add", "return"}})
  <2>1. \A i \in DOMAIN tasks : tasks[i] \in Pending <=> tasks[i].kind \in {"add", "return"}
    <3>1. \A i \in DOMAIN tasks : tasks[i] \in MaintenanceTask
      BY DEF AsyncTypeOK
    <3> QED
      BY <3>1 DEF Pending
  <2> QED
    BY <2>1 DEF NQueued
<1>4. /\ Len(pool) \in Int /\ Cardinality(Given) \in Int /\ NQueued(tasks, Pending) \in Int
      /\ Cardinality(Pairs(Batched)) \in Int
  BY <1>1, OnHandType
<1>5. Cardinality(Holders) \in Int /\ Cardinality(Connecting) \in Int
  <2>1. IsFiniteSet(Connecting)
    BY FS_Subset, AsyncTasksAssumption DEF Connecting
  <2>2. Cardinality(Holders) \in Nat /\ Cardinality(Connecting) \in Nat
    BY <1>1, <2>1, FS_CardinalityType
  <2> QED
    BY <2>2
<1>6. sched["add"] \in Int /\ sched["grow"] \in Int
  BY DEF AsyncTypeOK, DelayedKinds
<1>7. PICK l \in Int, g \in Int, n \in Int, p \in Int, h \in Int, k \in Int, s \in Int, r \in Int :
        /\ l = Len(pool) /\ g = Cardinality(Given) /\ n = NQueued(tasks, Pending)
        /\ p = Cardinality(Pairs(Batched)) /\ h = Cardinality(Holders)
        /\ k = Cardinality(Connecting) /\ s = sched["add"] /\ r = sched["grow"]
  BY <1>4, <1>5, <1>6
<1>8. nconns = (l + g + n + (s + r) + p) + (h + k)
  BY <1>1, <1>7 DEF OnHand, InHands, Later
<1>9. Out = h + g + p
  BY <1>2, <1>7 DEF Out, Holders, Given
<1>10. Preparing = n + s + r + k
  BY <1>3, <1>7 DEF Preparing, Connecting
<1>11. (l + g + n + (s + r) + p) + (h + k) = l + (h + g + p) + (n + s + r + k)
  OBVIOUS
<1> QED
  BY <1>7, <1>8, <1>9, <1>10, <1>11

\* _nconns counts the connections that are idle, given to clients or being prepared, for
\* every pool, however its tasks interleave and whoever is cancelled, unless the task
\* that is cancelled holds connections.
THEOREM AsyncAccountingCorrect ==
  ASSUME NoneLost
  PROVE  Spec => []AsyncAccounting
<1>1. Init => Steady /\ CountInv
  <2>1. Init => CountInv
    BY DEF Init, CountInv, Counting
  <2> QED
    BY <2>1, SteadyInit
<1>2. Steady /\ CountInv /\ [Next]_vars => (Steady /\ CountInv)'
  BY SteadyStep, CountStep
<1>3. Steady /\ CountInv => AsyncAccounting
  BY CountIsAccounting DEF Steady
<1> QED
  BY <1>1, <1>2, <1>3, PTL DEF Spec
=============================================================================
