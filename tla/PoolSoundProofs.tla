-------------------------- MODULE PoolSoundProofs --------------------------
(***************************************************************************)
(* More theorems about ConnectionPool, for any number of threads,          *)
(* connections and queue positions and any configuration of the pool.      *)
(*                                                                         *)
(*  - NoSharingCorrect: no connection has two owners (Sharing);            *)
(*  - PoolIsIdleCorrect: what is in the pool is ready to use (IdleInv);    *)
(*  - PoolSoundCorrect: the pool counts its connections right, grows by    *)
(*    one task at a time and keeps its maximum (CountInv, GrowInv,         *)
(*    SizeInv), unless a KeyboardInterrupt breaks the check callback;      *)
(*  - FullIsNotifiedCorrect: the event of wait() is set as soon as the     *)
(*    pool is full, unless resize() asks for different minimums;           *)
(*  - ServesInOrderCorrect: the pool implements PoolService, which serves  *)
(*    its clients one per connection, in the order in which they came.     *)
(*                                                                         *)
(* A step is judged by what it does to few sets: the places where a        *)
(* connection can be (Sharing), the shares of the count that each thread   *)
(* has in hand and those on hand for all (CountInv).                       *)
(***************************************************************************)
EXTENDS ConnectionPoolProofs, ConnectionPoolService

-----------------------------------------------------------------------------
(* Where a connection is                                                    *)

InDeque(x)  == \E i \in DOMAIN pool : pool[i] = x
Held(x)     == \E t \in Threads : cur[t] = x
Given(x)    == \E p \in Positions : slot[p].conn = x
Returned(x) == \E i \in DOMAIN tasks : tasks[i].conn = x
Taken(x)    == \E a \in Admins : \E i \in DOMAIN batch[a] : batch[a][i] = x

\* No connection is twice in places of one kind ...
PoolOnce  == \A i, j \in DOMAIN pool : pool[i] = pool[j] => i = j
CurOnce   == \A t, u \in Threads : cur[t] = cur[u] /\ cur[t] # NoConn => t = u
SlotOnce  == \A p, q \in Positions :
               slot[p].conn = slot[q].conn /\ slot[p].conn # NoConn => p = q
TasksOnce == \A i, j \in DOMAIN tasks :
               tasks[i].conn = tasks[j].conn /\ tasks[i].conn # NoConn => i = j
BatchOnce == \A a, b \in Admins : \A i \in DOMAIN batch[a], j \in DOMAIN batch[b] :
               batch[a][i] = batch[b][j] => a = b /\ i = j

\* ... nor in places of two kinds.
ApartAt(x) ==
  /\ InDeque(x)  => ~Held(x) /\ ~Given(x) /\ ~Returned(x) /\ ~Taken(x)
  /\ Held(x)     => ~Given(x) /\ ~Returned(x) /\ ~Taken(x)
  /\ Given(x)    => ~Returned(x) /\ ~Taken(x)
  /\ Returned(x) => ~Taken(x)
Apart == \A x \in Conns : ApartAt(x)

\* The inductive invariant, which says the same as NoSharing without counting.
Sharing == PoolOnce /\ CurOnce /\ SlotOnce /\ TasksOnce /\ BatchOnce /\ Apart

\* What a step does to the places of a kind: it may put the connections of S
\* there, and no other.
PoolGains(S)  == PoolOnce'  /\ \A y \in Conns \ S : InDeque(y)'  => InDeque(y)
CurGains(S)   == CurOnce'   /\ \A y \in Conns \ S : Held(y)'     => Held(y)
SlotGains(S)  == SlotOnce'  /\ \A y \in Conns \ S : Given(y)'    => Given(y)
TasksGains(S) == TasksOnce' /\ \A y \in Conns \ S : Returned(y)' => Returned(y)
BatchGains(S) == BatchOnce' /\ \A y \in Conns \ S : Taken(y)'    => Taken(y)
Gains(S) == /\ PoolGains(S) /\ CurGains(S) /\ SlotGains(S) /\ TasksGains(S)
            /\ BatchGains(S)

\* A step that moves the connections of S, and leaves each in one kind of place,
\* keeps the invariant.
LEMMA SharingMove ==
  ASSUME Sharing, NEW S, Gains(S), \A x \in Conns \cap S : ApartAt(x)'
  PROVE  Sharing'
<1>1. ASSUME NEW x \in Conns \ S
      PROVE  ApartAt(x)'
  <2>1. ApartAt(x)
    BY DEF Sharing, Apart
  <2>2. /\ InDeque(x)' => InDeque(x)
        /\ Held(x)' => Held(x)
        /\ Given(x)' => Given(x)
        /\ Returned(x)' => Returned(x)
        /\ Taken(x)' => Taken(x)
    BY DEF Gains, PoolGains, CurGains, SlotGains, TasksGains, BatchGains
  <2> QED
    BY <2>1, <2>2 DEF ApartAt
<1>2. Apart'
  BY <1>1 DEF Apart
<1> QED
  BY <1>2 DEF Sharing, Gains, PoolGains, CurGains, SlotGains, TasksGains, BatchGains

\* Places that a step leaves alone.
LEMMA PoolSame ==
  ASSUME Sharing, UNCHANGED pool, NEW S
  PROVE  PoolGains(S) /\ \A x : InDeque(x)' => InDeque(x)
  BY DEF Sharing, PoolGains, PoolOnce, InDeque
\* A step that leaves a kind of place alone.
LEMMA CurSame ==
  ASSUME Sharing, UNCHANGED cur, NEW S
  PROVE  CurGains(S) /\ \A x : Held(x)' => Held(x)
  BY DEF Sharing, CurGains, CurOnce, Held
\* Slots only lose connections.
LEMMA SlotSame ==
  ASSUME Sharing, NEW S,
         \A p \in Positions : slot'[p].conn = slot[p].conn \/ slot'[p].conn = NoConn
  PROVE  SlotGains(S) /\ \A x \in Conns : Given(x)' => Given(x)
<1>1. \A x \in Conns : x # NoConn
  BY ConstantsAssumption DEF NoConn
<1> QED
  BY <1>1 DEF Sharing, SlotGains, SlotOnce, Given
\* The tasks are the same.
LEMMA TasksSame ==
  ASSUME Sharing, UNCHANGED tasks, NEW S
  PROVE  TasksGains(S) /\ \A x : Returned(x)' => Returned(x)
  BY DEF Sharing, TasksGains, TasksOnce, Returned
\* The batches are the same.
LEMMA BatchSame ==
  ASSUME Sharing, UNCHANGED batch, NEW S
  PROVE  BatchGains(S) /\ \A x : Taken(x)' => Taken(x)
  BY DEF Sharing, BatchGains, BatchOnce, Taken

\* A task that carries no connection is queued.
LEMMA TasksAdd ==
  ASSUME TypeOK, Sharing, NEW S, NEW t \in Task, t.conn = NoConn, run_task(t)
  PROVE  TasksGains(S) /\ \A x \in Conns : Returned(x)' => Returned(x)
<1>1. /\ DOMAIN tasks' = 1..(Len(tasks) + 1) /\ DOMAIN tasks = 1..Len(tasks)
      /\ tasks'[Len(tasks) + 1] = t
      /\ \A i \in DOMAIN tasks : tasks'[i] = tasks[i]
  BY DEF TypeOK, run_task
<1>2. \A i \in DOMAIN tasks' : tasks'[i].conn # NoConn => i \in DOMAIN tasks
  BY <1>1
<1>3. \A x \in Conns : x # NoConn
  BY ConstantsAssumption DEF NoConn
<1>4. TasksOnce'
  BY <1>1, <1>2 DEF Sharing, TasksOnce
<1>5. \A x \in Conns : Returned(x)' => Returned(x)
  BY <1>1, <1>2, <1>3 DEF Returned
<1> QED
  BY <1>4, <1>5 DEF TasksGains

\* A thread lets its connection go.
LEMMA CurClear ==
  ASSUME TypeOK, Sharing, NEW S, NEW t \in Threads, NEW c, c = cur[t],
         cur' = [cur EXCEPT ![t] = NoConn]
  PROVE  /\ CurGains(S) /\ \A x \in Conns : Held(x)' => Held(x)
         /\ c \in Conns => Held(c) /\ ~Held(c)'
<1>1. \A x \in Conns : x # NoConn
  BY ConstantsAssumption DEF NoConn
<1>2. \A u \in Threads : cur'[u] = IF u = t THEN NoConn ELSE cur[u]
  BY DEF TypeOK
<1>3. CurOnce'
  BY <1>2 DEF Sharing, CurOnce
<1>4. \A x \in Conns : Held(x)' => Held(x)
  BY <1>1, <1>2 DEF Held
<1>5. c \in Conns => Held(c) /\ ~Held(c)'
  BY <1>1, <1>2 DEF Sharing, CurOnce, Held
<1> QED
  BY <1>3, <1>4, <1>5 DEF CurGains

\* A thread takes a connection that no thread has.
LEMMA CurTake ==
  ASSUME TypeOK, Sharing, NEW t \in Threads, NEW x, ~Held(x),
         cur' = [cur EXCEPT ![t] = x]
  PROVE  CurGains({x})
<1>1. \A u \in Threads : cur'[u] = IF u = t THEN x ELSE cur[u]
  BY DEF TypeOK
<1>2. \A u \in Threads : cur[u] # x
  BY DEF Held
<1>3. CurOnce'
  BY <1>1, <1>2 DEF Sharing, CurOnce
<1>4. \A y : y # x /\ Held(y)' => Held(y)
  BY <1>1 DEF Held
<1> QED
  BY <1>3, <1>4 DEF CurGains

\* The first idle connection leaves the pool.
LEMMA PoolPop ==
  ASSUME TypeOK, Sharing, NEW S, NEW x, x = Head(pool), pool # <<>>, pool' = Tail(pool)
  PROVE  /\ x \in Conns /\ InDeque(x) /\ ~InDeque(x)'
         /\ PoolGains(S) /\ \A y : InDeque(y)' => InDeque(y)
<1>1. /\ DOMAIN pool = 1..Len(pool) /\ 1 \in DOMAIN pool /\ pool[1] = x
      /\ DOMAIN pool' = 1..(Len(pool) - 1) /\ Len(pool) \in Nat
      /\ \A i \in DOMAIN pool' : pool'[i] = pool[i + 1] /\ i + 1 \in DOMAIN pool /\ i + 1 # 1
  BY DEF TypeOK
<1>2. pool[1] \in Conns
  BY <1>1 DEF TypeOK
<1>3. \A i, j \in DOMAIN pool' : i + 1 = j + 1 => i = j
  BY <1>1
<1>4. \A i, j \in DOMAIN pool : pool[i] = pool[j] => i = j
  BY DEF Sharing, PoolOnce
<1>5. PoolOnce'
  BY <1>1, <1>3, <1>4 DEF PoolOnce
<1>6. \A y : InDeque(y)' => InDeque(y)
  BY <1>1 DEF InDeque
<1>7. x \in Conns /\ InDeque(x) /\ ~InDeque(x)'
  BY <1>1, <1>2, <1>4 DEF InDeque
<1> QED
  BY <1>5, <1>6, <1>7 DEF PoolGains

\* A connection enters the pool.
LEMMA PoolPush ==
  ASSUME TypeOK, Sharing, NEW x \in Conns, ~InDeque(x), pool' = Append(pool, x)
  PROVE  PoolGains({x})
<1>1. /\ DOMAIN pool' = 1..(Len(pool) + 1) /\ DOMAIN pool = 1..Len(pool)
      /\ pool'[Len(pool) + 1] = x /\ Len(pool) \in Nat
      /\ \A i \in DOMAIN pool : pool'[i] = pool[i]
  BY DEF TypeOK
<1>2. \A i \in DOMAIN pool' : i \in DOMAIN pool \/ i = Len(pool) + 1
  BY <1>1
<1> QED
  BY <1>1, <1>2 DEF Sharing, PoolGains, PoolOnce, InDeque

\* The first task leaves the queue.
LEMMA TasksPop ==
  ASSUME TypeOK, Sharing, NEW S, NEW c, c = Head(tasks).conn, tasks # <<>>,
         tasks' = Tail(tasks)
  PROVE  /\ TasksGains(S) /\ \A x : Returned(x)' => Returned(x)
         /\ c \in Conns => Returned(c) /\ ~Returned(c)'
<1>1. /\ DOMAIN tasks = 1..Len(tasks) /\ 1 \in DOMAIN tasks /\ tasks[1].conn = c
      /\ DOMAIN tasks' = 1..(Len(tasks) - 1) /\ Len(tasks) \in Nat
      /\ \A i \in DOMAIN tasks' : /\ tasks'[i] = tasks[i + 1]
                                  /\ i + 1 \in DOMAIN tasks /\ i + 1 # 1
  BY DEF TypeOK
<1>2. \A i, j \in DOMAIN tasks' : i + 1 = j + 1 => i = j
  BY <1>1
<1>3. \A x \in Conns : x # NoConn
  BY ConstantsAssumption DEF NoConn
<1>4. \A i, j \in DOMAIN tasks :
        tasks[i].conn = tasks[j].conn /\ tasks[i].conn # NoConn => i = j
  BY DEF Sharing, TasksOnce
<1>5. TasksOnce'
  BY <1>1, <1>2, <1>4 DEF TasksOnce
<1>6. \A x : Returned(x)' => Returned(x)
  BY <1>1 DEF Returned
<1>7. ASSUME c \in Conns
      PROVE  Returned(c) /\ ~Returned(c)'
  BY <1>1, <1>3, <1>4, <1>7 DEF Returned
<1> QED
  BY <1>5, <1>6, <1>7 DEF TasksGains

\* A ReturnConnection is queued.
LEMMA TasksPush ==
  ASSUME TypeOK, Sharing, NEW t \in Task, run_task(t), ~Returned(t.conn)
  PROVE  TasksGains({t.conn})
<1>1. /\ DOMAIN tasks' = 1..(Len(tasks) + 1) /\ DOMAIN tasks = 1..Len(tasks)
      /\ tasks'[Len(tasks) + 1] = t
      /\ \A i \in DOMAIN tasks : tasks'[i] = tasks[i]
  BY DEF TypeOK, run_task
<1>2. \A i \in DOMAIN tasks' : i \in DOMAIN tasks \/ i = Len(tasks) + 1
  BY <1>1
<1>3. \A i \in DOMAIN tasks : tasks[i].conn # t.conn
  BY DEF Returned
<1>4. TasksOnce'
  BY <1>1, <1>2, <1>3 DEF Sharing, TasksOnce
<1>5. \A x : x # t.conn /\ Returned(x)' => Returned(x)
  BY <1>1, <1>2 DEF Returned
<1> QED
  BY <1>4, <1>5 DEF TasksGains

\* A position loses its connection.
LEMMA SlotClear ==
  ASSUME TypeOK, Sharing, NEW p \in Positions, NEW c, c = slot[p].conn,
         slot' = [slot EXCEPT ![p].conn = NoConn]
  PROVE  /\ \A q \in Positions : slot'[q].conn = slot[q].conn \/ slot'[q].conn = NoConn
         /\ c \in Conns => Given(c) /\ ~Given(c)'
<1>1. \A q \in Positions : slot'[q].conn = IF q = p THEN NoConn ELSE slot[q].conn
  BY DEF TypeOK, Slot
<1>2. \A x \in Conns : x # NoConn
  BY ConstantsAssumption DEF NoConn
<1> QED
  BY <1>1, <1>2 DEF Sharing, SlotOnce, Given

\* A position is given a connection.
LEMMA SlotGive ==
  ASSUME TypeOK, Sharing, NEW p \in Positions, NEW x \in Conns, ~Given(x),
         slot' = [slot EXCEPT ![p].conn = x]
  PROVE  SlotGains({x})
<1>1. \A q \in Positions : slot'[q].conn = IF q = p THEN x ELSE slot[q].conn
  BY DEF TypeOK, Slot
<1>2. \A q \in Positions : slot[q].conn # x
  BY DEF Given
<1>3. SlotOnce'
  BY <1>1, <1>2 DEF Sharing, SlotOnce
<1>4. \A y : y # x /\ Given(y)' => Given(y)
  BY <1>1 DEF Given
<1> QED
  BY <1>3, <1>4 DEF SlotGains

\* check() or close() takes all that is idle.
LEMMA BatchTake ==
  ASSUME TypeOK, Sharing, NEW a \in Admins, TakeIdle(a)
  PROVE  /\ PoolGains({}) /\ BatchGains({pool[i] : i \in DOMAIN pool})
         /\ \A x : ~InDeque(x)'
         /\ \A x : Taken(x)' => Taken(x) \/ InDeque(x)
<1>1. /\ pool' = <<>> /\ batch'[a] = pool
      /\ \A b \in Admins : b # a => batch'[b] = batch[b]
  BY DEF TypeOK, TakeIdle
<1>2. \A i \in DOMAIN pool, b \in Admins : \A j \in DOMAIN batch[b] : pool[i] # batch[b][j]
  <2> SUFFICES ASSUME NEW i \in DOMAIN pool, NEW b \in Admins, NEW j \in DOMAIN batch[b],
                      pool[i] = batch[b][j]
               PROVE  FALSE
    OBVIOUS
  <2>1. pool[i] \in Conns /\ InDeque(pool[i]) /\ Taken(pool[i])
    BY DEF TypeOK, InDeque, Taken
  <2> QED
    BY <2>1 DEF Sharing, Apart, ApartAt
<1>3. BatchOnce'
  BY <1>1, <1>2 DEF Sharing, PoolOnce, BatchOnce
<1>4. PoolOnce' /\ \A x : ~InDeque(x)'
  BY <1>1 DEF PoolOnce, InDeque
<1>5. \A x : Taken(x)' => Taken(x) \/ InDeque(x)
  BY <1>1 DEF Taken, InDeque
<1> QED
  BY <1>3, <1>4, <1>5 DEF PoolGains, BatchGains, InDeque

\* check() looks at the last connection of its batch.
LEMMA BatchPop ==
  ASSUME TypeOK, Sharing, NEW a \in Admins, batch[a] # <<>>,
         batch' = [batch EXCEPT ![a] = SubSeq(@, 1, Len(@) - 1)],
         NEW x, x = batch[a][Len(batch[a])]
  PROVE  /\ x \in Conns /\ Taken(x) /\ ~Taken(x)'
         /\ BatchGains({}) /\ \A y : Taken(y)' => Taken(y)
<1>0. batch[a] \in Seq(Conns)
  BY DEF TypeOK
<1>1. /\ DOMAIN batch[a] = 1..Len(batch[a]) /\ Len(batch[a]) \in DOMAIN batch[a]
      /\ x \in Conns
  BY <1>0
<1>2. /\ batch'[a] = SubSeq(batch[a], 1, Len(batch[a]) - 1)
      /\ \A b \in Admins : b # a => batch'[b] = batch[b]
  BY DEF TypeOK
<1>3. /\ DOMAIN batch'[a] = 1..(Len(batch[a]) - 1)
      /\ \A i \in DOMAIN batch'[a] : /\ batch'[a][i] = batch[a][i]
                                     /\ i \in DOMAIN batch[a] /\ i # Len(batch[a])
  BY <1>0, <1>2
<1>4. \A b \in Admins : \A i \in DOMAIN batch'[b] :
        i \in DOMAIN batch[b] /\ batch'[b][i] = batch[b][i]
  BY <1>2, <1>3
<1>5. BatchOnce'
  BY <1>4 DEF Sharing, BatchOnce
<1>6. \A y : Taken(y)' => Taken(y)
  BY <1>4 DEF Taken
<1>7. Taken(x)
  BY <1>1 DEF Taken
<1>8. \A b \in Admins : \A i \in DOMAIN batch'[b] : batch'[b][i] # x
  BY <1>1, <1>2, <1>3, <1>4 DEF Sharing, BatchOnce
<1>9. ~Taken(x)'
  BY <1>8 DEF Taken
<1> QED
  BY <1>1, <1>5, <1>6, <1>7, <1>9 DEF BatchGains

\* What most steps do: connections stay where they are or are let go.
CurQuiet   == UNCHANGED cur \/ \E t \in Threads : cur' = [cur EXCEPT ![t] = NoConn]
SlotQuiet  == \A p \in Positions : slot'[p].conn = slot[p].conn \/ slot'[p].conn = NoConn
TasksQuiet == UNCHANGED tasks \/ \E t \in Task : t.conn = NoConn /\ run_task(t)
Quiet == UNCHANGED <<pool, batch>> /\ CurQuiet /\ SlotQuiet /\ TasksQuiet

\* A quiet step keeps the invariant.
LEMMA SharingQuiet ==
  ASSUME TypeOK, Sharing, Quiet
  PROVE  Sharing'
<1>1. CurGains({})
  BY CurSame, CurClear DEF Quiet, CurQuiet
<1>2. SlotGains({})
  BY SlotSame DEF Quiet, SlotQuiet
<1>3. TasksGains({})
  BY TasksSame, TasksAdd DEF Quiet, TasksQuiet
<1>4. PoolGains({}) /\ BatchGains({})
  BY PoolSame, BatchSame DEF Quiet
<1> QED
  BY <1>1, <1>2, <1>3, <1>4, SharingMove DEF Gains

\* Tasks without a connection.
LEMMA BareTasks ==
  /\ \A g \in BOOLEAN : AddConnection(g) \in Task /\ AddConnection(g).conn = NoConn
  /\ \A k \in DelayedKinds : Delayed(k) \in Task /\ Delayed(k).conn = NoConn
  BY DEF Task, AddConnection, RetryConnection, Simple, Delayed, DelayedKinds

\* _maybe_grow_pool queues such a task, or none.
LEMMA GrowQuiet == _maybe_grow_pool => TasksQuiet
  BY BareTasks DEF _maybe_grow_pool, TasksQuiet

\* The return of a connection until it is put in the pool.
LEMMA ReturnQuiet ==
  ASSUME TypeInv, NEW t \in Threads, _return_connection(t) \/ _add_to_pool_early(t)
  PROVE  Quiet
<1>1. CASE _return_connection(t)
  BY <1>1, BareTasks
     DEF _return_connection, Replace, Quiet, CurQuiet, SlotQuiet, TasksQuiet, queueVars,
         adminVars
<1>2. CASE _add_to_pool_early(t)
  BY <1>2
     DEF _add_to_pool_early, CloseCur, Quiet, CurQuiet, SlotQuiet, TasksQuiet, queueVars,
         taskVars, adminVars
<1> QED
  BY <1>1, <1>2

\* The client steps that take no connection.
LEMMA ClientQuiet ==
  ASSUME TypeInv, NEW c \in Clients,
         \/ getconn(c) \/ getconn_timeout(c) \/ wait_broken(c) \/ check_interrupted(c)
         \/ getconn_refused(c) \/ getconn_enqueue(c) \/ check_passes(c) \/ check_fails(c)
         \/ backoff(c) \/ putconn(c)
  PROVE  Quiet
<1> USE DEF Quiet, queueVars, taskVars, adminVars
<1>0. c \in Threads
  BY DEF Threads
<1>1. CASE \/ getconn(c) \/ getconn_timeout(c) \/ getconn_refused(c) \/ check_passes(c)
           \/ check_fails(c) \/ backoff(c)
  BY <1>1 DEF getconn, getconn_timeout, getconn_refused, check_passes, check_fails, backoff,
              CurQuiet, SlotQuiet, TasksQuiet
<1>2. CASE check_interrupted(c) \/ putconn(c)
  BY <1>0, <1>2 DEF check_interrupted, putconn, CurQuiet, SlotQuiet, TasksQuiet
<1>3. CASE wait_broken(c)
  <2>1. pos[c] \in Positions /\ slot \in [Positions -> Slot]
    BY <1>3 DEF wait_broken, TypeInv, TypeOK, WaitersHeld, At
  <2>2. SlotQuiet
    BY <1>3, <2>1 DEF wait_broken, SlotQuiet, Slot
  <2> QED
    BY <1>3, <2>2 DEF wait_broken, CurQuiet, TasksQuiet
<1>4. CASE getconn_enqueue(c)
  <2>1. SlotQuiet
    BY <1>4 DEF getconn_enqueue, SlotQuiet, EmptySlot, TypeInv, TypeOK
  <2> QED
    BY <1>4, <2>1, GrowQuiet DEF getconn_enqueue, CurQuiet
<1> QED
  BY <1>1, <1>2, <1>3, <1>4

\* The worker steps that take no connection.
LEMMA WorkerQuiet ==
  ASSUME TypeInv, NEW w \in Workers,
         _connect_fails(w) \/ _add_connection_grow(w) \/ _shrink_close(w)
  PROVE  Quiet
  BY BareTasks
     DEF _connect_fails, _add_connection_grow, _shrink_close, Quiet, CurQuiet, SlotQuiet,
         TasksQuiet, queueVars, taskVars, adminVars, Threads

\* So are those of the threads of close(), resize() and wait().
LEMMA AdminQuiet ==
  ASSUME TypeInv, NEW a \in Admins,
         \/ close(a) \/ close_fail(a) \/ resize(a) \/ resize_lock(a) \/ resize_run(a)
         \/ wait(a) \/ wait_lock(a) \/ wait_ends(a)
  PROVE  Quiet
<1> USE DEF Quiet, queueVars, taskVars, adminVars
<1>1. CASE \/ close(a) \/ resize(a) \/ resize_lock(a) \/ resize_run(a)
           \/ wait(a) \/ wait_lock(a) \/ wait_ends(a)
  BY <1>1, BareTasks
     DEF close, resize, resize_lock, resize_run, wait, wait_lock, wait_ends,
         CurQuiet, SlotQuiet, TasksQuiet
<1>2. CASE close_fail(a)
  <2>1. SlotQuiet
    <3>1. CASE UNCHANGED slot
      BY <3>1 DEF SlotQuiet
    <3>2. CASE doomed[a] # <<>> /\ slot' = [slot EXCEPT ![Head(doomed[a])].error = "closed"]
      <4>1. doomed[a] \in Seq(Positions) /\ slot \in [Positions -> Slot]
        BY DEF TypeInv, TypeOK
      <4>2. Head(doomed[a]) \in Positions
        BY <3>2, <4>1
      <4> QED
        BY <3>2, <4>1, <4>2 DEF SlotQuiet, Slot
    <3> QED
      BY <1>2, <3>1, <3>2 DEF close_fail
  <2> QED
    BY <1>2, <2>1 DEF close_fail, CurQuiet, TasksQuiet
<1> QED
  BY <1>1, <1>2

\* open() starts with no task that carries a connection.
LEMMA Sharing_open ==
  ASSUME TypeOK, Sharing, open
  PROVE  Sharing'
<1> DEFINE adds == [i \in 1..nconns |-> AddConnection(FALSE)]
<1>1. tasks' = adds \o <<Simple("schedule")>> /\ UNCHANGED <<pool, cur, slot, batch>>
  BY DEF open, queueVars, adminVars
<1>2. \A i \in DOMAIN tasks' : tasks'[i].conn = NoConn
  <2>1. adds \in Seq(Task)
    BY NewTask, CopiedTasks DEF GoodTasks, TypeOK, AddConnection, Simple
  <2>2. \A i \in DOMAIN adds : adds[i].conn = NoConn
    BY DEF AddConnection, Simple
  <2>3. <<Simple("schedule")>> \in Seq(Task) /\ Simple("schedule").conn = NoConn
    BY NewTask DEF Simple
  <2> HIDE DEF adds
  <2> QED
    BY <1>1, <2>1, <2>2, <2>3
<1>3. TasksGains({})
  BY <1>2, ConstantsAssumption DEF TasksGains, TasksOnce, Returned, NoConn
<1> QED
  BY <1>1, <1>3, PoolSame, CurSame, SlotSame, BatchSame, SharingMove DEF Gains

\* getconn() or _shrink_pool takes the first connection of the pool.
LEMMA SharingPop ==
  ASSUME TypeOK, Sharing, NEW t \in Threads, pool # <<>>, pool' = Tail(pool),
         cur' = [cur EXCEPT ![t] = Head(pool)], UNCHANGED <<slot, tasks, batch>>
  PROVE  Sharing'
<1>1. PICK y : y = Head(pool)
  OBVIOUS
<1>2. /\ y \in Conns /\ InDeque(y) /\ ~InDeque(y)' /\ PoolGains({y})
  BY <1>1, PoolPop
<1>3. ApartAt(y)
  BY <1>2 DEF Sharing, Apart
<1>4. ~Held(y) /\ ~Given(y) /\ ~Returned(y) /\ ~Taken(y)
  BY <1>2, <1>3 DEF ApartAt
<1>5. CurGains({y})
  BY <1>1, <1>4, CurTake
<1>6. /\ SlotGains({y}) /\ (Given(y)' => Given(y))
      /\ TasksGains({y}) /\ (Returned(y)' => Returned(y))
      /\ BatchGains({y}) /\ (Taken(y)' => Taken(y))
  BY <1>2, SlotSame, TasksSame, BatchSame
<1>7. ApartAt(y)'
  BY <1>2, <1>4, <1>6 DEF ApartAt
<1> QED
  BY <1>2, <1>5, <1>6, <1>7, SharingMove DEF Gains

\* The end of a wait: from the position to the client.
LEMMA Sharing_wait_returns ==
  ASSUME TypeInv, Sharing, NEW c \in Clients, wait_returns(c)
  PROVE  Sharing'
<1>1. TypeOK /\ c \in Threads /\ pos[c] \in Positions
  BY DEF TypeInv, WaitersHeld, wait_returns, At, Threads
<1>2. PICK y : y = slot[pos[c]].conn
  OBVIOUS
<1>3. /\ cur' = [cur EXCEPT ![c] = y] /\ slot' = [slot EXCEPT ![pos[c]].conn = NoConn]
      /\ UNCHANGED <<pool, tasks, batch>>
  BY <1>2 DEF wait_returns, WaitResult, taskVars, adminVars
<1>4. y \in Conns \cup {NoConn}
  BY <1>1, <1>2 DEF TypeOK, Slot
<1>5. /\ \A q \in Positions : slot'[q].conn = slot[q].conn \/ slot'[q].conn = NoConn
      /\ y \in Conns => Given(y) /\ ~Given(y)'
  BY <1>1, <1>2, <1>3, SlotClear
<1>6. CASE y = NoConn
  BY <1>1, <1>3, <1>5, <1>6, SharingQuiet DEF Quiet, CurQuiet, SlotQuiet, TasksQuiet
<1>7. CASE y \in Conns
  <2>1. ApartAt(y)
    BY <1>7 DEF Sharing, Apart
  <2>2. ~InDeque(y) /\ ~Held(y) /\ ~Returned(y) /\ ~Taken(y)
    BY <1>5, <1>7, <2>1 DEF ApartAt
  <2>3. CurGains({y})
    BY <1>1, <1>3, <2>2, CurTake
  <2>4. /\ SlotGains({y})
        /\ TasksGains({y}) /\ (Returned(y)' => Returned(y))
        /\ BatchGains({y}) /\ (Taken(y)' => Taken(y))
        /\ PoolGains({y}) /\ (InDeque(y)' => InDeque(y))
    BY <1>3, <1>5, SlotSame, TasksSame, BatchSame, PoolSame
  <2>5. ApartAt(y)'
    BY <1>5, <1>7, <2>2, <2>4 DEF ApartAt
  <2> QED
    BY <2>3, <2>4, <2>5, SharingMove DEF Gains
<1> QED
  BY <1>4, <1>6, <1>7

\* _putconn() gives the connection to a worker, or keeps it.
LEMMA Sharing_putconn ==
  ASSUME TypeInv, Sharing, NEW c \in Clients, _putconn(c)
  PROVE  Sharing'
<1>0. TypeOK /\ c \in Threads /\ cur[c] \in Conns
  BY DEF TypeInv, ThreadsHeld, Holding, _putconn, At, Threads
<1>1. UNCHANGED <<pool, slot, batch>>
  BY DEF _putconn, queueVars, adminVars
<1>2. CASE UNCHANGED <<cur, tasks>>
  BY <1>0, <1>1, <1>2, SharingQuiet DEF Quiet, CurQuiet, SlotQuiet, TasksQuiet
<1>3. CASE run_task(ReturnConnection(cur[c])) /\ cur' = [cur EXCEPT ![c] = NoConn]
  <2>1. PICK y : y = cur[c]
    OBVIOUS
  <2>2. Held(y) /\ ~Held(y)' /\ CurGains({y})
    BY <1>0, <1>3, <2>1, CurClear
  <2>3. ApartAt(y)
    BY <1>0, <2>1 DEF Sharing, Apart
  <2>4. ~InDeque(y) /\ ~Given(y) /\ ~Returned(y) /\ ~Taken(y)
    BY <2>2, <2>3 DEF ApartAt
  <2>5. PICK tk \in Task : tk = ReturnConnection(y) /\ tk.conn = y
    BY <1>0, <2>1, NewTask
  <2>6. TasksGains({y})
    BY <1>0, <1>3, <2>1, <2>4, <2>5, TasksPush
  <2>7. /\ SlotGains({y}) /\ (Given(y)' => Given(y))
        /\ BatchGains({y}) /\ (Taken(y)' => Taken(y))
        /\ PoolGains({y}) /\ (InDeque(y)' => InDeque(y))
    BY <1>0, <1>1, <2>1, SlotSame, BatchSame, PoolSame
  <2>8. ApartAt(y)'
    BY <2>2, <2>4, <2>7 DEF ApartAt
  <2> QED
    BY <2>2, <2>6, <2>7, <2>8, SharingMove DEF Gains
<1> QED
  BY <1>2, <1>3 DEF _putconn

\* _add_to_pool: the connection goes from the thread to a position, to the pool,
\* or nowhere.
LEMMA Sharing_add ==
  ASSUME TypeInv, Sharing, NEW t \in Threads, _add_to_pool(t)
  PROVE  Sharing'
<1>1. TypeOK /\ cur[t] \in Conns
  BY DEF TypeInv, ThreadsHeld, Holding, _add_to_pool, At
<1>2. cur' = [cur EXCEPT ![t] = NoConn] /\ UNCHANGED <<tasks, batch>>
  BY DEF _add_to_pool, CloseCur, taskVars, adminVars
<1>3. PICK y \in Conns : y = cur[t]
  BY <1>1
<1>4. Held(y) /\ ~Held(y)' /\ CurGains({y})
  BY <1>1, <1>2, <1>3, CurClear
<1>5. ApartAt(y)
  BY DEF Sharing, Apart
<1>6. ~InDeque(y) /\ ~Given(y) /\ ~Returned(y) /\ ~Taken(y)
  BY <1>4, <1>5 DEF ApartAt
<1>7. /\ TasksGains({y}) /\ (Returned(y)' => Returned(y))
      /\ BatchGains({y}) /\ (Taken(y)' => Taken(y))
  BY <1>2, TasksSame, BatchSame
<1>8. CASE UNCHANGED <<pool, slot>>
  BY <1>1, <1>2, <1>8, SharingQuiet DEF Quiet, CurQuiet, SlotQuiet, TasksQuiet
<1>9. ASSUME NEW p \in Positions, slot' = [slot EXCEPT ![p].conn = y], UNCHANGED pool
      PROVE  Sharing'
  <2>1. SlotGains({y})
    BY <1>1, <1>6, <1>9, SlotGive
  <2>2. PoolGains({y}) /\ (InDeque(y)' => InDeque(y))
    BY <1>9, PoolSame
  <2>3. ApartAt(y)'
    BY <1>4, <1>6, <1>7, <2>2 DEF ApartAt
  <2> QED
    BY <1>4, <1>7, <2>1, <2>2, <2>3, SharingMove DEF Gains
<1>10. CASE pool' = Append(pool, y) /\ UNCHANGED slot
  <2>1. PoolGains({y})
    BY <1>1, <1>6, <1>10, PoolPush
  <2>2. SlotGains({y}) /\ (Given(y)' => Given(y))
    BY <1>10, SlotSame
  <2>3. ApartAt(y)'
    BY <1>4, <1>6, <1>7, <2>2 DEF ApartAt
  <2> QED
    BY <1>4, <1>7, <2>1, <2>2, <2>3, SharingMove DEF Gains
<1>11. \A i \in DOMAIN waiting : waiting[i] \in Positions
  BY <1>1 DEF TypeOK
<1> QED
  BY <1>3, <1>8, <1>9, <1>10, <1>11 DEF _add_to_pool, Serve, queueVars

\* A worker takes a task, and the connection that it carries.
LEMMA Sharing_worker ==
  ASSUME TypeInv, Sharing, NEW w \in Workers, worker(w)
  PROVE  Sharing'
<1>1. TypeOK /\ w \in Threads /\ tasks # <<>> /\ tasks' = Tail(tasks)
  BY DEF TypeInv, worker, Threads
<1>2. UNCHANGED <<pool, slot, batch>>
  BY DEF worker, queueVars, adminVars
<1>3. PICK y : y = Head(tasks).conn
  OBVIOUS
<1>4. /\ \A S : TasksGains(S)
      /\ y \in Conns => Returned(y) /\ ~Returned(y)'
  BY <1>1, <1>3, TasksPop
<1>5. CASE UNCHANGED cur
  <2>1. /\ PoolGains({}) /\ CurGains({}) /\ SlotGains({}) /\ TasksGains({})
        /\ BatchGains({})
    BY <1>2, <1>4, <1>5, PoolSame, CurSame, SlotSame, BatchSame
  <2> QED
    BY <2>1, SharingMove DEF Gains
<1>6. CASE cur' = [cur EXCEPT ![w] = y] /\ Head(tasks).kind = "return"
  <2>1. y \in Conns
    <3>1. 1 \in DOMAIN tasks /\ tasks[1] = Head(tasks)
      BY <1>1 DEF TypeOK
    <3> QED
      BY <1>3, <1>6, <3>1 DEF TypeInv, TasksHeld, GoodTasks
  <2>2. ApartAt(y)
    BY <2>1 DEF Sharing, Apart
  <2>3. ~InDeque(y) /\ ~Given(y) /\ ~Held(y) /\ ~Taken(y)
    BY <1>4, <2>1, <2>2 DEF ApartAt
  <2>4. CurGains({y})
    BY <1>1, <1>6, <2>3, CurTake
  <2>5. /\ SlotGains({y}) /\ (Given(y)' => Given(y))
        /\ BatchGains({y}) /\ (Taken(y)' => Taken(y))
        /\ PoolGains({y}) /\ (InDeque(y)' => InDeque(y))
    BY <1>2, <2>1, SlotSame, BatchSame, PoolSame
  <2>6. ApartAt(y)'
    BY <1>4, <2>1, <2>3, <2>5 DEF ApartAt
  <2> QED
    BY <1>4, <2>4, <2>5, <2>6, SharingMove DEF Gains
<1> QED
  BY <1>3, <1>5, <1>6 DEF worker

\* A new connection is nowhere else.
LEMMA Sharing_connect ==
  ASSUME TypeInv, Sharing, NEW w \in Workers, _connect(w)
  PROVE  Sharing'
<1>1. PICK y \in Conns : Fresh(y) /\ cur' = [cur EXCEPT ![w] = y]
  BY DEF _connect
<1>2. /\ TypeOK /\ w \in Threads /\ UNCHANGED <<pool, tasks, slot, batch>>
  BY DEF TypeInv, _connect, queueVars, taskVars, adminVars, Threads
<1>3. ~InDeque(y) /\ ~Given(y) /\ ~Held(y) /\ ~Taken(y) /\ ~Returned(y)
  BY <1>1 DEF Fresh, Referenced, Elems, InDeque, Given, Held, Taken, Returned
<1>4. CurGains({y})
  BY <1>1, <1>2, <1>3, CurTake
<1>5. /\ SlotGains({y}) /\ (Given(y)' => Given(y))
      /\ BatchGains({y}) /\ (Taken(y)' => Taken(y))
      /\ PoolGains({y}) /\ (InDeque(y)' => InDeque(y))
      /\ TasksGains({y}) /\ (Returned(y)' => Returned(y))
  BY <1>2, SlotSame, BatchSame, PoolSame, TasksSame
<1>6. ApartAt(y)'
  BY <1>3, <1>5 DEF ApartAt
<1> QED
  BY <1>4, <1>5, <1>6, SharingMove DEF Gains

\* close() and check() take all that is idle.
LEMMA SharingTake ==
  ASSUME TypeOK, Sharing, NEW a \in Admins, TakeIdle(a), UNCHANGED <<cur, slot>>,
         \A S : TasksGains(S), \A x \in Conns : Returned(x)' => Returned(x)
  PROVE  Sharing'
<1> DEFINE S == {pool[i] : i \in DOMAIN pool}
<1>1. /\ PoolGains({}) /\ BatchGains(S) /\ \A x : ~InDeque(x)'
      /\ \A x : Taken(x)' => Taken(x) \/ InDeque(x)
  BY BatchTake
<1>2. PoolGains(S) /\ CurGains(S) /\ SlotGains(S)
  BY <1>1, CurSame, SlotSame DEF PoolGains
<1>3. ASSUME NEW x \in Conns \cap S
      PROVE  ApartAt(x)'
  <2>1. InDeque(x) /\ ApartAt(x)
    BY DEF InDeque, Sharing, Apart
  <2>2. ~Given(x) /\ ~Held(x) /\ ~Taken(x) /\ ~Returned(x)
    BY <2>1 DEF ApartAt
  <2>3. (Given(x)' => Given(x)) /\ (Held(x)' => Held(x)) /\ (Returned(x)' => Returned(x))
    BY CurSame, SlotSame
  <2> QED
    BY <1>1, <2>2, <2>3 DEF ApartAt
<1> HIDE DEF S
<1> QED
  BY <1>1, <1>2, <1>3, SharingMove DEF Gains

\* close() takes all the idle connections.
LEMMA Sharing_close_lock ==
  ASSUME TypeOK, Sharing, NEW a \in Admins, close_lock(a)
  PROVE  Sharing'
<1> DEFINE stops == [i \in 1..StopTasks |-> Simple("stop")]
<1>1. tasks' = tasks \o stops /\ UNCHANGED <<cur, slot>> /\ TakeIdle(a)
  BY DEF close_lock
<1>2. StopTasks \in Nat
  BY ThreadsAssumption, FS_CardinalityType DEF StopTasks
<1>3. stops \in Seq(Task) /\ \A i \in DOMAIN stops : stops[i].conn = NoConn
  BY <1>2, NewTask, CopiedTasks DEF GoodTasks, Simple
<1> HIDE DEF stops
<1>4. /\ DOMAIN tasks \subseteq DOMAIN tasks'
      /\ \A i \in DOMAIN tasks : tasks'[i] = tasks[i]
      /\ \A i \in DOMAIN tasks' : i \in DOMAIN tasks \/ tasks'[i].conn = NoConn
  BY <1>1, <1>3 DEF TypeOK
<1>5. \A x \in Conns : x # NoConn
  BY ConstantsAssumption DEF NoConn
<1>6. TasksOnce'
  BY <1>4 DEF Sharing, TasksOnce
<1>7. \A x \in Conns : Returned(x)' => Returned(x)
  BY <1>4, <1>5 DEF Returned
<1> QED
  BY <1>1, <1>6, <1>7, SharingTake DEF TasksGains

\* check() takes all the idle connections.
LEMMA Sharing_check ==
  ASSUME TypeOK, Sharing, NEW a \in Admins, check(a)
  PROVE  Sharing'
<1>1. UNCHANGED <<cur, slot>> /\ TakeIdle(a) /\ _maybe_grow_pool
  BY DEF check, queueVars
<1>2. (\A S : TasksGains(S)) /\ \A x \in Conns : Returned(x)' => Returned(x)
  BY <1>1, GrowQuiet, TasksSame, TasksAdd DEF TasksQuiet
<1> QED
  BY <1>1, <1>2, SharingTake

\* check() drops the last connection of its batch, or gives it back.
LEMMA Sharing_check_next ==
  ASSUME TypeInv, Sharing, NEW a \in Admins, check_next(a)
  PROVE  Sharing'
<1>1. TypeOK /\ a \in Threads /\ UNCHANGED <<pool, slot>>
  BY DEF TypeInv, check_next, queueVars, Threads
<1>2. CASE batch[a] = <<>>
  BY <1>1, <1>2, SharingQuiet DEF check_next, Quiet, CurQuiet, SlotQuiet, TasksQuiet
<1>3. CASE batch[a] # <<>>
  <2>1. PICK y : y = batch[a][Len(batch[a])]
    OBVIOUS
  <2>2. batch' = [batch EXCEPT ![a] = SubSeq(@, 1, Len(@) - 1)]
    BY <1>3 DEF check_next
  <2>3. /\ y \in Conns /\ Taken(y) /\ ~Taken(y)' /\ BatchGains({})
        /\ \A z : Taken(z)' => Taken(z)
    BY <1>1, <1>3, <2>1, <2>2, BatchPop
  <2>4. CASE Discard(y) /\ UNCHANGED cur
    <3>1. TasksGains({})
      BY <1>1, <2>4, BareTasks, TasksAdd DEF Discard
    <3> QED
      BY <1>1, <2>3, <2>4, <3>1, PoolSame, CurSame, SlotSame, SharingMove DEF Gains
  <2>5. CASE cur' = [cur EXCEPT ![a] = y] /\ UNCHANGED tasks
    <3>1. ApartAt(y)
      BY <2>3 DEF Sharing, Apart
    <3>2. ~InDeque(y) /\ ~Given(y) /\ ~Held(y) /\ ~Returned(y)
      BY <2>3, <3>1 DEF ApartAt
    <3>3. CurGains({y}) /\ BatchGains({y})
      BY <1>1, <2>3, <2>5, <3>2, CurTake DEF BatchGains
    <3>4. /\ SlotGains({y}) /\ (Given(y)' => Given(y))
          /\ PoolGains({y}) /\ (InDeque(y)' => InDeque(y))
          /\ TasksGains({y}) /\ (Returned(y)' => Returned(y))
      BY <1>1, <2>3, <2>5, SlotSame, PoolSame, TasksSame
    <3>5. ApartAt(y)'
      BY <2>3, <3>2, <3>4 DEF ApartAt
    <3> QED
      BY <3>3, <3>4, <3>5, SharingMove DEF Gains
  <2> QED
    BY <1>3, <2>1, <2>4, <2>5 DEF check_next
<1> QED
  BY <1>2, <1>3

\* close() lets its batch go.
LEMMA Sharing_close_conns ==
  ASSUME TypeOK, Sharing, NEW a \in Admins, close_conns(a)
  PROVE  Sharing'
<1>1. /\ batch' = [batch EXCEPT ![a] = <<>>] /\ UNCHANGED <<pool, cur, slot, tasks>>
  BY DEF close_conns, taskVars, queueVars
<1>2. \A b \in Admins : batch'[b] = IF b = a THEN <<>> ELSE batch[b]
  BY <1>1 DEF TypeOK
<1>3. \A b \in Admins : \A i \in DOMAIN batch'[b] : b # a
  BY <1>2
<1>4. BatchOnce'
  BY <1>2, <1>3 DEF Sharing, BatchOnce
<1>5. \A x : Taken(x)' => Taken(x)
  BY <1>2, <1>3 DEF Taken
<1> QED
  BY <1>1, <1>4, <1>5, PoolSame, CurSame, SlotSame, TasksSame, SharingMove
     DEF Gains, BatchGains

\* Every step moves a connection as a whole.
LEMMA SharingStep == TypeInv /\ Sharing /\ [Next]_vars => Sharing'
<1> SUFFICES ASSUME TypeInv, Sharing, [Next]_vars
             PROVE  Sharing'
  OBVIOUS
<1>t. TypeOK
  BY DEF TypeInv
<1>q. Quiet => Sharing'
  BY <1>t, SharingQuiet
<1>0. ASSUME NEW t \in Threads, Return(t)
      PROVE  Sharing'
  BY <1>0, <1>q, ReturnQuiet, Sharing_add DEF Return
<1>1. ASSUME NEW c \in Clients, ClientStep(c)
      PROVE  Sharing'
  <2>1. CASE Return(c)
    BY <1>0, <2>1 DEF Threads
  <2>2. CASE _get_ready_connection(c)
    BY <1>t, <2>2, SharingPop DEF _get_ready_connection, queueVars, taskVars, adminVars, Threads
  <2> QED
    BY <1>1, <1>q, <2>1, <2>2, ClientQuiet, Sharing_wait_returns, Sharing_putconn
       DEF ClientStep, Request
<1>2. ASSUME NEW w \in Workers, WorkerStep(w)
      PROVE  Sharing'
  <2>1. CASE Return(w)
    BY <1>0, <2>1 DEF Threads
  <2>2. CASE _shrink_pool(w)
    <3>1. CASE UNCHANGED <<cur, pool>>
      BY <1>q, <2>2, <3>1
         DEF _shrink_pool, Quiet, CurQuiet, SlotQuiet, TasksQuiet, queueVars, taskVars,
             adminVars
    <3>2. CASE CanShrink /\ cur' = [cur EXCEPT ![w] = Head(pool)] /\ pool' = Tail(pool)
      BY <1>t, <2>2, <3>2, SharingPop
         DEF _shrink_pool, CanShrink, queueVars, taskVars, adminVars, Threads
    <3> QED
      BY <2>2, <3>1, <3>2 DEF _shrink_pool
  <2> QED
    BY <1>2, <1>q, <2>1, <2>2, WorkerQuiet, Sharing_worker, Sharing_connect
       DEF WorkerStep, Work
<1>3. ASSUME NEW a \in Admins, AdminStep(a)
      PROVE  Sharing'
  <2>1. CASE Return(a)
    BY <1>0, <2>1 DEF Threads
  <2> QED
    BY <1>3, <1>q, <1>t, <2>1, AdminQuiet, Sharing_close_lock, Sharing_close_conns,
       Sharing_check, Sharing_check_next DEF AdminStep, Administer
<1>4. ASSUME NEW k \in DelayedKinds, tick(k)
      PROVE  Sharing'
  BY <1>4, <1>q, BareTasks
     DEF tick, Quiet, CurQuiet, SlotQuiet, TasksQuiet, queueVars, adminVars
<1>5. CASE UNCHANGED vars
  BY <1>5, <1>q DEF vars, Quiet, CurQuiet, SlotQuiet, TasksQuiet
<1> QED
  BY <1>1, <1>2, <1>3, <1>4, <1>5, <1>t, Sharing_open DEF Next

\* Nobody has a connection at first.
LEMMA SharingInit == Init => Sharing
<1> SUFFICES ASSUME Init
             PROVE  Sharing
  OBVIOUS
<1>1. /\ pool = <<>> /\ tasks = <<>>
      /\ \A t \in Threads : cur[t] = NoConn
      /\ \A p \in Positions : slot[p].conn = NoConn
      /\ \A a \in Admins : batch[a] = <<>>
  BY DEF Init, EmptySlot
<1> HIDE DEF Init
<1>n. \A x \in Conns : x # NoConn
  BY ConstantsAssumption DEF NoConn
<1>2. \A x \in Conns : ~InDeque(x) /\ ~Held(x) /\ ~Given(x) /\ ~Returned(x) /\ ~Taken(x)
  BY <1>1, <1>n DEF InDeque, Held, Given, Returned, Taken
<1>3. Apart
  BY <1>2 DEF Apart, ApartAt
<1>4. PoolOnce /\ CurOnce /\ SlotOnce /\ TasksOnce /\ BatchOnce
  BY <1>1 DEF PoolOnce, CurOnce, SlotOnce, TasksOnce, BatchOnce
<1> QED
  BY <1>3, <1>4 DEF Sharing

\* A set without two elements has at most one.
LEMMA AtMostOne ==
  ASSUME NEW S, \A a, b \in S : a = b
  PROVE  /\ Cardinality(S) \in {0, 1} /\ IsFiniteSet(S)
         /\ Cardinality(S) = 1 => \E a : a \in S
<1>1. CASE S = {}
  BY <1>1, FS_EmptySet
<1>2. ASSUME NEW a \in S
      PROVE  S = {a}
  BY <1>2
<1> QED
  BY <1>1, <1>2, FS_Singleton

\* A connection that is once in one kind of place is counted once.
LEMMA SharingCounts == Sharing => NoSharing
<1> SUFFICES ASSUME Sharing, NEW x \in Conns
             PROVE  Places(x) <= 1
  BY DEF NoSharing
<1> DEFINE P == {i \in DOMAIN pool : pool[i] = x}
           C == {t \in Threads : cur[t] = x}
           S == {p \in Positions : slot[p].conn = x}
           T == {i \in DOMAIN tasks : tasks[i].conn = x}
           B == UNION {{a} \X {i \in DOMAIN batch[a] : batch[a][i] = x} : a \in Admins}
<1>0. x # NoConn
  BY ConstantsAssumption DEF NoConn
<1>1. (\A i, j \in P : i = j) /\ (\A i : i \in P => InDeque(x))
  BY DEF Sharing, PoolOnce, InDeque
<1>2. (\A t, u \in C : t = u) /\ (\A t : t \in C => Held(x))
  BY <1>0 DEF Sharing, CurOnce, Held
<1>3. (\A p, q \in S : p = q) /\ (\A p : p \in S => Given(x))
  BY <1>0 DEF Sharing, SlotOnce, Given
<1>4. (\A i, j \in T : i = j) /\ (\A i : i \in T => Returned(x))
  BY <1>0 DEF Sharing, TasksOnce, Returned
<1>5. (\A b, c \in B : b = c) /\ (\A b : b \in B => Taken(x))
  <2>1. \A b \in B : \E a \in Admins : \E i \in DOMAIN batch[a] :
          batch[a][i] = x /\ b = <<a, i>>
    OBVIOUS
  <2>2. ASSUME NEW b \in B, NEW c \in B
        PROVE  b = c
    BY <2>1 DEF Sharing, BatchOnce
  <2>3. \A b : b \in B => Taken(x)
    BY <2>1 DEF Taken
  <2> QED
    BY <2>2, <2>3
<1>6. Places(x) = Cardinality(P) + Cardinality(C) + Cardinality(S) + Cardinality(T)
                  + Cardinality(B)
  BY DEF Places
<1> HIDE DEF P, C, S, T, B
<1>7. /\ Cardinality(P) \in {0, 1} /\ (Cardinality(P) = 1 => InDeque(x))
      /\ Cardinality(C) \in {0, 1} /\ (Cardinality(C) = 1 => Held(x))
      /\ Cardinality(S) \in {0, 1} /\ (Cardinality(S) = 1 => Given(x))
      /\ Cardinality(T) \in {0, 1} /\ (Cardinality(T) = 1 => Returned(x))
      /\ Cardinality(B) \in {0, 1} /\ (Cardinality(B) = 1 => Taken(x))
  BY <1>1, <1>2, <1>3, <1>4, <1>5, AtMostOne
<1>8. ApartAt(x)
  BY DEF Sharing, Apart
<1> QED
  BY <1>6, <1>7, <1>8 DEF ApartAt

\* No connection is ever in two places, whatever threads do at the same time:
\* every hand-over between getconn(), putconn(), the workers, check() and close()
\* moves it.
THEOREM NoSharingCorrect == Spec => []NoSharing
  BY SharingInit, SharingStep, SharingCounts, TypeInit, TypeStep, PTL DEF Spec

-----------------------------------------------------------------------------
(* Idle connections are ready to use                                        *)

\* Thread t is putting its connection in the pool.
Adding(t) == pc[t] \in {"add_check", "add_lock"}

\* Connection x is in the pool, goes there, or was there when check() took it.
Ready(x) == InDeque(x) \/ Taken(x) \/ \E t \in Threads : Adding(t) /\ cur[t] = x

\* The inductive invariant.
IdleInv == \A x \in Conns : Ready(x) => status[x] = "IDLE"

\* What becomes ready is idle, what was ready is left alone.
LEMMA IdleKept ==
  ASSUME IdleInv,
         \A x \in Conns :
           Ready(x)' => status'[x] = "IDLE" \/ (Ready(x) /\ status'[x] = status[x])
  PROVE  IdleInv'
  BY DEF IdleInv

\* A step that puts nothing in the pool, nor in the hands of those who do.
LEMMA ReadyLess ==
  ASSUME \A x \in Conns : InDeque(x)' => InDeque(x),
         \A x \in Conns : Taken(x)' => Taken(x) \/ InDeque(x),
         \A t \in Threads : Adding(t)' => Adding(t) /\ cur'[t] = cur[t]
  PROVE  \A x \in Conns : Ready(x)' => Ready(x)
  BY DEF Ready

\* Thread t goes on to l and adds nothing to the pool.
LEMMA GoesOn ==
  ASSUME TypeOK, NEW t \in Threads, NEW l, pc' = [pc EXCEPT ![t] = l],
         l \notin {"add_check", "add_lock"},
         \A u \in Threads : u # t => cur'[u] = cur[u]
  PROVE  \A u \in Threads : Adding(u)' => Adding(u) /\ cur'[u] = cur[u] /\ u # t
  BY DEF TypeOK, Adding

\* Thread t, which has a connection, may do with it what it likes, and does not
\* put it in the pool then.
LEMMA IdleUsed ==
  ASSUME TypeOK, Sharing, IdleInv, NEW t \in Threads, cur[t] \in Conns, NEW l,
         pc' = [pc EXCEPT ![t] = l], l \notin {"add_check", "add_lock"},
         UNCHANGED cur \/ cur' = [cur EXCEPT ![t] = NoConn], UNCHANGED <<pool, batch>>,
         \A x \in Conns : x # cur[t] => status'[x] = status[x]
  PROVE  IdleInv'
<1>1. \A u \in Threads : u # t => cur'[u] = cur[u]
  BY DEF TypeOK
<1>2. \A u \in Threads : Adding(u)' => Adding(u) /\ cur'[u] = cur[u] /\ u # t
  BY <1>1, GoesOn
<1>3. \A x \in Conns : Ready(x)' => Ready(x)
  BY <1>2, ReadyLess DEF InDeque, Taken
<1>5. PICK y \in Conns : y = cur[t]
  OBVIOUS
<1>6. ~Ready(y)'
  <2>1. Held(y) /\ ApartAt(y)
    BY <1>5 DEF Held, Sharing, Apart
  <2>2. ~InDeque(y) /\ ~Taken(y)
    BY <2>1 DEF ApartAt
  <2>3. ~InDeque(y)' /\ ~Taken(y)'
    BY <2>2 DEF InDeque, Taken
  <2>4. \A u \in Threads : Adding(u)' => cur'[u] # y
    <3>1. y # NoConn
      BY ConstantsAssumption DEF NoConn
    <3> QED
      BY <1>2, <1>5, <3>1 DEF Sharing, CurOnce
  <2> QED
    BY <2>3, <2>4 DEF Ready
<1> QED
  BY <1>3, <1>5, <1>6, IdleKept

\* The same steps, one by one.
LEMMA IdleUses ==
  ASSUME TypeInv, Sharing, IdleInv, NEW t \in Threads,
         \/ t \in Clients /\ (check_fails(t) \/ check_interrupted(t) \/ putconn(t))
         \/ t \in Workers /\ _shrink_close(t)
  PROVE  IdleInv'
<1>1. TypeOK /\ cur[t] \in Conns
  BY DEF TypeInv, ThreadsHeld, Holding, check_fails, check_interrupted, putconn, _shrink_close,
         At
<1>2. PICK l \in {"putconn", "idle"} : pc' = [pc EXCEPT ![t] = l]
  BY DEF check_fails, check_interrupted, putconn, _shrink_close, Goto
<1>3. /\ UNCHANGED cur \/ cur' = [cur EXCEPT ![t] = NoConn]
      /\ UNCHANGED <<pool, batch>>
  BY DEF check_fails, check_interrupted, putconn, _shrink_close, adminVars
<1>4. \A x \in Conns : x # cur[t] => status'[x] = status[x]
  BY <1>1 DEF check_fails, check_interrupted, putconn, _shrink_close, TypeOK
<1> QED
  BY <1>1, <1>2, <1>3, <1>4, IdleUsed

\* The return of a connection: it goes to the pool only if it was reset.
LEMMA IdleReturn ==
  ASSUME TypeInv, Sharing, IdleInv, NEW t \in Threads, Return(t)
  PROVE  IdleInv'
<1>1. TypeOK /\ cur[t] \in Conns
  BY DEF TypeInv, ThreadsHeld, Holding, Return, _return_connection, _add_to_pool_early,
         _add_to_pool, At
<1>2. After(t) \notin {"add_check", "add_lock"}
  BY DEF After, AfterPut
<1>3. CASE _return_connection(t)
  <2>1. UNCHANGED <<pool, batch>>
    BY <1>3 DEF _return_connection, adminVars
  <2>2. CASE /\ status' = [status EXCEPT ![cur[t]] = "UNKNOWN"]
             /\ Replace(t) /\ Goto(t, After(t))
    BY <1>1, <1>2, <2>1, <2>2, IdleUsed DEF Replace, Goto, TypeOK
  <2>3. ASSUME NEW s \in ResetStatus(status[cur[t]]), s # "UNKNOWN",
               status' = [status EXCEPT ![cur[t]] = s],
               Goto(t, "add_check"), UNCHANGED cur
        PROVE  IdleInv'
    <3>1. s = "IDLE"
      BY <2>3 DEF ResetStatus
    <3>2. status'[cur[t]] = "IDLE" /\ \A x \in Conns : x # cur[t] => status'[x] = status[x]
      BY <1>1, <2>3, <3>1 DEF TypeOK
    <3>3. \A u \in Threads : Adding(u)' => Adding(u) \/ u = t
      BY <2>3 DEF Adding, Goto, TypeOK
    <3>4. \A x \in Conns : Ready(x)' => Ready(x) \/ x = cur[t]
      BY <2>1, <2>3, <3>3 DEF Ready, InDeque, Taken
    <3> QED
      BY <3>2, <3>4, IdleKept
  <2> QED
    BY <1>3, <2>2, <2>3 DEF _return_connection
<1>4. CASE CloseCur(t) /\ UNCHANGED <<pool, batch>>
  BY <1>1, <1>2, <1>4, IdleUsed DEF CloseCur, Goto, TypeOK
<1>5. CASE _add_to_pool_early(t) /\ UNCHANGED <<status, cur>> /\ Goto(t, "add_lock")
  <2>1. UNCHANGED <<pool, batch>> /\ Adding(t)
    BY <1>5 DEF _add_to_pool_early, adminVars, Adding, At
  <2>2. \A u \in Threads : Adding(u)' => Adding(u)
    BY <1>5, <2>1 DEF Adding, Goto, TypeOK
  <2>3. \A x \in Conns : Ready(x)' => Ready(x)
    BY <1>5, <2>1, <2>2 DEF Ready, InDeque, Taken
  <2> QED
    BY <1>5, <2>3, IdleKept
<1>6. CASE _add_to_pool(t) /\ ~ClosedForReal
  <2>1. /\ Goto(t, After(t)) /\ cur' = [cur EXCEPT ![t] = NoConn] /\ Adding(t)
        /\ pool' = pool \/ pool' = Append(pool, cur[t])
        /\ UNCHANGED <<status, batch>>
    BY <1>6 DEF _add_to_pool, Serve, adminVars, Adding, At
  <2>2. \A u \in Threads : u # t => cur'[u] = cur[u]
    BY <2>1 DEF TypeOK
  <2>3. \A u \in Threads : Adding(u)' => Adding(u) /\ cur'[u] = cur[u]
    BY <1>1, <1>2, <2>1, <2>2, GoesOn DEF Goto
  <2>4. \A x : InDeque(x)' => InDeque(x) \/ x = cur[t]
    <3>1. CASE pool' = pool
      BY <3>1 DEF InDeque
    <3>2. CASE pool' = Append(pool, cur[t])
      BY <1>1, <3>2 DEF InDeque, TypeOK
    <3> QED
      BY <2>1, <3>1, <3>2
  <2>5. \A x \in Conns : Taken(x)' => Taken(x)
    BY <2>1 DEF Taken
  <2>6. \A x \in Conns : Ready(x)' => Ready(x)
    BY <2>1, <2>3, <2>4, <2>5 DEF Ready
  <2> QED
    BY <2>1, <2>6, IdleKept
<1> QED
  BY <1>3, <1>4, <1>5, <1>6 DEF Return, _add_to_pool_early, _add_to_pool, adminVars

\* A worker takes a task; the connection of one that a closed pool discards is
\* nowhere else.
LEMMA IdleWorker ==
  ASSUME TypeInv, Sharing, IdleInv, NEW w \in Workers, worker(w)
  PROVE  IdleInv'
<1>1. TypeOK /\ w \in Threads /\ UNCHANGED <<pool, batch>>
  BY DEF TypeInv, worker, adminVars, Threads
<1>2. pc[w] = "idle" /\ tasks # <<>> /\ tasks' = Tail(tasks)
  BY DEF worker, At
<1>3. UNCHANGED pc \/ \E l \in {"stopped", "connecting", "returning", "shrinking"} :
                         pc' = [pc EXCEPT ![w] = l]
  BY DEF worker, Goto
<1>4. \A u \in Threads : u # w => cur'[u] = cur[u]
  BY <1>1 DEF worker, TypeOK
<1>5. \A u \in Threads : Adding(u)' => Adding(u) /\ cur'[u] = cur[u]
  BY <1>1, <1>2, <1>3, <1>4 DEF Adding, TypeOK
<1>6. \A x \in Conns : Ready(x)' => Ready(x)
  BY <1>1, <1>5, ReadyLess DEF InDeque, Taken
<1>7. PICK y : y = Head(tasks).conn
  OBVIOUS
<1>8. \A x \in Conns : x # y => status'[x] = status[x]
  BY <1>7 DEF worker
<1>9. CASE UNCHANGED status
  BY <1>6, <1>9, IdleKept
<1>10. ASSUME y \in Conns
       PROVE  ~Ready(y)
  <2>1. Returned(y) /\ ApartAt(y)
    BY <1>1, <1>2, <1>7, <1>10, TasksPop DEF Sharing, Apart
  <2>2. ~InDeque(y) /\ ~Taken(y) /\ ~Held(y)
    BY <2>1 DEF ApartAt
  <2> QED
    BY <2>2 DEF Ready, Held
<1> QED
  BY <1>6, <1>8, <1>10, IdleKept

\* A new connection is idle.
LEMMA IdleConnect ==
  ASSUME TypeInv, Sharing, IdleInv, NEW w \in Workers, _connect(w)
  PROVE  IdleInv'
<1>1. PICK y \in Conns : /\ cur' = [cur EXCEPT ![w] = y]
                         /\ status' = [status EXCEPT ![y] = "IDLE"]
  BY DEF _connect
<1>2. TypeOK /\ w \in Threads /\ UNCHANGED <<pool, batch>> /\ pc' = [pc EXCEPT ![w] = "add_check"]
  BY DEF TypeInv, _connect, adminVars, Threads, Goto
<1>3. \A x \in Conns : status'[x] = IF x = y THEN "IDLE" ELSE status[x]
  BY <1>1, <1>2 DEF TypeOK
<1>4. \A u \in Threads : u # w => cur'[u] = cur[u] /\ pc'[u] = pc[u]
  BY <1>1, <1>2 DEF TypeOK
<1>5. cur'[w] = y
  BY <1>1, <1>2 DEF TypeOK
<1>6. \A x \in Conns : Ready(x)' => Ready(x) \/ x = y
  BY <1>2, <1>4, <1>5 DEF Ready, InDeque, Taken, Adding
<1> QED
  BY <1>3, <1>6, IdleKept

\* close() and check() take what is idle, and touch no connection then.
LEMMA IdleTake ==
  ASSUME TypeInv, Sharing, IdleInv, NEW a \in Admins, close_lock(a) \/ check(a)
  PROVE  IdleInv'
<1>1. /\ TypeOK /\ a \in Threads /\ TakeIdle(a) /\ UNCHANGED <<cur, status>>
      /\ \E l \in {"gather", "check_next"} : pc' = [pc EXCEPT ![a] = l]
  BY DEF TypeInv, close_lock, check, Threads, Goto
<1>2. \A u \in Threads : Adding(u)' => Adding(u) /\ cur'[u] = cur[u]
  BY <1>1, GoesOn
<1>3. (\A x : ~InDeque(x)') /\ \A x : Taken(x)' => Taken(x) \/ InDeque(x)
  BY <1>1, BatchTake
<1>4. \A x \in Conns : Ready(x)' => Ready(x)
  BY <1>2, <1>3, ReadyLess
<1> QED
  BY <1>1, <1>4, IdleKept

\* check() drops a connection that nobody else has, or puts back an idle one.
LEMMA IdleCheckNext ==
  ASSUME TypeInv, Sharing, IdleInv, NEW a \in Admins, check_next(a)
  PROVE  IdleInv'
<1>1. TypeOK /\ a \in Threads /\ UNCHANGED pool /\ pc[a] = "check_next"
  BY DEF TypeInv, check_next, Threads, At
<1>2. CASE batch[a] = <<>>
  <2>1. UNCHANGED <<status, cur, batch>> /\ pc' = [pc EXCEPT ![a] = "start"]
    BY <1>2 DEF check_next, Goto
  <2>2. \A u \in Threads : Adding(u)' => Adding(u) /\ cur'[u] = cur[u]
    BY <1>1, <2>1, GoesOn
  <2>3. \A x \in Conns : Ready(x)' => Ready(x)
    BY <1>1, <2>1, <2>2, ReadyLess DEF InDeque, Taken
  <2> QED
    BY <2>1, <2>3, IdleKept
<1>3. CASE batch[a] # <<>>
  <2>1. PICK y : y = batch[a][Len(batch[a])]
    OBVIOUS
  <2>2. batch' = [batch EXCEPT ![a] = SubSeq(@, 1, Len(@) - 1)]
    BY <1>3 DEF check_next
  <2>3. y \in Conns /\ Taken(y) /\ ~Taken(y)' /\ \A z : Taken(z)' => Taken(z)
    BY <1>1, <1>3, <2>1, <2>2, BatchPop
  <2>4. ApartAt(y)
    BY <2>3 DEF Sharing, Apart
  <2>5. ~InDeque(y) /\ ~Held(y)
    BY <2>3, <2>4 DEF ApartAt
  <2>6. CASE Discard(y) /\ UNCHANGED <<pc, cur>>
    <3>1. \A x \in Conns : x # y => status'[x] = status[x]
      BY <1>1, <2>6 DEF Discard, TypeOK
    <3>2. \A x \in Conns : Ready(x)' => Ready(x)
      BY <1>1, <2>3, <2>6, ReadyLess DEF InDeque, Adding
    <3>3. ~Ready(y)'
      BY <1>1, <2>3, <2>5, <2>6 DEF Ready, InDeque, Held
    <3> QED
      BY <3>1, <3>2, <3>3, IdleKept
  <2>7. CASE cur' = [cur EXCEPT ![a] = y] /\ Goto(a, "add_check") /\ UNCHANGED status
    <3>1. \A u \in Threads : u # a => cur'[u] = cur[u] /\ pc'[u] = pc[u]
      BY <1>1, <2>7 DEF TypeOK, Goto
    <3>2. cur'[a] = y
      BY <1>1, <2>7 DEF TypeOK
    <3>3. \A x \in Conns : Ready(x)' => Ready(x)
      BY <1>1, <2>3, <3>1, <3>2 DEF Ready, InDeque, Adding
    <3> QED
      BY <2>7, <3>3, IdleKept
  <2> QED
    BY <1>3, <2>1, <2>6, <2>7 DEF check_next
<1> QED
  BY <1>2, <1>3

\* close() closes its batch, of which nobody else has anything.
LEMMA IdleCloseConns ==
  ASSUME TypeInv, Sharing, IdleInv, NEW a \in Admins, close_conns(a)
  PROVE  IdleInv'
<1>1. /\ TypeOK /\ a \in Threads /\ UNCHANGED <<pool, cur>>
      /\ batch' = [batch EXCEPT ![a] = <<>>] /\ pc' = [pc EXCEPT ![a] = "fail"]
      /\ \A x \in Conns : x \notin Elems(batch[a]) => status'[x] = status[x]
  BY DEF TypeInv, close_conns, Threads, Goto
<1>2. \A b \in Admins : batch'[b] = IF b = a THEN <<>> ELSE batch[b]
  BY <1>1 DEF TypeOK
<1>3. \A u \in Threads : Adding(u)' => Adding(u) /\ cur'[u] = cur[u]
  BY <1>1, GoesOn
<1>4. \A x : Taken(x)' => Taken(x)
  BY <1>2 DEF Taken
<1>5. \A x \in Conns : Ready(x)' => Ready(x)
  BY <1>1, <1>3, <1>4, ReadyLess DEF InDeque
<1>6. ASSUME NEW y \in Conns, y \in Elems(batch[a])
      PROVE  ~Ready(y)'
  <2>1. PICK i \in DOMAIN batch[a] : batch[a][i] = y
    BY <1>6 DEF Elems
  <2>2. Taken(y) /\ ApartAt(y)
    BY <2>1 DEF Taken, Sharing, Apart
  <2>3. ~InDeque(y) /\ ~Held(y)
    BY <2>2 DEF ApartAt
  <2>4. ~Taken(y)'
    BY <1>2, <2>1 DEF Sharing, BatchOnce, Taken
  <2> QED
    BY <1>1, <2>3, <2>4 DEF Ready, InDeque, Held
<1> QED
  BY <1>1, <1>5, <1>6, IdleKept

\* A step of t that leaves statuses alone, and adds nothing to the pool.
LEMMA IdleQuiet ==
  ASSUME TypeOK, IdleInv, UNCHANGED <<status, batch>>,
         UNCHANGED pool \/ (pool # <<>> /\ pool' = Tail(pool)),
         NEW t \in Threads, \A u \in Threads : u # t => cur'[u] = cur[u],
         UNCHANGED pc \/ \E l : pc' = [pc EXCEPT ![t] = l] /\ l \notin {"add_check", "add_lock"},
         UNCHANGED pc => UNCHANGED cur
  PROVE  IdleInv'
<1>1. \A x \in Conns : InDeque(x)' => InDeque(x)
  <2>1. CASE UNCHANGED pool
    BY <2>1 DEF InDeque
  <2>2. CASE pool # <<>> /\ pool' = Tail(pool)
    BY <2>2 DEF InDeque, TypeOK
  <2> QED
    BY <2>1, <2>2
<1>2. \A u \in Threads : Adding(u)' => Adding(u) /\ cur'[u] = cur[u]
  <2>1. CASE UNCHANGED pc
    BY <2>1 DEF Adding
  <2>2. ASSUME NEW l, pc' = [pc EXCEPT ![t] = l], l \notin {"add_check", "add_lock"}
        PROVE  \A u \in Threads : Adding(u)' => Adding(u) /\ cur'[u] = cur[u]
    BY <2>2, GoesOn
  <2> QED
    BY <2>1, <2>2
<1>3. \A x \in Conns : Ready(x)' => Ready(x)
  BY <1>1, <1>2, ReadyLess DEF Taken
<1> QED
  BY <1>3, IdleKept

\* The steps of the clients.
LEMMA IdleClient ==
  ASSUME TypeInv, IdleInv, NEW c \in Clients,
         \/ getconn(c) \/ getconn_timeout(c) \/ wait_broken(c) \/ getconn_refused(c)
         \/ getconn_enqueue(c) \/ check_passes(c) \/ backoff(c)
         \/ _get_ready_connection(c) \/ wait_returns(c) \/ _putconn(c)
  PROVE  IdleInv'
<1>1. TypeOK /\ c \in Threads /\ UNCHANGED <<status, batch>>
  BY DEF TypeInv, Threads, getconn, getconn_timeout, wait_broken, getconn_refused,
         getconn_enqueue, check_passes, backoff, _get_ready_connection, wait_returns, _putconn,
         adminVars
<1>2. UNCHANGED pool \/ (pool # <<>> /\ pool' = Tail(pool))
  BY DEF getconn, getconn_timeout, wait_broken, getconn_refused,
         getconn_enqueue, check_passes, backoff, _get_ready_connection, wait_returns, _putconn
<1>3. UNCHANGED cur \/ \E x : cur' = [cur EXCEPT ![c] = x]
  BY DEF getconn, getconn_timeout, wait_broken, getconn_refused,
         getconn_enqueue, check_passes, backoff, _get_ready_connection, wait_returns, _putconn
<1>4. \/ UNCHANGED <<pc, cur>>
      \/ \E l \in {"getconn", "idle", "waiting", "using", "checking", "backoff", "returning"} :
           pc' = [pc EXCEPT ![c] = l]
  <2>1. CASE wait_broken(c)
    BY <2>1 DEF wait_broken
  <2>2. CASE _putconn(c)
    BY <2>2 DEF _putconn, Goto, AfterPut
  <2>3. CASE \/ getconn(c) \/ getconn_timeout(c) \/ getconn_refused(c)
             \/ getconn_enqueue(c) \/ check_passes(c) \/ backoff(c)
             \/ _get_ready_connection(c) \/ wait_returns(c)
    BY <2>3
       DEF getconn, getconn_timeout, getconn_refused, getconn_enqueue, check_passes, backoff,
           _get_ready_connection, wait_returns, Goto
  <2> QED
    BY <2>1, <2>2, <2>3
<1>5. \A u \in Threads : u # c => cur'[u] = cur[u]
  BY <1>1, <1>3 DEF TypeOK
<1>6. pc \in [Threads -> Labels]
  BY <1>1 DEF TypeOK
<1>7. UNCHANGED pc => UNCHANGED cur
  <2>1. CASE wait_broken(c)
    BY <2>1 DEF wait_broken
  <2>2. CASE ~wait_broken(c)
    <3>1. pc[c] # "backoff" => pc'[c] # pc[c]
      BY <1>1, <1>6, <2>2
         DEF getconn, getconn_timeout, getconn_refused, getconn_enqueue, check_passes, backoff,
             _get_ready_connection, wait_returns, _putconn, Goto, At, AfterPut
    <3>2. pc[c] = "backoff" => UNCHANGED cur
      BY <2>2
         DEF getconn, getconn_timeout, getconn_refused, getconn_enqueue, check_passes, backoff,
             _get_ready_connection, wait_returns, _putconn, At
    <3> QED
      BY <3>1, <3>2
  <2> QED
    BY <2>1, <2>2
<1> QED
  BY <1>1, <1>2, <1>4, <1>5, <1>7, IdleQuiet

\* The steps of the workers.
LEMMA IdleWorkers ==
  ASSUME TypeInv, IdleInv, NEW w \in Workers,
         _connect_fails(w) \/ _add_connection_grow(w) \/ _shrink_pool(w)
  PROVE  IdleInv'
<1>1. TypeOK /\ w \in Threads /\ UNCHANGED <<status, batch>>
  BY DEF TypeInv, Threads, _connect_fails, _add_connection_grow, _shrink_pool, adminVars
<1>2. /\ UNCHANGED pool \/ (pool # <<>> /\ pool' = Tail(pool))
      /\ UNCHANGED cur \/ \E x : cur' = [cur EXCEPT ![w] = x]
      /\ \E l \in {"idle", "shrunk"} : pc' = [pc EXCEPT ![w] = l] /\ pc[w] # l
  BY DEF _connect_fails, _add_connection_grow, _shrink_pool, CanShrink, Goto, At
<1>3. \A u \in Threads : u # w => cur'[u] = cur[u]
  BY <1>1, <1>2 DEF TypeOK
<1>4. pc' # pc
  BY <1>1, <1>2 DEF TypeOK
<1> QED
  BY <1>1, <1>2, <1>3, <1>4, IdleQuiet

\* The steps of the admin threads.
LEMMA IdleAdmin ==
  ASSUME TypeInv, IdleInv, NEW a \in Admins,
         \/ close(a) \/ close_fail(a) \/ resize(a) \/ resize_lock(a) \/ resize_run(a)
         \/ wait(a) \/ wait_lock(a) \/ wait_ends(a)
  PROVE  IdleInv'
<1>1. TypeOK /\ a \in Threads /\ UNCHANGED <<status, batch, pool, cur>>
  BY DEF TypeInv, Threads, close, close_fail, resize, resize_lock, resize_run, wait, wait_lock,
         wait_ends, adminVars
<1>2. \/ UNCHANGED pc
      \/ \E l \in {"done", "close_lock", "resize_lock", "resize_run", "wait_lock", "await_full"} :
           pc' = [pc EXCEPT ![a] = l]
  BY DEF close, close_fail, resize, resize_lock, resize_run, wait, wait_lock, wait_ends, Goto
<1> QED
  BY <1>1, <1>2, IdleQuiet

\* Every step keeps idle connections ready.
LEMMA IdleStep == TypeInv /\ Sharing /\ IdleInv /\ [Next]_vars => IdleInv'
<1> SUFFICES ASSUME TypeInv, Sharing, IdleInv, [Next]_vars
             PROVE  IdleInv'
  OBVIOUS
<1>t. TypeOK
  BY DEF TypeInv
<1>q. (\A x \in Conns : Ready(x)' => Ready(x)) /\ UNCHANGED status => IdleInv'
  BY IdleKept
<1>1. ASSUME NEW c \in Clients, ClientStep(c)
      PROVE  IdleInv'
  BY <1>1, IdleClient, IdleUses, IdleReturn DEF ClientStep, Request, Threads
<1>2. ASSUME NEW w \in Workers, WorkerStep(w)
      PROVE  IdleInv'
  BY <1>2, IdleWorker, IdleWorkers, IdleUses, IdleConnect, IdleReturn
     DEF WorkerStep, Work, Threads
<1>3. ASSUME NEW a \in Admins, AdminStep(a)
      PROVE  IdleInv'
  BY <1>3, IdleAdmin, IdleTake, IdleCheckNext, IdleCloseConns, IdleReturn
     DEF AdminStep, Administer, Threads
<1>4. CASE open
  <2>1. UNCHANGED <<pool, batch, cur, status>> /\ \A t \in Threads : Adding(t)' => Adding(t)
    BY <1>4 DEF open, adminVars, Adding
  <2> QED
    BY <1>q, <2>1 DEF Ready, InDeque, Taken
<1>5. ASSUME NEW k \in DelayedKinds, tick(k)
      PROVE  IdleInv'
  BY <1>5, <1>q DEF tick, adminVars, Ready, InDeque, Taken, Adding
<1>6. CASE UNCHANGED vars
  BY <1>6, <1>q DEF vars, Ready, InDeque, Taken, Adding
<1> QED
  BY <1>1, <1>2, <1>3, <1>4, <1>5, <1>6 DEF Next

\* An empty pool is idle.
LEMMA IdleInit == Init => IdleInv
<1> SUFFICES ASSUME Init, NEW x \in Conns
             PROVE  ~Ready(x)
  BY DEF IdleInv
<1>1. /\ pool = <<>> /\ \A a \in Admins : batch[a] = <<>>
      /\ \A t \in Threads : ~Adding(t)
  BY DEF Init, Adding
<1> HIDE DEF Init
<1> QED
  BY <1>1 DEF Ready, InDeque, Taken

\* Which is what PoolIsIdle says.
LEMMA ReadyIsIdle == TypeOK /\ IdleInv => PoolIsIdle
  BY DEF IdleInv, PoolIsIdle, Ready, InDeque, TypeOK

\* A connection in the pool is open and in no transaction: what a client, the
\* check of a getconn(), or a reset left it in never gets there.
THEOREM PoolIsIdleCorrect == Spec => []PoolIsIdle
<1>1. TypeInv => TypeOK
  BY DEF TypeInv
<1> QED
  BY <1>1, IdleInit, IdleStep, ReadyIsIdle, SharingInit, SharingStep, TypeInit, TypeStep, PTL
     DEF Spec

-----------------------------------------------------------------------------
(* What the place of a thread says of its variables                         *)

\* Only a thread in these places has a connection.
HeldOnly == \A t \in Threads : pc[t] \notin Holding => cur[t] = NoConn

\* Only a thread that gives connections back, or closes them, has a batch.
Reviewing == {"check_next", "returning", "add_check", "add_lock", "gather"}
BatchesHeld == \A a \in Admins : pc[a] \notin Reviewing => batch[a] = <<>>

\* A worker has a growing task from the moment it takes it to the moment it
\* decides whether to grow again.
Growing == {"connecting", "add_check", "add_lock", "grow"}
JobsHeld == \A w \in Workers : /\ job[w].growing => pc[w] \in Growing
                               /\ pc[w] = "grow" => job[w].growing

\* Nothing happens to a pool before it is open, but a close() that does nothing.
NotOpened ==
  ~opened => /\ closed /\ ~growing /\ pool = <<>> /\ tasks = <<>> /\ nconns = MinSize
             /\ min_size = MinSize /\ max_size = MaxSize
             /\ \A k \in DelayedKinds : sched[k] = 0
             /\ \A c \in Clients : pc[c] = "idle"
             /\ \A w \in Workers : pc[w] = "off"
             /\ \A a \in Admins : pc[a] \in {"start", "done"}

ControlInv == HeldOnly /\ BatchesHeld /\ JobsHeld /\ NotOpened

\* Before open() no thread of the pool runs.
LEMMA NotOpenedStep ==
  ASSUME TypeInv, NotOpened, [Next]_vars
  PROVE  NotOpened'
<1> SUFFICES ASSUME ~opened'
             PROVE  NotOpened'
  BY DEF NotOpened
<1>t. pc \in [Threads -> Labels]
  BY DEF TypeInv, TypeOK
<1>d. \A a \in Admins : a \notin Clients /\ a \notin Workers
  BY ThreadsAssumption
<1>0. ~opened
  <2>1. ASSUME NEW t \in Threads, Return(t)
        PROVE  opened' = opened
    BY <2>1 DEF Return, _return_connection, _add_to_pool_early, _add_to_pool, flagVars
  <2>2. ASSUME NEW c \in Clients, ClientStep(c)
        PROVE  opened' = opened
    BY <2>1, <2>2
       DEF ClientStep, Request, Threads, flagVars, getconn, getconn_timeout, wait_broken,
           getconn_refused, getconn_enqueue, check_passes, check_fails, check_interrupted,
           backoff, putconn, _get_ready_connection, wait_returns, _putconn
  <2>3. ASSUME NEW w \in Workers, WorkerStep(w)
        PROVE  opened' = opened
    BY <2>1, <2>3
       DEF WorkerStep, Work, Threads, flagVars, worker, _connect, _connect_fails,
           _add_connection_grow, _shrink_pool, _shrink_close
  <2>4. ASSUME NEW a \in Admins, AdminStep(a)
        PROVE  opened' = opened
    BY <2>1, <2>4
       DEF AdminStep, Administer, Threads, flagVars, close, close_lock, close_conns, close_fail,
           check, check_next, resize, resize_lock, resize_run, wait, wait_lock, wait_ends
  <2>5. open => opened'
    BY DEF open
  <2> QED
    BY <2>2, <2>3, <2>4, <2>5 DEF Next, tick, flagVars, vars
<1> USE <1>0 DEF NotOpened
<1>1. ASSUME NEW t \in Threads, Return(t)
      PROVE  FALSE
  BY <1>1 DEF Return, _return_connection, _add_to_pool_early, _add_to_pool, At, Threads
<1>2. ASSUME NEW c \in Clients, ClientStep(c)
      PROVE  FALSE
  BY <1>1, <1>2
     DEF ClientStep, Request, Threads, At, getconn, getconn_timeout, wait_broken,
         getconn_refused, getconn_enqueue, check_passes, check_fails, check_interrupted,
         backoff, putconn, _get_ready_connection, wait_returns, _putconn
<1>3. ASSUME NEW w \in Workers, WorkerStep(w)
      PROVE  FALSE
  BY <1>1, <1>3
     DEF WorkerStep, Work, Threads, At, worker, _connect, _connect_fails,
         _add_connection_grow, _shrink_pool, _shrink_close
<1>4. ASSUME NEW a \in Admins, AdminStep(a)
      PROVE  NotOpened'
  <2>1. CASE close(a)
    <3>1. pc' = [pc EXCEPT ![a] = "done"]
      BY <2>1 DEF close, Goto
    <3> QED
      BY <1>t, <1>d, <2>1, <3>1
         DEF close, flagVars, sizeVars, growVars, taskVars, Threads
  <2> QED
    BY <1>1, <1>4, <2>1
       DEF AdminStep, Administer, Threads, At, close_lock, close_conns, close_fail,
           check, check_next, resize, resize_lock, resize_run, wait, wait_lock, wait_ends
<1>5. CASE UNCHANGED vars
  BY <1>5 DEF vars
<1>6. ~open /\ \A k \in DelayedKinds : ~tick(k)
  BY DEF open, tick
<1> QED
  BY <1>2, <1>3, <1>4, <1>5, <1>6 DEF Next

\* Only in these places a thread has a connection.
LEMMA HeldOnlyStep ==
  ASSUME TypeInv, HeldOnly, NotOpened, [Next]_vars
  PROVE  HeldOnly'
<1>t. /\ pc \in [Threads -> Labels] /\ cur \in [Threads -> Conns \cup {NoConn}]
      /\ Clients \subseteq Threads /\ Workers \subseteq Threads /\ Admins \subseteq Threads
  BY DEF TypeInv, TypeOK, Threads
<1>k. ASSUME NEW t \in Threads, \A u \in Threads : u # t => cur'[u] = cur[u] /\ pc'[u] = pc[u],
             pc'[t] \in Holding \/ cur'[t] = NoConn
      PROVE  HeldOnly'
  BY <1>k DEF HeldOnly
<1>1. ASSUME NEW t \in Threads, Return(t)
      PROVE  HeldOnly'
  <2>1. CASE _return_connection(t)
    BY <1>k, <1>t, <2>1 DEF _return_connection, Replace, Goto, Holding
  <2>2. CASE _add_to_pool_early(t)
    BY <1>k, <1>t, <2>2 DEF _add_to_pool_early, CloseCur, Goto, Holding
  <2>3. CASE _add_to_pool(t)
    BY <1>k, <1>t, <2>3 DEF _add_to_pool, CloseCur, Goto, Holding
  <2> QED
    BY <1>1, <2>1, <2>2, <2>3 DEF Return
<1>2. ASSUME NEW c \in Clients, ClientStep(c)
      PROVE  HeldOnly'
  <2>1. CASE \/ getconn(c) \/ getconn_timeout(c) \/ getconn_refused(c) \/ getconn_enqueue(c)
             \/ wait_broken(c) \/ check_passes(c) \/ check_fails(c) \/ backoff(c)
    <3>1. UNCHANGED cur
      BY <2>1 DEF getconn, getconn_timeout, getconn_refused, getconn_enqueue, wait_broken,
                  check_passes, check_fails, backoff
    <3>2. pc[c] \in Holding => pc'[c] \in Holding
      BY <1>t, <2>1
         DEF getconn, getconn_timeout, getconn_refused, getconn_enqueue, wait_broken,
             check_passes, check_fails, backoff, At, Goto, Holding
    <3>3. \A u \in Threads : u # c => pc'[u] = pc[u]
      BY <1>t, <2>1
         DEF getconn, getconn_timeout, getconn_refused, getconn_enqueue, wait_broken,
             check_passes, check_fails, backoff, Goto
    <3> QED
      BY <1>t, <3>1, <3>2, <3>3 DEF HeldOnly
  <2>2. CASE _get_ready_connection(c) \/ wait_returns(c)
    BY <1>k, <1>t, <2>2 DEF _get_ready_connection, wait_returns, Goto, Holding
  <2>3. CASE check_interrupted(c) \/ putconn(c) \/ _putconn(c)
    BY <1>k, <1>t, <2>3 DEF check_interrupted, putconn, _putconn, Goto, Holding
  <2> QED
    BY <1>1, <1>2, <1>t, <2>1, <2>2, <2>3 DEF ClientStep, Request
<1>3. ASSUME NEW w \in Workers, WorkerStep(w)
      PROVE  HeldOnly'
  <2>1. CASE worker(w)
    <3>1. cur[w] = NoConn
      BY <1>t, <2>1 DEF worker, At, HeldOnly, Holding
    <3> QED
      BY <1>k, <1>t, <2>1, <3>1 DEF worker, Goto, Holding
  <2>2. CASE _connect(w) \/ _shrink_close(w)
    BY <1>k, <1>t, <2>2 DEF _connect, _shrink_close, Goto, Holding
  <2>3. CASE _connect_fails(w) \/ _add_connection_grow(w) \/ _shrink_pool(w)
    <3>1. cur[w] = NoConn
      BY <1>t, <2>3 DEF _connect_fails, _add_connection_grow, _shrink_pool, At, HeldOnly, Holding
    <3> QED
      BY <1>k, <1>t, <2>3, <3>1
         DEF _connect_fails, _add_connection_grow, _shrink_pool, Goto, Holding
  <2> QED
    BY <1>1, <1>3, <1>t, <2>1, <2>2, <2>3 DEF WorkerStep, Work
<1>4. ASSUME NEW a \in Admins, AdminStep(a)
      PROVE  HeldOnly'
  <2>1. CASE ~Return(a)
    <3>1. cur[a] = NoConn
      BY <1>4, <1>t, <2>1
         DEF AdminStep, Administer, close, close_lock, close_conns, close_fail, check,
             check_next, resize, resize_lock, resize_run, wait, wait_lock, wait_ends, At,
             HeldOnly, Holding
    <3>2. CASE check_next(a)
      BY <1>k, <1>t, <3>1, <3>2 DEF check_next, Goto, Holding
    <3>3. CASE \/ close(a) \/ close_lock(a) \/ close_conns(a) \/ close_fail(a) \/ check(a)
      BY <1>k, <1>t, <3>1, <3>3
         DEF close, close_lock, close_conns, close_fail, check, Goto
    <3>4. CASE \/ resize(a) \/ resize_lock(a) \/ resize_run(a) \/ wait(a)
               \/ wait_lock(a) \/ wait_ends(a)
      BY <1>k, <1>t, <3>1, <3>4
         DEF resize, resize_lock, resize_run, wait, wait_lock, wait_ends, Goto
    <3> QED
      BY <1>4, <2>1, <3>2, <3>3, <3>4 DEF AdminStep, Administer
  <2> QED
    BY <1>1, <1>t, <2>1
<1>5. CASE open
  <2>1. \A w \in Workers : cur[w] = NoConn
    BY <1>5, <1>t DEF open, NotOpened, HeldOnly, Holding
  <2> QED
    BY <1>5, <1>t, <2>1 DEF open, HeldOnly
<1>6. ASSUME NEW k \in DelayedKinds, tick(k)
      PROVE  HeldOnly'
  BY <1>6 DEF tick, HeldOnly
<1>7. CASE UNCHANGED vars
  BY <1>7 DEF vars, HeldOnly
<1> QED
  BY <1>2, <1>3, <1>4, <1>5, <1>6, <1>7 DEF Next

\* Only check() and close() have a batch.
LEMMA BatchesHeldStep ==
  ASSUME TypeInv, BatchesHeld, [Next]_vars
  PROVE  BatchesHeld'
<1>t. /\ pc \in [Threads -> Labels] /\ batch \in [Admins -> Seq(Conns)]
      /\ Clients \subseteq Threads /\ Workers \subseteq Threads /\ Admins \subseteq Threads
  BY DEF TypeInv, TypeOK, Threads
<1>d. \A a \in Admins : a \notin Clients /\ a \notin Workers
  BY ThreadsAssumption
<1>k. ASSUME NEW t \in Threads, UNCHANGED batch,
             \A u \in Threads : u # t => pc'[u] = pc[u],
             t \in Admins /\ pc[t] \in Reviewing => pc'[t] \in Reviewing
      PROVE  BatchesHeld'
  BY <1>k, <1>t DEF BatchesHeld
<1>1. ASSUME NEW t \in Threads, Return(t)
      PROVE  BatchesHeld'
  <2>1. UNCHANGED batch
    BY <1>1 DEF Return, _return_connection, _add_to_pool_early, _add_to_pool, adminVars
  <2>2. t \in Admins => After(t) = "check_next"
    BY <1>d DEF After
  <2>3. \E l : pc' = [pc EXCEPT ![t] = l] /\ l \in {"add_check", "add_lock", After(t)}
    BY <1>1 DEF Return, _return_connection, _add_to_pool_early, _add_to_pool, CloseCur, Goto
  <2> QED
    BY <1>k, <1>t, <2>1, <2>2, <2>3 DEF Reviewing
<1>2. ASSUME NEW c \in Clients, ClientStep(c)
      PROVE  BatchesHeld'
  <2>1. CASE ~Return(c)
    <3>1. UNCHANGED batch /\ (UNCHANGED pc \/ \E l : pc' = [pc EXCEPT ![c] = l])
      BY <1>2, <2>1
         DEF ClientStep, Request, Goto, adminVars, getconn, getconn_timeout, wait_broken,
             getconn_refused, getconn_enqueue, check_passes, check_fails, check_interrupted,
             backoff, putconn, _get_ready_connection, wait_returns, _putconn
    <3> QED
      BY <1>d, <1>k, <1>t, <3>1
  <2> QED
    BY <1>1, <1>t, <2>1
<1>3. ASSUME NEW w \in Workers, WorkerStep(w)
      PROVE  BatchesHeld'
  <2>1. CASE ~Return(w)
    <3>1. UNCHANGED batch /\ (UNCHANGED pc \/ \E l : pc' = [pc EXCEPT ![w] = l])
      BY <1>3, <2>1
         DEF WorkerStep, Work, Goto, adminVars, worker, _connect, _connect_fails,
             _add_connection_grow, _shrink_pool, _shrink_close
    <3> QED
      BY <1>d, <1>k, <1>t, <3>1
  <2> QED
    BY <1>1, <1>t, <2>1
<1>4. ASSUME NEW a \in Admins, AdminStep(a)
      PROVE  BatchesHeld'
  <2>1. CASE check(a) \/ close_lock(a)
    BY <1>t, <2>1 DEF check, close_lock, TakeIdle, Goto, BatchesHeld, Reviewing
  <2>2. CASE check_next(a)
    BY <1>t, <2>2 DEF check_next, At, Goto, BatchesHeld, Reviewing
  <2>3. CASE close_conns(a)
    BY <1>t, <2>3 DEF close_conns, Goto, BatchesHeld
  <2>4. CASE \/ close(a) \/ close_fail(a) \/ resize(a) \/ resize_lock(a) \/ resize_run(a)
             \/ wait(a) \/ wait_lock(a) \/ wait_ends(a)
    <3>1. UNCHANGED batch /\ (UNCHANGED pc \/ \E l : pc' = [pc EXCEPT ![a] = l])
      BY <2>4 DEF close, close_fail, resize, resize_lock, resize_run, wait, wait_lock,
                  wait_ends, Goto, adminVars
    <3>2. pc[a] \notin Reviewing
      BY <2>4 DEF close, close_fail, resize, resize_lock, resize_run, wait, wait_lock,
                  wait_ends, At, Reviewing
    <3> QED
      BY <1>k, <1>t, <3>1, <3>2
  <2> QED
    BY <1>1, <1>4, <1>t, <2>1, <2>2, <2>3, <2>4 DEF AdminStep, Administer
<1>5. CASE open
  BY <1>5, <1>d, <1>t DEF open, adminVars, BatchesHeld
<1>6. ASSUME NEW k \in DelayedKinds, tick(k)
      PROVE  BatchesHeld'
  BY <1>6 DEF tick, adminVars, BatchesHeld
<1>7. CASE UNCHANGED vars
  BY <1>7 DEF vars, BatchesHeld
<1> QED
  BY <1>2, <1>3, <1>4, <1>5, <1>6, <1>7 DEF Next

\* Only in these places a job is growing.
LEMMA JobsHeldStep ==
  ASSUME TypeInv, JobsHeld, NotOpened, [Next]_vars
  PROVE  JobsHeld'
<1>t. /\ pc \in [Threads -> Labels]
      /\ job \in [Workers -> [growing: BOOLEAN, retry: BOOLEAN]]
      /\ Clients \subseteq Threads /\ Workers \subseteq Threads /\ Admins \subseteq Threads
  BY DEF TypeInv, TypeOK, Threads
<1>d. \A w \in Workers : w \notin Clients /\ w \notin Admins
  BY ThreadsAssumption
<1>j. NoJob.growing = FALSE
  BY DEF NoJob, Job
<1>k. ASSUME NEW t \in Threads, UNCHANGED job, \A u \in Threads : u # t => pc'[u] = pc[u],
             t \in Workers => /\ job[t].growing => pc'[t] \in Growing
                              /\ pc'[t] = "grow" => job[t].growing
      PROVE  JobsHeld'
  BY <1>k, <1>t DEF JobsHeld
<1>1. ASSUME NEW t \in Threads, Return(t)
      PROVE  JobsHeld'
  <2>1. UNCHANGED job /\ pc[t] \in {"returning", "add_check", "add_lock"}
    BY <1>1 DEF Return, _return_connection, _add_to_pool_early, _add_to_pool, At
  <2>2. t \in Workers => After(t) = IF job[t].growing THEN "grow" ELSE "idle"
    BY <1>d DEF After
  <2>3. \E l : pc' = [pc EXCEPT ![t] = l] /\ l \in {"add_check", "add_lock", After(t)}
    BY <1>1 DEF Return, _return_connection, _add_to_pool_early, _add_to_pool, CloseCur, Goto
  <2>4. PICK l \in {"add_check", "add_lock", After(t)} : pc' = [pc EXCEPT ![t] = l]
    BY <2>3
  <2>5. pc'[t] = l /\ \A u \in Threads : u # t => pc'[u] = pc[u]
    BY <1>t, <2>4
  <2>6. t \in Workers => /\ job[t].growing => l \in Growing
                         /\ l = "grow" => job[t].growing
    BY <2>2 DEF Growing
  <2> QED
    BY <1>k, <2>1, <2>5, <2>6
<1>2. ASSUME NEW c \in Clients, ClientStep(c)
      PROVE  JobsHeld'
  <2>1. CASE ~Return(c)
    <3>1. UNCHANGED job /\ (UNCHANGED pc \/ \E l : pc' = [pc EXCEPT ![c] = l])
      BY <1>2, <2>1
         DEF ClientStep, Request, Goto, getconn, getconn_timeout, wait_broken,
             getconn_refused, getconn_enqueue, check_passes, check_fails, check_interrupted,
             backoff, putconn, _get_ready_connection, wait_returns, _putconn
    <3> QED
      BY <1>d, <1>k, <1>t, <3>1
  <2> QED
    BY <1>1, <1>t, <2>1
<1>3. ASSUME NEW w \in Workers, WorkerStep(w)
      PROVE  JobsHeld'
  <2>1. CASE worker(w)
    <3>1. ~job[w].growing
      BY <1>t, <2>1 DEF worker, At, JobsHeld, Growing
    <3> QED
      BY <1>t, <2>1, <3>1 DEF worker, Goto, JobsHeld, Growing
  <2>2. CASE _connect(w)
    <3>1. job'[w].growing = job[w].growing /\ \A v \in Workers : v # w => job'[v] = job[v]
      BY <1>t, <2>2 DEF _connect
    <3> QED
      BY <1>t, <2>2, <3>1 DEF _connect, Goto, JobsHeld, Growing
  <2>3. CASE _connect_fails(w) \/ _add_connection_grow(w)
    BY <1>j, <1>t, <2>3 DEF _connect_fails, _add_connection_grow, Goto, JobsHeld
  <2>4. CASE _shrink_pool(w) \/ _shrink_close(w)
    <3>1. ~job[w].growing
      BY <1>t, <2>4 DEF _shrink_pool, _shrink_close, At, JobsHeld, Growing
    <3> QED
      BY <1>k, <1>t, <2>4, <3>1 DEF _shrink_pool, _shrink_close, Goto
  <2> QED
    BY <1>1, <1>3, <1>t, <2>1, <2>2, <2>3, <2>4 DEF WorkerStep, Work
<1>4. ASSUME NEW a \in Admins, AdminStep(a)
      PROVE  JobsHeld'
  <2>1. CASE ~Return(a)
    <3>1. UNCHANGED job /\ (UNCHANGED pc \/ \E l : pc' = [pc EXCEPT ![a] = l])
      BY <1>4, <2>1
         DEF AdminStep, Administer, close, close_lock, close_conns, close_fail, check,
             check_next, resize, resize_lock, resize_run, wait, wait_lock, wait_ends, Goto
    <3> QED
      BY <1>d, <1>k, <1>t, <3>1
  <2> QED
    BY <1>1, <1>t, <2>1
<1>5. CASE open
  <2>1. \A w \in Workers : ~job[w].growing
    BY <1>5, <1>t DEF open, NotOpened, JobsHeld, Growing
  <2> QED
    BY <1>5, <1>t, <2>1 DEF open, JobsHeld
<1>6. ASSUME NEW k \in DelayedKinds, tick(k)
      PROVE  JobsHeld'
  BY <1>6 DEF tick, JobsHeld
<1>7. CASE UNCHANGED vars
  BY <1>7 DEF vars, JobsHeld
<1> QED
  BY <1>2, <1>3, <1>4, <1>5, <1>6, <1>7 DEF Next

\* Every step keeps the places right.
LEMMA ControlStep == TypeInv /\ ControlInv /\ [Next]_vars => ControlInv'
  BY NotOpenedStep, HeldOnlyStep, BatchesHeldStep, JobsHeldStep DEF ControlInv

\* Every thread starts outside.
LEMMA ControlInit == Init => ControlInv
<1> SUFFICES ASSUME Init
             PROVE  ControlInv
  OBVIOUS
<1>1. HeldOnly /\ BatchesHeld
  BY DEF Init, HeldOnly, BatchesHeld
<1>2. JobsHeld
  BY DEF Init, JobsHeld, NoJob, Job, Threads
<1>3. NotOpened
  BY ThreadsAssumption DEF Init, NotOpened, Threads
<1> QED
  BY <1>1, <1>2, <1>3 DEF ControlInv


-----------------------------------------------------------------------------
(* Counting                                                                  *)

\* A set that differs from S in t at most.
LEMMA OneChange ==
  ASSUME NEW S, NEW U, IsFiniteSet(S), NEW e, \A u : u # e => (u \in U <=> u \in S)
  PROVE  /\ IsFiniteSet(U) /\ Cardinality(S) \in Nat /\ Cardinality(U) \in Nat
         /\ e \in U /\ e \notin S => Cardinality(U) = Cardinality(S) + 1
         /\ e \notin U /\ e \in S => Cardinality(U) = Cardinality(S) - 1
         /\ (e \in U <=> e \in S) => Cardinality(U) = Cardinality(S)
<1>1. Cardinality(S) \in Nat
  BY FS_CardinalityType
<1>2. CASE e \in U
  <2>1. U = S \cup {e}
    BY <1>2
  <2> QED
    BY <1>1, <1>2, <2>1, FS_AddElement
<1>3. CASE e \notin U
  <2>1. U = S \ {e}
    BY <1>3
  <2>2. IsFiniteSet(U) /\ Cardinality(U) = IF e \in S THEN Cardinality(S) - 1 ELSE Cardinality(S)
    BY <2>1, FS_RemoveElement
  <2>3. Cardinality(U) \in Nat
    BY <2>2, FS_CardinalityType
  <2> QED
    BY <1>1, <1>3, <2>2, <2>3
<1> QED
  BY <1>2, <1>3

\* How many tasks of s are in K.
NQueued(s, K) == Cardinality({i \in DOMAIN s : s[i] \in K})

\* A queue has finitely many tasks of a kind.
LEMMA QueuedFinite ==
  ASSUME NEW s \in Seq(Task), NEW K
  PROVE  IsFiniteSet({i \in DOMAIN s : s[i] \in K}) /\ NQueued(s, K) \in Nat
<1>1. IsFiniteSet(1..Len(s)) /\ DOMAIN s = 1..Len(s)
  BY FS_Interval
<1> QED
  BY <1>1, FS_Subset, FS_CardinalityType DEF NQueued

\* Adding a task at the end.
LEMMA QueuedAppend ==
  ASSUME NEW s \in Seq(Task), NEW t \in Task, NEW K
  PROVE  /\ t \in K => NQueued(Append(s, t), K) = NQueued(s, K) + 1
         /\ t \notin K => NQueued(Append(s, t), K) = NQueued(s, K)
<1> DEFINE S == {i \in DOMAIN s : s[i] \in K}
           u == Append(s, t)
           U == {i \in DOMAIN u : u[i] \in K}
           n == Len(s) + 1
<1>1. /\ DOMAIN u = 1..n /\ DOMAIN s = 1..Len(s) /\ u[n] = t /\ Len(s) \in Nat
      /\ \A i \in DOMAIN s : u[i] = s[i]
  OBVIOUS
<1>2. \A i : i # n => (i \in U <=> i \in S)
  <2> HIDE DEF u
  <2>1. \A i : i # n => (i \in DOMAIN u <=> i \in DOMAIN s)
    BY <1>1
  <2> QED
    BY <1>1, <2>1
<1>3. n \notin S /\ (n \in U <=> t \in K)
  BY <1>1
<1>4. IsFiniteSet(S)
  BY QueuedFinite
<1>5. NQueued(s, K) = Cardinality(S) /\ NQueued(u, K) = Cardinality(U)
  BY DEF NQueued
<1> HIDE DEF S, U, u, n
<1>6. /\ n \in U /\ n \notin S => Cardinality(U) = Cardinality(S) + 1
      /\ (n \in U <=> n \in S) => Cardinality(U) = Cardinality(S)
  BY <1>2, <1>4, OneChange
<1>7. /\ t \in K => NQueued(u, K) = NQueued(s, K) + 1
      /\ t \notin K => NQueued(u, K) = NQueued(s, K)
  BY <1>3, <1>5, <1>6
<1> QED
  BY <1>7 DEF u

\* Taking the first task away.
LEMMA QueuedTail ==
  ASSUME NEW s \in Seq(Task), s # <<>>, NEW K
  PROVE  /\ Head(s) \in K => NQueued(Tail(s), K) = NQueued(s, K) - 1
         /\ Head(s) \notin K => NQueued(Tail(s), K) = NQueued(s, K)
<1> DEFINE S == {i \in DOMAIN s : s[i] \in K}
           u == Tail(s)
           U == {i \in DOMAIN u : u[i] \in K}
           f == [i \in U |-> i + 1]
           V == S \ {1}
<1>1. /\ DOMAIN s = 1..Len(s) /\ DOMAIN u = 1..(Len(s) - 1) /\ Len(s) \in Nat
      /\ Len(s) >= 1 /\ s[1] = Head(s)
      /\ \A i \in DOMAIN u : u[i] = s[i + 1] /\ u \in Seq(Task)
  OBVIOUS
<1> HIDE DEF u
<1>2. \A i \in U : i + 1 \in V /\ i \in Int
  BY <1>1
<1>3. \A j \in V : j - 1 \in U /\ j = (j - 1) + 1
  BY <1>1
<1>4. f \in Bijection(U, V)
  <2>1. f \in [U -> V]
    BY <1>2
  <2>2. \A i, j \in U : f[i] = f[j] => i = j
    BY <1>2
  <2>3. \A j \in V : \E i \in U : f[i] = j
    BY <1>3
  <2> HIDE DEF f, U, V
  <2> QED
    BY <2>1, <2>2, <2>3 DEF Bijection, Injection, IsInjective, Surjection
<1>5. ExistsBijection(U, V)
  BY <1>4 DEF ExistsBijection
<1>6. IsFiniteSet(S) /\ IsFiniteSet(U)
  <2>1. u \in Seq(Task)
    BY DEF u
  <2> QED
    BY <2>1, QueuedFinite
<1>7. 1 \in S <=> Head(s) \in K
  BY <1>1
<1>11. NQueued(s, K) = Cardinality(S) /\ NQueued(u, K) = Cardinality(U)
  BY DEF NQueued
<1> HIDE DEF S, U, V
<1>8. Cardinality(V) = Cardinality(U)
  BY <1>5, <1>6, FS_Bijection
<1>9. Cardinality(V) = IF 1 \in S THEN Cardinality(S) - 1 ELSE Cardinality(S)
  BY <1>6, FS_RemoveElement DEF V
<1>10. Cardinality(S) \in Nat
  BY <1>6, FS_CardinalityType
<1>12. /\ Head(s) \in K => NQueued(u, K) = NQueued(s, K) - 1
       /\ Head(s) \notin K => NQueued(u, K) = NQueued(s, K)
  BY <1>7, <1>8, <1>9, <1>10, <1>11
<1> QED
  BY <1>12 DEF u

\* The pairs of a and 1..n.
LEMMA PairsOf ==
  ASSUME NEW a, NEW n \in Nat
  PROVE  IsFiniteSet({a} \X (1..n)) /\ Cardinality({a} \X (1..n)) = n
<1> DEFINE f == [i \in 1..n |-> <<a, i>>]
           P == {a} \X (1..n)
<1>1. f \in [1..n -> P]
  OBVIOUS
<1>2. \A i, j \in 1..n : f[i] = f[j] => i = j
  OBVIOUS
<1>3. \A p \in P : \E i \in 1..n : f[i] = p
  OBVIOUS
<1> HIDE DEF f, P
<1>4. ExistsBijection(1..n, P)
  BY <1>1, <1>2, <1>3
     DEF ExistsBijection, Bijection, Injection, IsInjective, Surjection
<1>5. IsFiniteSet(1..n) /\ Cardinality(1..n) = n
  BY FS_Interval
<1> QED
  BY <1>4, <1>5, FS_Bijection DEF P

\* Pairs of an administrator and a number up to its own.
Pairs(f) == UNION {{a} \X (1..f[a]) : a \in Admins}

\* The number of one of them changes.
LEMMA PairsChange ==
  ASSUME NEW f \in [Admins -> Nat], NEW g \in [Admins -> Nat], NEW a \in Admins,
         \A b \in Admins : b # a => f[b] = g[b], IsFiniteSet(Pairs(f))
  PROVE  /\ IsFiniteSet(Pairs(g)) /\ Cardinality(Pairs(f)) \in Nat
         /\ Cardinality(Pairs(g)) = Cardinality(Pairs(f)) + g[a] - f[a]
<1> DEFINE F == {a} \X (1..f[a])
           G == {a} \X (1..g[a])
           D == Pairs(f) \ F
<1>0. /\ \A p : p \in Pairs(f) <=> \E b \in Admins : p \in {b} \X (1..f[b])
      /\ \A p : p \in Pairs(g) <=> \E b \in Admins : p \in {b} \X (1..g[b])
  BY DEF Pairs
<1>1. \A p : p \in D <=> \E b \in Admins : b # a /\ p \in {b} \X (1..f[b])
  BY <1>0
<1>2. Pairs(f) = D \cup F /\ D \cap F = {}
  BY <1>0
<1>3. Pairs(g) = D \cup G /\ D \cap G = {}
  BY <1>0, <1>1
<1>4. /\ IsFiniteSet(F) /\ Cardinality(F) = f[a]
      /\ IsFiniteSet(G) /\ Cardinality(G) = g[a]
  BY PairsOf
<1>5. IsFiniteSet(D) /\ Cardinality(D) \in Nat
  BY FS_Subset, FS_CardinalityType
<1> HIDE DEF F, G, D
<1>8. Cardinality({}) = 0
  BY FS_EmptySet
<1>9. Cardinality(F) \in Nat /\ Cardinality(G) \in Nat
  BY <1>4
<1>6. Cardinality(Pairs(f)) = Cardinality(D) + Cardinality(F)
  <2>1. Cardinality(D \cup F) = Cardinality(D) + Cardinality(F) - Cardinality(D \cap F)
    BY <1>4, <1>5, FS_Union
  <2> QED
    BY <1>2, <1>9, <1>5, <1>8, <2>1
<1>7. /\ Cardinality(Pairs(g)) = Cardinality(D) + Cardinality(G)
      /\ IsFiniteSet(Pairs(g))
  <2>1. /\ Cardinality(D \cup G) = Cardinality(D) + Cardinality(G) - Cardinality(D \cap G)
        /\ IsFiniteSet(D \cup G)
    BY <1>4, <1>5, FS_Union
  <2> QED
    BY <1>3, <1>9, <1>5, <1>8, <2>1
<1> QED
  BY <1>4, <1>5, <1>6, <1>7

-----------------------------------------------------------------------------
(* What _nconns counts                                                      *)

Holders    == {t \in Threads : cur[t] # NoConn /\ ~At(t, "shrunk")}
Connecting == {w \in Workers : At(w, "connecting")}
GivenTo    == {p \in Positions : slot[p].conn # NoConn}
Batched    == [a \in Admins |-> Len(batch[a])]
Asked      == [a \in Admins |-> IF At(a, "resize_run") THEN togrow[a] ELSE 0]
Pending    == {k \in Task : k.kind \in {"add", "return"}}

\* In the hands of all the threads, and on hand for any of them.
InHands == Cardinality(Holders) + Cardinality(Connecting)
           + Cardinality(Pairs(Batched)) + Cardinality(Pairs(Asked))
Later   == sched["add"] + sched["grow"]
OnHand  == Len(pool) + Cardinality(GivenTo) + NQueued(tasks, Pending) + Later

HandsFinite == /\ IsFiniteSet(Holders) /\ IsFiniteSet(Pairs(Batched))
               /\ IsFiniteSet(Pairs(Asked))

\* The part of one thread.
Holds(t)    == IF cur[t] # NoConn /\ pc[t] # "shrunk" THEN 1 ELSE 0
Connects(t) == IF t \in Workers /\ pc[t] = "connecting" THEN 1 ELSE 0
Reviews(t)  == IF t \in Admins THEN Len(batch[t]) ELSE 0
Asks(t)     == IF t \in Admins /\ pc[t] = "resize_run" THEN togrow[t] ELSE 0
Share(t)    == Holds(t) + Connects(t) + Reviews(t) + Asks(t)

\* Only thread t moves.
OnlyThread(t) == /\ \A u \in Threads \ {t} : cur'[u] = cur[u] /\ pc'[u] = pc[u]
                 /\ \A a \in Admins \ {t} : batch'[a] = batch[a] /\ togrow'[a] = togrow[a]

\* Then what the threads have in hand changes by the part of t.
LEMMA InHandsChange ==
  ASSUME TypeOK, TypeOK', HandsFinite, NEW t \in Threads, OnlyThread(t)
  PROVE  /\ HandsFinite' /\ InHands \in Int /\ InHands' \in Int
         /\ Share(t) \in Int /\ Share(t)' \in Int
         /\ InHands' = InHands + Share(t)' - Share(t)
<1>1. /\ IsFiniteSet(Holders)'
      /\ Cardinality(Holders) \in Int /\ Cardinality(Holders)' \in Int
      /\ Cardinality(Holders)' = Cardinality(Holders) + Holds(t)' - Holds(t)
  <2> DEFINE S == Holders
             U == Holders'
  <2>1. \A u : u # t => (u \in U <=> u \in S)
    BY DEF Holders, OnlyThread, At
  <2>2. (t \in S <=> Holds(t) = 1) /\ (t \in U <=> Holds(t)' = 1)
    BY DEF Holders, Holds, At
  <2>3. Holds(t) \in {0, 1} /\ Holds(t)' \in {0, 1}
    BY DEF Holds
  <2>4. IsFiniteSet(S)
    BY DEF HandsFinite
  <2> HIDE DEF S, U
  <2>5. /\ IsFiniteSet(U) /\ Cardinality(S) \in Nat /\ Cardinality(U) \in Nat
        /\ t \in U /\ t \notin S => Cardinality(U) = Cardinality(S) + 1
        /\ t \notin U /\ t \in S => Cardinality(U) = Cardinality(S) - 1
        /\ (t \in U <=> t \in S) => Cardinality(U) = Cardinality(S)
    BY <2>1, <2>4, OneChange
  <2>6. Cardinality(U) = Cardinality(S) + Holds(t)' - Holds(t)
    BY <2>2, <2>3, <2>5
  <2> QED
    BY <2>5, <2>6 DEF S, U
<1>2. /\ Cardinality(Connecting) \in Int /\ Cardinality(Connecting)' \in Int
      /\ Cardinality(Connecting)' = Cardinality(Connecting) + Connects(t)' - Connects(t)
  <2> DEFINE S == Connecting
             U == Connecting'
  <2>1. \A u : u # t => (u \in U <=> u \in S)
    BY DEF Connecting, OnlyThread, At, Threads
  <2>2. (t \in S <=> Connects(t) = 1) /\ (t \in U <=> Connects(t)' = 1)
    BY DEF Connecting, Connects, At
  <2>3. Connects(t) \in {0, 1} /\ Connects(t)' \in {0, 1}
    BY DEF Connects
  <2>4. IsFiniteSet(S)
    BY FS_Subset, ThreadsAssumption DEF Connecting
  <2> HIDE DEF S, U
  <2>5. /\ Cardinality(S) \in Nat /\ Cardinality(U) \in Nat
        /\ t \in U /\ t \notin S => Cardinality(U) = Cardinality(S) + 1
        /\ t \notin U /\ t \in S => Cardinality(U) = Cardinality(S) - 1
        /\ (t \in U <=> t \in S) => Cardinality(U) = Cardinality(S)
    BY <2>1, <2>4, OneChange
  <2>6. Cardinality(U) = Cardinality(S) + Connects(t)' - Connects(t)
    BY <2>2, <2>3, <2>5
  <2> QED
    BY <2>5, <2>6 DEF S, U
<1>3. /\ IsFiniteSet(Pairs(Batched))'
      /\ Cardinality(Pairs(Batched)) \in Int /\ Cardinality(Pairs(Batched))' \in Int
      /\ Cardinality(Pairs(Batched))' = Cardinality(Pairs(Batched)) + Reviews(t)' - Reviews(t)
      /\ Reviews(t) \in Int /\ Reviews(t)' \in Int
  <2> DEFINE f == Batched
             g == Batched'
  <2>1. f \in [Admins -> Nat] /\ g \in [Admins -> Nat]
    BY DEF Batched, TypeOK
  <2>2. \A b \in Admins : b # t => f[b] = g[b]
    BY DEF Batched, OnlyThread
  <2>3. t \in Admins => Reviews(t) = f[t] /\ Reviews(t)' = g[t]
    BY DEF Batched, Reviews
  <2>4. t \notin Admins => Reviews(t) = 0 /\ Reviews(t)' = 0
    BY DEF Reviews
  <2>5. IsFiniteSet(Pairs(f))
    BY DEF HandsFinite
  <2>6. Pairs(Batched)' = Pairs(g)
    BY DEF Pairs
  <2>7. Cardinality(Pairs(f)) \in Nat
    BY <2>5, FS_CardinalityType
  <2> HIDE DEF f, g
  <2>8. CASE t \in Admins
    <3>1. /\ IsFiniteSet(Pairs(g)) /\ Cardinality(Pairs(f)) \in Nat
          /\ Cardinality(Pairs(g)) = Cardinality(Pairs(f)) + g[t] - f[t]
      BY <2>1, <2>2, <2>5, <2>8, PairsChange
    <3>2. f[t] \in Nat /\ g[t] \in Nat
      BY <2>1, <2>8
    <3>3. Cardinality(Pairs(g)) \in Int
      BY <3>1, <3>2
    <3> QED
      BY <2>3, <2>6, <2>8, <3>1, <3>2, <3>3 DEF f
  <2>9. CASE t \notin Admins
    <3>1. f = g
      BY <2>1, <2>2, <2>9
    <3> QED
      BY <2>4, <2>5, <2>6, <2>7, <2>9, <3>1 DEF f
  <2> QED
    BY <2>8, <2>9
<1>4. /\ IsFiniteSet(Pairs(Asked))'
      /\ Cardinality(Pairs(Asked)) \in Int /\ Cardinality(Pairs(Asked))' \in Int
      /\ Cardinality(Pairs(Asked))' = Cardinality(Pairs(Asked)) + Asks(t)' - Asks(t)
      /\ Asks(t) \in Int /\ Asks(t)' \in Int
  <2> DEFINE f == Asked
             g == Asked'
  <2>1. f \in [Admins -> Nat] /\ g \in [Admins -> Nat]
    BY DEF Asked, TypeOK
  <2>2. \A b \in Admins : b # t => f[b] = g[b]
    BY DEF Asked, OnlyThread, At, Threads
  <2>3. t \in Admins => Asks(t) = f[t] /\ Asks(t)' = g[t]
    BY DEF Asked, Asks, At
  <2>4. t \notin Admins => Asks(t) = 0 /\ Asks(t)' = 0
    BY DEF Asks
  <2>5. IsFiniteSet(Pairs(f))
    BY DEF HandsFinite
  <2>6. Pairs(Asked)' = Pairs(g)
    BY DEF Pairs
  <2>7. Cardinality(Pairs(f)) \in Nat
    BY <2>5, FS_CardinalityType
  <2> HIDE DEF f, g
  <2>8. CASE t \in Admins
    <3>1. /\ IsFiniteSet(Pairs(g)) /\ Cardinality(Pairs(f)) \in Nat
          /\ Cardinality(Pairs(g)) = Cardinality(Pairs(f)) + g[t] - f[t]
      BY <2>1, <2>2, <2>5, <2>8, PairsChange
    <3>2. f[t] \in Nat /\ g[t] \in Nat
      BY <2>1, <2>8
    <3>3. Cardinality(Pairs(g)) \in Int
      BY <3>1, <3>2
    <3> QED
      BY <2>3, <2>6, <2>8, <3>1, <3>2, <3>3 DEF f
  <2>9. CASE t \notin Admins
    <3>1. f = g
      BY <2>1, <2>2, <2>9
    <3> QED
      BY <2>4, <2>5, <2>6, <2>7, <2>9, <3>1 DEF f
  <2> QED
    BY <2>8, <2>9
<1>5. HandsFinite'
  BY <1>1, <1>3, <1>4 DEF HandsFinite
<1>6. /\ Holds(t) \in Int /\ Holds(t)' \in Int
      /\ Connects(t) \in Int /\ Connects(t)' \in Int
  BY DEF Holds, Connects
<1>7. InHands \in Int /\ InHands' \in Int /\ Share(t) \in Int /\ Share(t)' \in Int
  BY <1>1, <1>2, <1>3, <1>4, <1>6 DEF InHands, Share
<1>8. InHands' = InHands + Share(t)' - Share(t)
  BY <1>1, <1>2, <1>3, <1>4, <1>6 DEF InHands, Share
<1> QED
  BY <1>5, <1>7, <1>8

\* The invariant: Accounting, and what counting needs.
CountInv == IsOpen => /\ HandsFinite /\ IsFiniteSet(GivenTo)
                      /\ nconns = OnHand + InHands

\* A closing thread that has taken the connections leaves a closed pool.
ClosersClosed == \A a \in Admins : pc[a] \in {"gather", "fail"} => closed

\* A step of thread t moves as much as it takes into or out of the count.
Balanced(t) ==
  /\ OnlyThread(t) /\ IsFiniteSet(GivenTo)' /\ OnHand' \in Int
  /\ nconns' = nconns + (OnHand' - OnHand) + (Share(t)' - Share(t))

\* The terms of OnHand are numbers.
LEMMA OnHandType ==
  ASSUME TypeOK, IsFiniteSet(GivenTo)
  PROVE  /\ OnHand \in Int /\ Len(pool) \in Nat /\ Cardinality(GivenTo) \in Nat
         /\ NQueued(tasks, Pending) \in Nat /\ Later \in Nat
<1>1. Len(pool) \in Nat /\ Later \in Nat
  BY DEF TypeOK, DelayedKinds, Later
<1>2. Cardinality(GivenTo) \in Nat
  BY FS_CardinalityType
<1>3. NQueued(tasks, Pending) \in Nat
  BY QueuedFinite DEF TypeOK
<1> QED
  BY <1>1, <1>2, <1>3 DEF OnHand

\* A balanced step of one thread keeps the count.
LEMMA BalancedKeeps ==
  ASSUME TypeOK, TypeOK', CountInv, NEW t \in Threads, IsOpen, Balanced(t)
  PROVE  CountInv'
<1>1. HandsFinite /\ IsFiniteSet(GivenTo) /\ nconns = OnHand + InHands
  BY DEF CountInv
<1>2. /\ HandsFinite' /\ InHands \in Int /\ InHands' \in Int
      /\ Share(t) \in Int /\ Share(t)' \in Int
      /\ InHands' = InHands + Share(t)' - Share(t)
  BY <1>1, InHandsChange DEF Balanced
<1>3. OnHand \in Int
  BY <1>1, OnHandType
<1>4. /\ OnHand' \in Int /\ IsFiniteSet(GivenTo)'
      /\ nconns' = nconns + (OnHand' - OnHand) + (Share(t)' - Share(t))
  BY DEF Balanced
<1>5. nconns' = OnHand' + InHands'
  BY <1>1, <1>2, <1>3, <1>4
<1> QED
  BY <1>2, <1>4, <1>5 DEF CountInv

\* The terms of the pool first, then those that change.
LEMMA Regroup ==
  ASSUME NEW l \in Int, NEW g \in Int, NEW n \in Int, NEW s \in Int,
         NEW a \in Int, NEW b \in Int, NEW d \in Int, NEW h \in Int
  PROVE  (l + a) + (g + h) + (n + b) + (s + d) = (l + g + n + s) + (a + h + b + d)
  OBVIOUS

\* Thread t moves: a connections more in the pool, h given, b tasks queued,
\* d delayed, and e in the hands of t.
Moves(t, a, h, b, d, e) ==
  /\ OnlyThread(t)
  /\ Len(pool)' = Len(pool) + a
  /\ IsFiniteSet(GivenTo)' /\ Cardinality(GivenTo)' = Cardinality(GivenTo) + h
  /\ NQueued(tasks, Pending)' = NQueued(tasks, Pending) + b
  /\ Later' = Later + d
  /\ Share(t)' = Share(t) + e
  /\ nconns' = nconns + (a + h + b + d) + e

\* A step that moves as much as it counts is balanced.
LEMMA MovesBalance ==
  ASSUME TypeOK, IsFiniteSet(GivenTo), NEW t \in Threads, Share(t) \in Int,
         NEW a \in Int, NEW h \in Int, NEW b \in Int, NEW d \in Int, NEW e \in Int,
         Moves(t, a, h, b, d, e)
  PROVE  Balanced(t)
<1>3. /\ OnHand \in Int /\ Len(pool) \in Nat /\ Cardinality(GivenTo) \in Nat
      /\ NQueued(tasks, Pending) \in Nat /\ Later \in Nat
  BY OnHandType
<1>4. OnHand' = (Len(pool) + a) + (Cardinality(GivenTo) + h)
                + (NQueued(tasks, Pending) + b) + (Later + d)
  BY DEF OnHand, Moves
<1>5. (Len(pool) + a) + (Cardinality(GivenTo) + h)
                + (NQueued(tasks, Pending) + b) + (Later + d)
      = (Len(pool) + Cardinality(GivenTo) + NQueued(tasks, Pending) + Later)
        + (a + h + b + d)
  BY <1>3, Regroup, SMTT(40)
<1>6. OnHand' = OnHand + (a + h + b + d)
  BY <1>4, <1>5 DEF OnHand
<1>7. PICK m \in Int : m = a + h + b + d
  OBVIOUS
<1>8. /\ nconns' = nconns + m + e /\ nconns \in Int
      /\ Share(t)' = Share(t) + e /\ OnHand' = OnHand + m
  BY <1>6, <1>7 DEF Moves, TypeOK
<1>9. OnHand' \in Int /\ nconns' = nconns + (OnHand' - OnHand) + (Share(t)' - Share(t))
  BY <1>3, <1>7, <1>8
<1> QED
  BY <1>9 DEF Moves, Balanced

\* How the number of queued tasks of a set changes.
LEMMA QueuedChange ==
  ASSUME TypeOK, NEW K
  PROVE  /\ NQueued(tasks, K) \in Nat
         /\ UNCHANGED tasks => NQueued(tasks, K)' = NQueued(tasks, K)
         /\ \A k \in Task : run_task(k) =>
              /\ k \in K => NQueued(tasks, K)' = NQueued(tasks, K) + 1
              /\ k \notin K => NQueued(tasks, K)' = NQueued(tasks, K)
         /\ tasks # <<>> /\ tasks' = Tail(tasks) =>
              /\ Head(tasks) \in K => NQueued(tasks, K)' = NQueued(tasks, K) - 1
              /\ Head(tasks) \notin K => NQueued(tasks, K)' = NQueued(tasks, K)
<1>1. tasks \in Seq(Task)
  BY DEF TypeOK
<1>2. NQueued(tasks, K) \in Nat
  BY <1>1, QueuedFinite
<1>3. ASSUME UNCHANGED tasks
      PROVE  NQueued(tasks, K)' = NQueued(tasks, K)
  BY <1>3 DEF NQueued
<1>4. ASSUME NEW k \in Task, run_task(k)
      PROVE  /\ k \in K => NQueued(tasks, K)' = NQueued(tasks, K) + 1
             /\ k \notin K => NQueued(tasks, K)' = NQueued(tasks, K)
  <2>1. tasks' = Append(tasks, k)
    BY <1>4 DEF run_task
  <2>2. NQueued(tasks, K)' = NQueued(Append(tasks, k), K)
    BY <2>1 DEF NQueued
  <2> QED
    BY <1>1, <2>2, QueuedAppend
<1>5. ASSUME tasks # <<>>, tasks' = Tail(tasks)
      PROVE  /\ Head(tasks) \in K => NQueued(tasks, K)' = NQueued(tasks, K) - 1
             /\ Head(tasks) \notin K => NQueued(tasks, K)' = NQueued(tasks, K)
  <2>1. NQueued(tasks, K)' = NQueued(Tail(tasks), K)
    BY <1>5 DEF NQueued
  <2> QED
    BY <1>1, <1>5, <2>1, QueuedTail
<1> QED
  BY <1>2, <1>3, <1>4, <1>5

\* The tasks that count for a connection.
LEMMA PendingTasks ==
  /\ \A g \in BOOLEAN : AddConnection(g) \in Pending
  /\ \A x \in Conns : ReturnConnection(x) \in Pending
  /\ Simple("shrink") \notin Pending
  /\ Delayed("add") \in Pending /\ Delayed("grow") \in Pending
  /\ Delayed("shrink") \notin Pending
<1>1. \A g \in BOOLEAN : AddConnection(g).kind = "add" /\ AddConnection(g) \in Task
  BY NewTask
<1>2. \A x \in Conns : ReturnConnection(x).kind = "return" /\ ReturnConnection(x) \in Task
  BY NewTask DEF ReturnConnection, Simple
<1>3. Simple("shrink").kind = "shrink"
  BY NewTask
<1>4. /\ Delayed("shrink") = Simple("shrink")
      /\ Delayed("add").kind = "add" /\ Delayed("grow").kind = "add"
  BY DEF Delayed, RetryConnection, AddConnection, Simple
<1>5. Delayed("add") \in Task /\ Delayed("grow") \in Task
  BY NewTask DEF DelayedKinds
<1> QED
  BY <1>1, <1>2, <1>3, <1>4, <1>5 DEF Pending

-----------------------------------------------------------------------------
(* Every step moves as much as it counts                                    *)

\* The share of a thread is a number.
LEMMA ShareType ==
  ASSUME TypeOK, NEW t \in Threads
  PROVE  Share(t) \in Int
<1>1. Reviews(t) \in Int /\ Asks(t) \in Int
  BY DEF TypeOK, Reviews, Asks
<1> QED
  BY <1>1 DEF Share, Holds, Connects

\* A step that changes nothing of what is counted.
SlotsKept == \A p \in Positions : slot'[p].conn = slot[p].conn
Still == /\ UNCHANGED <<pool, tasks, nconns>> /\ SlotsKept
         /\ sched'["add"] = sched["add"] /\ sched'["grow"] = sched["grow"]
\* Slots that are kept are as many as before.
LEMMA StillOnHand ==
  ASSUME SlotsKept, IsFiniteSet(GivenTo)
  PROVE  IsFiniteSet(GivenTo)' /\ Cardinality(GivenTo)' = Cardinality(GivenTo) + 0
<1>1. GivenTo' = GivenTo
  BY DEF SlotsKept, GivenTo
<1>2. Cardinality(GivenTo) \in Nat
  BY FS_CardinalityType
<1> QED
  BY <1>1, <1>2

\* A step that moves nothing that counts.
LEMMA StillBalance ==
  ASSUME TypeOK, IsFiniteSet(GivenTo), NEW t \in Threads, OnlyThread(t), Still,
         Share(t)' = Share(t)
  PROVE  Balanced(t)
<1>1. /\ OnHand \in Int /\ Len(pool) \in Nat /\ NQueued(tasks, Pending) \in Nat
      /\ Later \in Nat /\ Share(t) \in Int
  BY OnHandType, ShareType
<1>2. NQueued(tasks, Pending)' = NQueued(tasks, Pending) /\ Later' = Later /\ pool' = pool
  BY DEF Still, NQueued, Later
<1>3. IsFiniteSet(GivenTo)' /\ Cardinality(GivenTo)' = Cardinality(GivenTo)
  BY DEF Still, SlotsKept, GivenTo
<1>4. OnHand' = OnHand
  BY <1>2, <1>3 DEF OnHand
<1>5. nconns \in Int /\ nconns' = nconns
  BY DEF TypeOK, Still
<1> QED
  BY <1>1, <1>3, <1>4, <1>5 DEF Balanced

\* Several facts about actions: which threads move ...
LEMMA ClientOnly ==
  ASSUME TypeOK, NEW c \in Clients, ClientStep(c)
  PROVE  OnlyThread(c)
<1>t. pc \in [Threads -> Labels] /\ cur \in [Threads -> Conns \cup {NoConn}]
  BY DEF TypeOK
<1>1. UNCHANGED <<batch, togrow>>
  BY DEF ClientStep, Request, getconn, getconn_timeout, wait_broken, getconn_refused,
         getconn_enqueue, check_passes, check_fails, check_interrupted, backoff, putconn,
         _get_ready_connection, wait_returns, _putconn, Return, _return_connection,
         _add_to_pool_early, _add_to_pool, adminVars
<1>2. /\ UNCHANGED pc \/ \E l : pc' = [pc EXCEPT ![c] = l]
      /\ UNCHANGED cur \/ \E x : cur' = [cur EXCEPT ![c] = x]
  BY DEF ClientStep, Request, getconn, getconn_timeout, wait_broken, getconn_refused,
         getconn_enqueue, check_passes, check_fails, check_interrupted, backoff, putconn,
         _get_ready_connection, wait_returns, _putconn, Return, _return_connection,
         _add_to_pool_early, _add_to_pool, Replace, CloseCur, Goto
<1> QED
  BY <1>t, <1>1, <1>2 DEF OnlyThread

\* A step of a worker changes no share but its own.
LEMMA WorkerOnly ==
  ASSUME TypeOK, NEW w \in Workers, WorkerStep(w)
  PROVE  OnlyThread(w)
<1>t. pc \in [Threads -> Labels] /\ cur \in [Threads -> Conns \cup {NoConn}]
  BY DEF TypeOK
<1>1. UNCHANGED <<batch, togrow>>
  BY DEF WorkerStep, Work, worker, _connect, _connect_fails, _add_connection_grow,
         _shrink_pool, _shrink_close, Return, _return_connection, _add_to_pool_early,
         _add_to_pool, adminVars
<1>2. /\ UNCHANGED pc \/ \E l : pc' = [pc EXCEPT ![w] = l]
      /\ UNCHANGED cur \/ \E x : cur' = [cur EXCEPT ![w] = x]
  BY DEF WorkerStep, Work, worker, _connect, _connect_fails, _add_connection_grow,
         _shrink_pool, _shrink_close, Return, _return_connection, _add_to_pool_early,
         _add_to_pool, Replace, CloseCur, Goto
<1> QED
  BY <1>t, <1>1, <1>2 DEF OnlyThread

\* A step of an admin thread changes no share but its own.
LEMMA AdminOnly ==
  ASSUME TypeOK, NEW a \in Admins, AdminStep(a)
  PROVE  OnlyThread(a)
<1>t. /\ pc \in [Threads -> Labels] /\ cur \in [Threads -> Conns \cup {NoConn}]
      /\ batch \in [Admins -> Seq(Conns)] /\ togrow \in [Admins -> Nat]
  BY DEF TypeOK
<1>1. /\ UNCHANGED batch \/ \E b : batch' = [batch EXCEPT ![a] = b]
      /\ UNCHANGED togrow \/ \E n : togrow' = [togrow EXCEPT ![a] = n]
  BY DEF AdminStep, Administer, close, close_lock, close_conns, close_fail, check, TakeIdle,
         check_next, resize, resize_lock, resize_run, wait, wait_lock, wait_ends,
         Return, _return_connection, _add_to_pool_early, _add_to_pool, adminVars
<1>2. /\ UNCHANGED pc \/ \E l : pc' = [pc EXCEPT ![a] = l]
      /\ UNCHANGED cur \/ \E x : cur' = [cur EXCEPT ![a] = x]
  BY DEF AdminStep, Administer, close, close_lock, close_conns, close_fail, check,
         check_next, resize, resize_lock, resize_run, wait, wait_lock, wait_ends,
         Return, _return_connection, _add_to_pool_early, _add_to_pool, Replace, CloseCur,
         Goto
<1> QED
  BY <1>t, <1>1, <1>2 DEF OnlyThread

\* ... and what is the part of a thread.
LEMMA ShareParts ==
  ASSUME NEW t \in Threads, TypeOK, TypeOK'
  PROVE  /\ t \in Clients => Share(t) = Holds(t) /\ Share(t)' = Holds(t)'
         /\ t \in Workers => /\ Share(t) = Holds(t) + Connects(t)
                             /\ Share(t)' = Holds(t)' + Connects(t)'
         /\ t \in Admins  => /\ Share(t) = Holds(t) + Len(batch[t]) + Asks(t)
                             /\ Share(t)' = Holds(t)' + Len(batch'[t]) + Asks(t)'
<1>1. /\ t \in Clients => t \notin Workers /\ t \notin Admins
      /\ t \in Workers => t \notin Admins
      /\ t \in Admins => t \notin Workers
  BY ThreadsAssumption
<1>2. /\ Holds(t) \in Int /\ Connects(t) \in Int /\ Holds(t)' \in Int /\ Connects(t)' \in Int
  BY DEF Holds, Connects
<1>3. /\ Asks(t) \in Int /\ Asks(t)' \in Int
      /\ t \in Admins => Len(batch[t]) \in Int /\ Len(batch'[t]) \in Int
  BY DEF Asks, TypeOK
<1>4. /\ t \notin Admins => /\ Asks(t) = 0 /\ Reviews(t) = 0
                            /\ Asks(t)' = 0 /\ Reviews(t)' = 0
      /\ t \in Admins => Reviews(t) = Len(batch[t]) /\ Reviews(t)' = Len(batch'[t])
      /\ t \notin Workers => Connects(t) = 0 /\ Connects(t)' = 0
  BY DEF Asks, Reviews, Connects
<1> QED
  BY <1>1, <1>2, <1>3, <1>4 DEF Share

\* A thread that keeps its batch and neither attempts a connection nor resizes.
Busy == {"connecting", "resize_run"}
\* Of a thread that neither connects, resizes nor reviews.
LEMMA ShareHolds ==
  ASSUME NEW t \in Threads, TypeOK, TypeOK', pc[t] \notin Busy, pc'[t] \notin Busy,
         t \in Admins => batch'[t] = batch[t]
  PROVE  Share(t)' - Share(t) = Holds(t)' - Holds(t)
<1>1. /\ Connects(t) = 0 /\ Connects(t)' = 0 /\ Asks(t) = 0 /\ Asks(t)' = 0
  BY DEF Connects, Asks, Busy
<1>2. Reviews(t) = Reviews(t)' /\ Reviews(t) \in Int
  BY DEF Reviews, TypeOK
<1>3. Holds(t) \in Int /\ Holds(t)' \in Int
  BY DEF Holds
<1> QED
  BY <1>1, <1>2, <1>3 DEF Share

\* One more in the pool, given to a position, or in the queue of tasks.
OneMore ==
  /\ IsFiniteSet(GivenTo)'
  /\ \/ /\ Len(pool)' = Len(pool) + 1
        /\ Cardinality(GivenTo)' = Cardinality(GivenTo) + 0
        /\ NQueued(tasks, Pending)' = NQueued(tasks, Pending) + 0
     \/ /\ Len(pool)' = Len(pool) + 0
        /\ Cardinality(GivenTo)' = Cardinality(GivenTo) + 1
        /\ NQueued(tasks, Pending)' = NQueued(tasks, Pending) + 0
     \/ /\ Len(pool)' = Len(pool) + 0
        /\ Cardinality(GivenTo)' = Cardinality(GivenTo) + 0
        /\ NQueued(tasks, Pending)' = NQueued(tasks, Pending) + 1

\* The thread gives its connection away: one more elsewhere.
LEMMA DropsBalance ==
  ASSUME TypeInv, TypeOK', IsFiniteSet(GivenTo), NEW t \in Threads, OnlyThread(t),
         cur[t] \in Conns, pc[t] \notin Busy \cup {"shrunk"}, pc'[t] \notin Busy,
         cur'[t] = NoConn, UNCHANGED <<nconns, sched>>, t \in Admins => batch'[t] = batch[t],
         OneMore
  PROVE  Balanced(t)
<1>t. TypeOK /\ nconns \in Int /\ sched["add"] \in Nat /\ sched["grow"] \in Nat
  BY DEF TypeInv, TypeOK, DelayedKinds
<1>n. \A x \in Conns : x # NoConn
  BY ConstantsAssumption DEF NoConn
<1>1. Holds(t) = 1 /\ Holds(t)' = 0
  BY <1>n DEF Holds
<1>2. Share(t) \in Int
  BY <1>t, ShareType
<1>3. Share(t)' \in Int
  <2>1. Reviews(t)' \in Int /\ Asks(t)' \in Int
    BY DEF TypeOK, Reviews, Asks
  <2> QED
    BY <2>1 DEF Share, Holds, Connects
<1>4. Share(t)' = Share(t) + (-1)
  <2>1. Share(t)' - Share(t) = Holds(t)' - Holds(t)
    BY <1>t, ShareHolds
  <2> QED
    BY <1>1, <1>2, <1>3, <2>1
<1>5. Later' = Later + 0
  BY <1>t DEF Later
<1>6. /\ nconns' = nconns + (1 + 0 + 0 + 0) + (-1)
      /\ nconns' = nconns + (0 + 1 + 0 + 0) + (-1)
      /\ nconns' = nconns + (0 + 0 + 1 + 0) + (-1)
  BY <1>t
<1>7. Moves(t, 1, 0, 0, 0, -1) \/ Moves(t, 0, 1, 0, 0, -1) \/ Moves(t, 0, 0, 1, 0, -1)
  BY <1>4, <1>5, <1>6 DEF Moves, OneMore
<1> QED
  BY <1>2, <1>7, <1>t, MovesBalance

\* A position gets a connection, or its client takes it.
LEMMA GivenMore ==
  ASSUME slot \in [Positions -> Slot], IsFiniteSet(GivenTo), NEW p \in Positions,
         NEW x \in Conns, slot[p].conn = NoConn, slot' = [slot EXCEPT ![p].conn = x]
  PROVE  IsFiniteSet(GivenTo)' /\ Cardinality(GivenTo)' = Cardinality(GivenTo) + 1
<1>n. x # NoConn
  BY ConstantsAssumption DEF NoConn
<1>1. slot'[p].conn = x /\ \A q \in Positions : q # p => slot'[q] = slot[q]
  BY DEF Slot
<1> DEFINE S == GivenTo
           U == GivenTo'
<1>2. /\ \A q : q # p => (q \in U <=> q \in S)
      /\ p \notin S /\ p \in U /\ IsFiniteSet(S)
  BY <1>n, <1>1 DEF GivenTo
<1> HIDE DEF S, U
<1>3. IsFiniteSet(U) /\ Cardinality(U) = Cardinality(S) + 1
  BY <1>2, OneChange
<1> QED
  BY <1>3 DEF S, U

\* A client takes the connection out of its slot.
LEMMA GivenLess ==
  ASSUME slot \in [Positions -> Slot], IsFiniteSet(GivenTo), NEW p \in Positions,
         slot[p].conn # NoConn, slot' = [slot EXCEPT ![p].conn = NoConn]
  PROVE  IsFiniteSet(GivenTo)' /\ Cardinality(GivenTo)' = Cardinality(GivenTo) - 1
<1>1. slot'[p].conn = NoConn /\ \A q \in Positions : q # p => slot'[q] = slot[q]
  BY DEF Slot
<1> DEFINE S == GivenTo
           U == GivenTo'
<1>2. /\ \A q : q # p => (q \in U <=> q \in S)
      /\ p \in S /\ p \notin U /\ IsFiniteSet(S)
  BY <1>1 DEF GivenTo
<1> HIDE DEF S, U
<1>3. IsFiniteSet(U) /\ Cardinality(U) = Cardinality(S) - 1
  BY <1>2, OneChange
<1> QED
  BY <1>3 DEF S, U

\* Places that a step leaves alone.
LEMMA KeptCounts ==
  ASSUME TypeOK, IsFiniteSet(GivenTo)
  PROVE  /\ UNCHANGED pool => Len(pool)' = Len(pool) + 0
         /\ SlotsKept => /\ IsFiniteSet(GivenTo)'
                         /\ Cardinality(GivenTo)' = Cardinality(GivenTo) + 0
         /\ UNCHANGED tasks => NQueued(tasks, Pending)' = NQueued(tasks, Pending) + 0
         /\ UNCHANGED sched => Later' = Later + 0
<1>1. /\ Len(pool) \in Nat /\ NQueued(tasks, Pending) \in Nat /\ Later \in Nat
  BY OnHandType
<1>2. UNCHANGED tasks => NQueued(tasks, Pending)' = NQueued(tasks, Pending)
  BY DEF NQueued
<1>3. UNCHANGED sched => Later' = Later
  BY DEF Later
<1>4. UNCHANGED pool => Len(pool)' = Len(pool) + 0
  BY <1>1
<1> QED
  BY <1>1, <1>2, <1>3, <1>4, StillOnHand

\* The step of a thread that has a connection to give back.
LEMMA ReturnBalance ==
  ASSUME TypeInv, TypeOK', IsOpen, IsFiniteSet(GivenTo), NEW t \in Threads, Return(t),
         OnlyThread(t)
  PROVE  Balanced(t)
<1>t. /\ TypeOK /\ slot \in [Positions -> Slot] /\ pool \in Seq(Conns)
      /\ pc \in [Threads -> Labels] /\ cur \in [Threads -> Conns \cup {NoConn}]
      /\ waiting \in Seq(Positions)
  BY DEF TypeInv, TypeOK
<1>n. \A x \in Conns : x # NoConn
  BY ConstantsAssumption DEF NoConn
<1>1. cur[t] \in Conns /\ pc[t] \notin Busy \cup {"shrunk"}
  BY DEF Return, _return_connection, _add_to_pool_early, _add_to_pool, At, Busy, TypeInv,
         ThreadsHeld, Holding
<1>2. /\ UNCHANGED <<nconns, sched, batch>>
  BY DEF Return, _return_connection, _add_to_pool_early, _add_to_pool, growVars, taskVars,
         adminVars
<1>3. After(t) \notin Busy \cup {"shrunk"}
  BY DEF After, AfterPut, Busy
<1>4. /\ UNCHANGED pool => Len(pool)' = Len(pool) + 0
      /\ SlotsKept => /\ IsFiniteSet(GivenTo)'
                      /\ Cardinality(GivenTo)' = Cardinality(GivenTo) + 0
      /\ UNCHANGED tasks => NQueued(tasks, Pending)' = NQueued(tasks, Pending) + 0
      /\ UNCHANGED sched => Later' = Later + 0
  BY <1>t, KeptCounts
<1>5. CASE _return_connection(t) /\ Replace(t)
  <2>1. /\ cur'[t] = NoConn /\ pc'[t] = After(t) /\ UNCHANGED <<pool, slot>>
        /\ run_task(AddConnection(FALSE))
    BY <1>1, <1>5, <1>n, <1>t DEF _return_connection, Replace, Goto, queueVars
  <2>2. NQueued(tasks, Pending)' = NQueued(tasks, Pending) + 1
    BY <1>t, <2>1, QueuedChange, PendingTasks, NewTask
  <2>3. SlotsKept
    BY <2>1 DEF SlotsKept
  <2>4. /\ pc'[t] \notin Busy /\ Len(pool)' = Len(pool) + 0
        /\ IsFiniteSet(GivenTo)' /\ Cardinality(GivenTo)' = Cardinality(GivenTo) + 0
    BY <1>3, <1>4, <2>1, <2>3
  <2>5. OneMore
    BY <2>2, <2>4 DEF OneMore
  <2> QED
    BY <1>1, <1>2, <2>1, <2>4, <2>5, DropsBalance
<1>6. CASE /\ UNCHANGED <<cur, pool, tasks, slot>>
           /\ pc' = [pc EXCEPT ![t] = "add_check"] \/ pc' = [pc EXCEPT ![t] = "add_lock"]
  <2>1. pc'[t] \in {"add_check", "add_lock"}
    BY <1>6, <1>t
  <2>2. pc'[t] \notin Busy \cup {"shrunk"}
    BY <2>1 DEF Busy
  <2>3. Holds(t)' = 1 /\ Holds(t) = 1
    BY <1>1, <1>6, <1>n, <2>2 DEF Holds
  <2>4. Share(t)' - Share(t) = Holds(t)' - Holds(t)
    BY <1>1, <1>2, <1>t, <2>2, ShareHolds
  <2>5. Share(t) \in Int
    BY <1>t, ShareType
  <2>6. Share(t)' \in Int
    <3>1. Reviews(t)' \in Int /\ Asks(t)' \in Int
      BY DEF TypeOK, Reviews, Asks
    <3> QED
      BY <3>1 DEF Share, Holds, Connects
  <2>7. Share(t)' = Share(t)
    BY <2>3, <2>4, <2>5, <2>6
  <2>8. Still
    BY <1>2, <1>6 DEF Still, SlotsKept
  <2> QED
    BY <1>t, <2>7, <2>8, StillBalance
<1>7. CASE _add_to_pool(t)
  <2>1. /\ cur'[t] = NoConn /\ pc'[t] \notin Busy /\ Serve(cur[t]) /\ UNCHANGED tasks
    BY <1>3, <1>7, <1>t DEF _add_to_pool, ClosedForReal, Goto, IsOpen, taskVars
  <2>2. NQueued(tasks, Pending)' = NQueued(tasks, Pending) + 0
    BY <1>4, <2>1
  <2>3. CASE UNCHANGED pool /\ ~UNCHANGED slot
    <3>1. PICK i \in DOMAIN waiting : /\ Accepts(waiting[i])
                                      /\ slot' = [slot EXCEPT ![waiting[i]].conn = cur[t]]
      BY <2>1, <2>3 DEF Serve
    <3>2. waiting[i] \in Positions /\ slot[waiting[i]].conn = NoConn
      BY <1>t, <3>1 DEF Accepts, EmptySlot
    <3>3. IsFiniteSet(GivenTo)' /\ Cardinality(GivenTo)' = Cardinality(GivenTo) + 1
      BY <1>1, <1>t, <3>1, <3>2, GivenMore
    <3>4. Len(pool)' = Len(pool) + 0
      BY <1>4, <2>3
    <3>5. OneMore
      BY <2>2, <3>3, <3>4 DEF OneMore
    <3> QED
      BY <1>1, <1>2, <2>1, <3>5, DropsBalance
  <2>4. CASE pool' = Append(pool, cur[t]) /\ UNCHANGED slot
    <3>1. Len(pool)' = Len(pool) + 1
      BY <1>1, <1>t, <2>4
    <3>2. IsFiniteSet(GivenTo)' /\ Cardinality(GivenTo)' = Cardinality(GivenTo) + 0
      BY <1>4, <2>4 DEF SlotsKept
    <3>3. OneMore
      BY <2>2, <3>1, <3>2 DEF OneMore
    <3> QED
      BY <1>1, <1>2, <2>1, <3>3, DropsBalance
  <2>5. (UNCHANGED pool /\ ~UNCHANGED slot) \/ (pool' = Append(pool, cur[t]) /\ UNCHANGED slot)
    <3>1. CASE UNCHANGED slot /\ UNCHANGED pool
      <4>1. PICK i \in DOMAIN waiting : /\ Accepts(waiting[i])
                                        /\ slot' = [slot EXCEPT ![waiting[i]].conn = cur[t]]
        <5>1. Append(pool, cur[t]) # pool
          <6>1. Len(Append(pool, cur[t])) = Len(pool) + 1 /\ Len(pool) \in Nat
            BY <1>1, <1>t
          <6> QED
            BY <6>1
        <5> QED
          BY <2>1, <3>1, <5>1 DEF Serve
      <4>2. waiting[i] \in Positions /\ slot[waiting[i]].conn = NoConn
        BY <1>t, <4>1 DEF Accepts, EmptySlot
      <4>3. slot'[waiting[i]].conn = cur[t]
        BY <1>t, <4>1, <4>2 DEF Slot
      <4> QED
        BY <1>1, <1>n, <3>1, <4>2, <4>3
    <3> QED
      BY <2>1, <3>1 DEF Serve
  <2> QED
    BY <2>3, <2>4, <2>5
<1> QED
  <2>1. /\ ~Replace(t) /\ _return_connection(t) => UNCHANGED <<cur, pool, tasks, slot>>
                             /\ pc' = [pc EXCEPT ![t] = "add_check"]
        /\ _add_to_pool_early(t) => UNCHANGED <<cur, pool, tasks, slot>>
                             /\ pc' = [pc EXCEPT ![t] = "add_lock"]
    BY DEF _return_connection, _add_to_pool_early, Goto, queueVars, taskVars, IsOpen
  <2> QED
    BY <1>5, <1>6, <1>7, <2>1 DEF Return

\* A step that counts nothing and keeps its connection, or that it has none.
LEMMA KeepsBalance ==
  ASSUME TypeOK, TypeOK', IsFiniteSet(GivenTo), NEW t \in Threads, OnlyThread(t), Still,
         UNCHANGED cur, cur[t] = NoConn \/ "shrunk" \notin {pc[t], pc'[t]},
         pc[t] \notin Busy, pc'[t] \notin Busy, t \in Admins => batch'[t] = batch[t]
  PROVE  Balanced(t)
<1>1. Holds(t)' = Holds(t)
  BY DEF Holds
<1>2. Share(t)' - Share(t) = Holds(t)' - Holds(t)
  BY ShareHolds
<1>3. Holds(t) \in Int
  BY DEF Holds
<1>4. Share(t) \in Int
  BY ShareType
<1>5. Share(t)' \in Int
  <2>1. Reviews(t)' \in Int /\ Asks(t)' \in Int
    BY DEF TypeOK, Reviews, Asks
  <2> QED
    BY <2>1 DEF Share, Holds, Connects
<1>6. Share(t)' = Share(t)
  BY <1>1, <1>2, <1>3, <1>4, <1>5
<1> QED
  BY <1>6, StillBalance

\* Every step of a client is balanced.
LEMMA ClientBalance ==
  ASSUME TypeInv, TypeOK', HandOver, HeldOnly, IsOpen, IsFiniteSet(GivenTo),
         "check" \notin Interrupts, NEW c \in Clients, ClientStep(c)
  PROVE  Balanced(c)
<1>t. /\ TypeOK /\ slot \in [Positions -> Slot] /\ pool \in Seq(Conns)
      /\ pc \in [Threads -> Labels] /\ cur \in [Threads -> Conns \cup {NoConn}]
      /\ waiting \in Seq(Positions) /\ c \in Threads /\ nconns \in Int
  BY DEF TypeInv, TypeOK, Threads
<1>n. \A x \in Conns : x # NoConn
  BY ConstantsAssumption DEF NoConn
<1>o. OnlyThread(c)
  BY <1>t, ClientOnly
<1>k. /\ UNCHANGED pool => Len(pool)' = Len(pool) + 0
      /\ SlotsKept => /\ IsFiniteSet(GivenTo)'
                      /\ Cardinality(GivenTo)' = Cardinality(GivenTo) + 0
      /\ UNCHANGED tasks => NQueued(tasks, Pending)' = NQueued(tasks, Pending) + 0
      /\ UNCHANGED sched => Later' = Later + 0
  BY <1>t, KeptCounts
<1>s. Share(c) = Holds(c) /\ Share(c)' = Holds(c)' /\ Holds(c) \in Int
  <2>1. Share(c) = Holds(c) /\ Share(c)' = Holds(c)'
    BY <1>t, ShareParts
  <2> QED
    BY <2>1 DEF Holds
<1>1. CASE Return(c)
  BY <1>1, <1>o, <1>t, ReturnBalance
<1>2. CASE \/ getconn(c) \/ getconn_timeout(c) \/ wait_broken(c) \/ getconn_refused(c)
           \/ check_passes(c) \/ check_fails(c) \/ backoff(c) \/ putconn(c)
           \/ (_putconn(c) /\ ~HasReset)
  <2>1. UNCHANGED <<cur, pool, tasks, nconns, sched>>
    BY <1>2 DEF getconn, getconn_timeout, wait_broken, getconn_refused, check_passes,
                check_fails, backoff, putconn, _putconn, growVars, taskVars, IsOpen
  <2>2. SlotsKept
    <3>1. UNCHANGED slot \/ \E p, e : slot' = [slot EXCEPT ![p].error = e]
      BY <1>2 DEF getconn, getconn_timeout, wait_broken, getconn_refused, check_passes,
                  check_fails, backoff, putconn, _putconn, queueVars
    <3> QED
      BY <3>1, <1>t DEF SlotsKept, Slot
  <2>3. pc[c] \notin Busy \cup {"shrunk"} /\ pc'[c] \notin Busy \cup {"shrunk"}
    BY <1>2, <1>t DEF getconn, getconn_timeout, wait_broken, getconn_refused, check_passes,
                check_fails, backoff, putconn, _putconn, Goto, At, Busy, IsOpen
  <2>4. Still
    BY <2>1, <2>2 DEF Still
  <2>5. c \notin Admins
    BY ThreadsAssumption
  <2> QED
    BY <1>o, <1>t, <2>1, <2>3, <2>4, <2>5, KeepsBalance
<1>3. CASE _get_ready_connection(c)
  <2>1. /\ cur[c] = NoConn /\ cur'[c] = Head(pool) /\ pc'[c] = "checking" /\ pool # <<>>
        /\ pool' = Tail(pool) /\ UNCHANGED <<tasks, sched, slot, nconns>>
    BY <1>3, <1>t DEF _get_ready_connection, Goto, At, HeldOnly, Holding, growVars, taskVars,
                      queueVars
  <2>2. Head(pool) \in Conns /\ Len(pool)' = Len(pool) + (-1)
    BY <1>t, <2>1
  <2>3. Holds(c) = 0 /\ Holds(c)' = 1
    BY <1>n, <2>1, <2>2 DEF Holds
  <2>4. Share(c)' = Share(c) + 1
    BY <1>s, <2>3
  <2>5. nconns' = nconns + ((-1) + 0 + 0 + 0) + 1
    BY <1>t, <2>1
  <2>6. SlotsKept
    BY <2>1 DEF SlotsKept
  <2>7. Moves(c, -1, 0, 0, 0, 1)
    BY <1>k, <1>o, <2>1, <2>2, <2>4, <2>5, <2>6 DEF Moves
  <2> QED
    BY <1>s, <1>t, <2>7, MovesBalance
<1>4. CASE getconn_enqueue(c)
  <2>1. SlotsKept
    <3>1. PICK p \in Positions : FreshPos(p) /\ slot' = [slot EXCEPT ![p] = EmptySlot]
      BY <1>4 DEF getconn_enqueue
    <3>2. slot[p].conn = NoConn
      <4>1. \A d \in Clients : pos[d] # p
        BY <3>1 DEF FreshPos, UsedPos
      <4> QED
        BY <4>1 DEF HandOver, WaitsOn
    <3> QED
      BY <1>t, <3>1, <3>2 DEF SlotsKept, EmptySlot
  <2>2. /\ cur[c] = NoConn /\ UNCHANGED <<cur, pool, sched>> /\ _maybe_grow_pool
        /\ pc[c] = "getconn" /\ pc'[c] = "waiting"
    BY <1>4, <1>t DEF getconn_enqueue, At, Goto, HeldOnly, Holding
  <2>3. CASE UNCHANGED <<tasks, nconns>>
    <3>1. Still
      BY <2>1, <2>2, <2>3 DEF Still
    <3>2. c \notin Admins
      BY ThreadsAssumption
    <3> QED
      BY <1>o, <1>t, <2>2, <3>1, <3>2, KeepsBalance DEF Busy
  <2>4. CASE nconns' = nconns + 1 /\ run_task(AddConnection(TRUE))
    <3>1. NQueued(tasks, Pending)' = NQueued(tasks, Pending) + 1
      BY <1>t, <2>4, QueuedChange, PendingTasks, NewTask
    <3>2. Share(c)' = Share(c) + 0
      BY <1>s, <2>2 DEF Holds
    <3>3. nconns' = nconns + (0 + 0 + 1 + 0) + 0
      BY <1>t, <2>4
    <3>4. Moves(c, 0, 0, 1, 0, 0)
      BY <1>k, <1>o, <2>1, <2>2, <3>1, <3>2, <3>3 DEF Moves
    <3> QED
      BY <1>s, <1>t, <3>4, MovesBalance
  <2> QED
    BY <2>2, <2>3, <2>4 DEF _maybe_grow_pool
<1>5. CASE wait_returns(c)
  <2>1. pos[c] \in Positions /\ pc[c] = "waiting" /\ cur[c] = NoConn
    BY <1>5, <1>t DEF wait_returns, At, HeldOnly, Holding, TypeInv, WaitersHeld
  <2>2. /\ cur'[c] = slot[pos[c]].conn /\ UNCHANGED <<pool, tasks, sched, nconns>>
        /\ slot' = [slot EXCEPT ![pos[c]].conn = NoConn] /\ pc'[c] \in {"checking", "idle"}
    BY <1>5, <1>t DEF wait_returns, WaitResult, Goto, growVars, taskVars
  <2>3. slot[pos[c]].conn \in Conns \cup {NoConn}
    BY <1>t, <2>1 DEF Slot
  <2>4. CASE slot[pos[c]].conn = NoConn
    <3>1. SlotsKept
      BY <1>t, <2>1, <2>2, <2>4 DEF SlotsKept, Slot
    <3>2. UNCHANGED cur
      BY <1>5, <1>t, <2>1, <2>4 DEF wait_returns, WaitResult
    <3>3. Still
      BY <2>2, <3>1 DEF Still
    <3>4. c \notin Admins
      BY ThreadsAssumption
    <3> QED
      BY <1>o, <1>t, <2>1, <2>2, <3>2, <3>3, <3>4, KeepsBalance DEF Busy
  <2>5. CASE slot[pos[c]].conn # NoConn
    <3>1. IsFiniteSet(GivenTo)' /\ Cardinality(GivenTo)' = Cardinality(GivenTo) + (-1)
      <4>1. IsFiniteSet(GivenTo)' /\ Cardinality(GivenTo)' = Cardinality(GivenTo) - 1
        BY <1>t, <2>1, <2>2, <2>5, GivenLess
      <4>2. Cardinality(GivenTo) \in Int
        BY FS_CardinalityType
      <4> QED
        BY <4>1, <4>2
    <3>2. Holds(c) = 0 /\ Holds(c)' = 1
      BY <2>1, <2>2, <2>5 DEF Holds
    <3>3. Share(c)' = Share(c) + 1
      BY <1>s, <3>2
    <3>4. nconns' = nconns + (0 + (-1) + 0 + 0) + 1
      BY <1>t, <2>2
    <3>5. Moves(c, 0, -1, 0, 0, 1)
      BY <1>k, <1>o, <2>2, <3>1, <3>3, <3>4 DEF Moves
    <3> QED
      BY <1>s, <1>t, <3>5, MovesBalance
  <2> QED
    BY <2>4, <2>5
<1>6. CASE _putconn(c) /\ HasReset
  <2>1. /\ cur[c] \in Conns /\ pc[c] \notin Busy \cup {"shrunk"} /\ pc'[c] \notin Busy
        /\ cur'[c] = NoConn /\ UNCHANGED <<nconns, sched, pool, slot>>
        /\ run_task(ReturnConnection(cur[c]))
    BY <1>6, <1>t DEF _putconn, At, Goto, AfterPut, Busy, TypeInv, ThreadsHeld, Holding,
                      growVars, queueVars
  <2>2. NQueued(tasks, Pending)' = NQueued(tasks, Pending) + 1
    BY <1>t, <2>1, QueuedChange, PendingTasks, NewTask
  <2>3. SlotsKept
    BY <2>1 DEF SlotsKept
  <2>4. OneMore
    BY <1>k, <2>1, <2>2, <2>3 DEF OneMore
  <2>5. c \notin Admins
    BY ThreadsAssumption
  <2> QED
    BY <1>o, <1>t, <2>1, <2>4, <2>5, DropsBalance
<1>7. ~check_interrupted(c)
  BY DEF check_interrupted
<1> QED
  BY <1>1, <1>2, <1>3, <1>4, <1>5, <1>6, <1>7 DEF ClientStep, Request

\* A delayed task more, or less.
LEMMA LaterChange ==
  ASSUME TypeOK
  PROVE  /\ \A k \in {"add", "grow"} :
              /\ sched' = [sched EXCEPT ![k] = @ + 1] => Later' = Later + 1
              /\ sched' = [sched EXCEPT ![k] = @ - 1] => Later' = Later + (-1)
         /\ sched' = [sched EXCEPT !["shrink"] = @ + 1] => Later' = Later + 0
         /\ sched' = [sched EXCEPT !["shrink"] = @ - 1] => Later' = Later + 0
<1>1. sched \in [DelayedKinds -> Nat] /\ sched["add"] \in Nat /\ sched["grow"] \in Nat
  BY DEF TypeOK, DelayedKinds
<1>2. Later = sched["add"] + sched["grow"] /\ Later' = sched'["add"] + sched'["grow"]
  BY DEF Later
<1> QED
  BY <1>1, <1>2 DEF DelayedKinds

\* Every step of a worker is balanced.
LEMMA WorkerBalance ==
  ASSUME TypeInv, TypeOK', HeldOnly, IsOpen, IsFiniteSet(GivenTo),
         NEW w \in Workers, WorkerStep(w)
  PROVE  Balanced(w)
<1>t. /\ TypeOK /\ slot \in [Positions -> Slot] /\ pool \in Seq(Conns)
      /\ pc \in [Threads -> Labels] /\ cur \in [Threads -> Conns \cup {NoConn}]
      /\ tasks \in Seq(Task) /\ w \in Threads /\ nconns \in Int
  BY DEF TypeInv, TypeOK, Threads
<1>n. \A x \in Conns : x # NoConn
  BY ConstantsAssumption DEF NoConn
<1>o. OnlyThread(w) /\ w \notin Admins
  BY <1>t, WorkerOnly, ThreadsAssumption
<1>k. /\ UNCHANGED pool => Len(pool)' = Len(pool) + 0
      /\ SlotsKept => /\ IsFiniteSet(GivenTo)'
                      /\ Cardinality(GivenTo)' = Cardinality(GivenTo) + 0
      /\ UNCHANGED tasks => NQueued(tasks, Pending)' = NQueued(tasks, Pending) + 0
      /\ UNCHANGED sched => Later' = Later + 0
  BY <1>t, KeptCounts
<1>s. Share(w) = Holds(w) + Connects(w) /\ Share(w)' = Holds(w)' + Connects(w)'
  BY <1>t, ShareParts
<1>i. /\ Holds(w) \in Int /\ Connects(w) \in Int /\ Share(w) \in Int
  BY <1>s DEF Holds, Connects
<1>1. CASE Return(w)
  BY <1>1, <1>o, <1>t, ReturnBalance
<1>2. CASE worker(w)
  <2>1. /\ cur[w] = NoConn /\ pc[w] = "idle" /\ tasks # <<>> /\ tasks' = Tail(tasks)
        /\ UNCHANGED <<pool, slot, nconns>>
    BY <1>2, <1>t DEF worker, At, HeldOnly, Holding, growVars, queueVars
  <2>2. Holds(w) = 0 /\ Connects(w) = 0
    BY <2>1 DEF Holds, Connects
  <2>3. Head(tasks) \in Task /\ (Head(tasks).kind = "return" => Head(tasks).conn \in Conns)
    BY <1>t, <2>1 DEF TypeInv, TasksHeld, GoodTasks
  <2>4. SlotsKept
    BY <2>1 DEF SlotsKept
  <2>5. NQueued(tasks, Pending) \in Nat
    BY <1>t, QueuedChange
  <2>6. CASE Head(tasks).kind \in {"stop", "shrink", "schedule"}
    <3>1. Head(tasks) \notin Pending
      BY <2>6 DEF Pending
    <3>2. NQueued(tasks, Pending)' = NQueued(tasks, Pending) + 0
      BY <1>t, <2>1, <2>5, <3>1, QueuedChange
    <3>3. cur'[w] = NoConn /\ pc'[w] # "connecting"
      BY <1>2, <1>t, <2>1, <2>6 DEF worker, Goto, IsOpen
    <3>4. Later' = Later + 0
      <4>1. UNCHANGED sched \/ sched' = [sched EXCEPT !["shrink"] = @ + 1]
        BY <1>2, <2>6 DEF worker, schedule_task, IsOpen
      <4> QED
        BY <1>k, <1>t, <4>1, LaterChange
    <3>5. Holds(w)' = 0 /\ Connects(w)' = 0
      BY <3>3 DEF Holds, Connects
    <3>6. Share(w)' = Share(w) + 0
      BY <1>s, <2>2, <3>5
    <3>7. nconns' = nconns + (0 + 0 + 0 + 0) + 0
      BY <1>t, <2>1
    <3>8. Moves(w, 0, 0, 0, 0, 0)
      BY <1>k, <1>o, <2>1, <2>4, <3>2, <3>4, <3>6, <3>7 DEF Moves
    <3> QED
      BY <1>i, <1>t, <3>8, MovesBalance
  <2>7. CASE Head(tasks).kind \in {"add", "return"}
    <3>1. Head(tasks) \in Pending
      BY <2>3, <2>7 DEF Pending
    <3>2. NQueued(tasks, Pending)' = NQueued(tasks, Pending) + (-1)
      BY <1>t, <2>1, <2>5, <3>1, QueuedChange
    <3>3. UNCHANGED sched
      BY <1>2, <2>7 DEF worker, IsOpen
    <3>4. \/ cur'[w] \in Conns /\ pc'[w] = "returning"
          \/ cur'[w] = NoConn /\ pc'[w] = "connecting"
      BY <1>2, <1>t, <2>1, <2>3, <2>7 DEF worker, Goto, IsOpen
    <3>5. Holds(w)' + Connects(w)' = 1
      BY <1>n, <3>4 DEF Holds, Connects
    <3>6. Share(w)' = Share(w) + 1
      BY <1>s, <2>2, <3>5
    <3>7. nconns' = nconns + (0 + 0 + (-1) + 0) + 1
      BY <1>t, <2>1
    <3>8. Moves(w, 0, 0, -1, 0, 1)
      BY <1>k, <1>o, <2>1, <2>4, <3>2, <3>3, <3>6, <3>7 DEF Moves
    <3> QED
      BY <1>i, <1>t, <3>8, MovesBalance
  <2> QED
    BY <2>3, <2>6, <2>7 DEF Task
<1>3. CASE _connect(w)
  <2>1. /\ cur[w] = NoConn /\ pc[w] = "connecting" /\ cur'[w] \in Conns
        /\ pc'[w] = "add_check" /\ UNCHANGED <<pool, tasks, nconns, sched, slot>>
    BY <1>3, <1>t DEF _connect, At, Goto, HeldOnly, Holding, growVars, taskVars, queueVars
  <2>2. Still
    BY <2>1 DEF Still, SlotsKept
  <2>3. Holds(w) = 0 /\ Connects(w) = 1 /\ Holds(w)' = 1 /\ Connects(w)' = 0
    BY <1>n, <2>1 DEF Holds, Connects
  <2>4. Share(w)' = Share(w)
    BY <1>s, <2>3
  <2> QED
    BY <1>o, <1>t, <2>2, <2>4, StillBalance
<1>4. CASE _connect_fails(w)
  <2>1. /\ cur[w] = NoConn /\ pc[w] = "connecting" /\ cur'[w] = NoConn
        /\ pc'[w] = "idle" /\ UNCHANGED <<pool, tasks, slot>>
    BY <1>4, <1>t DEF _connect_fails, At, Goto, HeldOnly, Holding, queueVars
  <2>2. SlotsKept
    BY <2>1 DEF SlotsKept
  <2>3. Holds(w) = 0 /\ Connects(w) = 1 /\ Holds(w)' = 0 /\ Connects(w)' = 0
    BY <2>1 DEF Holds, Connects
  <2>4. Share(w)' = Share(w) + (-1)
    BY <1>s, <2>3
  <2>5. CASE UNCHANGED nconns /\ \E k \in {"add", "grow"} : schedule_task(k)
    <3>1. Later' = Later + 1
      BY <1>t, <2>5, LaterChange DEF schedule_task
    <3>2. nconns' = nconns + (0 + 0 + 0 + 1) + (-1)
      BY <1>t, <2>5
    <3>3. Moves(w, 0, 0, 0, 1, -1)
      BY <1>k, <1>o, <2>1, <2>2, <2>4, <3>1, <3>2 DEF Moves
    <3> QED
      BY <1>i, <1>t, <3>3, MovesBalance
  <2>6. CASE UNCHANGED sched /\ nconns' = nconns - 1
    <3>1. nconns' = nconns + (0 + 0 + 0 + 0) + (-1)
      BY <1>t, <2>6
    <3>2. Moves(w, 0, 0, 0, 0, -1)
      BY <1>k, <1>o, <2>1, <2>2, <2>4, <2>6, <3>1 DEF Moves
    <3> QED
      BY <1>i, <1>t, <3>2, MovesBalance
  <2> QED
    BY <1>4, <2>5, <2>6 DEF _connect_fails, growVars
<1>5. CASE _add_connection_grow(w)
  <2>1. /\ cur[w] = NoConn /\ pc[w] = "grow" /\ UNCHANGED cur
        /\ pc'[w] = "idle" /\ UNCHANGED <<pool, sched, slot>>
    BY <1>5, <1>t DEF _add_connection_grow, At, Goto, HeldOnly, Holding, queueVars
  <2>2. SlotsKept
    BY <2>1 DEF SlotsKept
  <2>3. CASE UNCHANGED <<nconns, tasks>>
    <3>1. Still
      BY <2>1, <2>2, <2>3 DEF Still
    <3> QED
      BY <1>o, <1>t, <2>1, <3>1, KeepsBalance DEF Busy
  <2>4. CASE nconns' = nconns + 1 /\ run_task(AddConnection(TRUE))
    <3>1. NQueued(tasks, Pending)' = NQueued(tasks, Pending) + 1
      BY <1>t, <2>4, QueuedChange, PendingTasks, NewTask
    <3>2. Share(w)' = Share(w) + 0
      BY <1>s, <2>1 DEF Holds, Connects
    <3>3. nconns' = nconns + (0 + 0 + 1 + 0) + 0
      BY <1>t, <2>4
    <3>4. Moves(w, 0, 0, 1, 0, 0)
      BY <1>k, <1>o, <2>1, <2>2, <3>1, <3>2, <3>3 DEF Moves
    <3> QED
      BY <1>i, <1>t, <3>4, MovesBalance
  <2> QED
    BY <1>5, <2>3, <2>4 DEF _add_connection_grow
<1>6. CASE _shrink_pool(w)
  <2>1. /\ cur[w] = NoConn /\ pc[w] = "shrinking" /\ UNCHANGED <<tasks, sched, slot>>
    BY <1>6, <1>t DEF _shrink_pool, At, HeldOnly, Holding, taskVars, queueVars
  <2>2. SlotsKept
    BY <2>1 DEF SlotsKept
  <2>3. CASE UNCHANGED <<cur, pool, nconns>> /\ pc' = [pc EXCEPT ![w] = "idle"]
    <3>1. Still
      BY <2>1, <2>2, <2>3 DEF Still
    <3>2. pc'[w] = "idle"
      BY <1>t, <2>3
    <3> QED
      BY <1>o, <1>t, <2>1, <2>3, <3>1, <3>2, KeepsBalance DEF Busy
  <2>4. CASE /\ pool # <<>> /\ pool' = Tail(pool) /\ nconns' = nconns - 1
             /\ pc' = [pc EXCEPT ![w] = "shrunk"]
    <3>1. Len(pool)' = Len(pool) + (-1)
      BY <1>t, <2>4
    <3>2. pc'[w] = "shrunk"
      BY <1>t, <2>4
    <3>3. Holds(w) = 0 /\ Connects(w) = 0 /\ Holds(w)' = 0 /\ Connects(w)' = 0
      BY <2>1, <3>2 DEF Holds, Connects
    <3>4. Share(w)' = Share(w) + 0
      BY <1>s, <3>3
    <3>5. nconns' = nconns + ((-1) + 0 + 0 + 0) + 0
      BY <1>t, <2>4
    <3>6. Moves(w, -1, 0, 0, 0, 0)
      BY <1>k, <1>o, <2>1, <2>2, <3>1, <3>4, <3>5 DEF Moves
    <3> QED
      BY <1>i, <1>t, <3>6, MovesBalance
  <2> QED
    BY <1>6, <2>3, <2>4 DEF _shrink_pool, CanShrink, Goto
<1>7. CASE _shrink_close(w)
  <2>1. /\ pc[w] = "shrunk" /\ cur'[w] = NoConn
        /\ pc'[w] = "idle" /\ UNCHANGED <<pool, tasks, nconns, sched, slot>>
    BY <1>7, <1>t DEF _shrink_close, At, Goto, growVars, taskVars, queueVars
  <2>2. Still
    BY <2>1 DEF Still, SlotsKept
  <2>3. Holds(w) = 0 /\ Connects(w) = 0 /\ Holds(w)' = 0 /\ Connects(w)' = 0
    BY <2>1 DEF Holds, Connects
  <2>4. Share(w)' = Share(w)
    BY <1>s, <2>3
  <2> QED
    BY <1>o, <1>t, <2>2, <2>4, StillBalance
<1> QED
  BY <1>1, <1>2, <1>3, <1>4, <1>5, <1>6, <1>7 DEF WorkerStep, Work

\* The batch of check() or close(), one connection shorter.
LEMMA FrontLen ==
  ASSUME NEW b \in Seq(Conns), b # <<>>
  PROVE  Len(SubSeq(b, 1, Len(b) - 1)) = Len(b) - 1
<1>1. PICK n \in Nat : Len(b) = n + 1
  <2>1. Len(b) \in Nat /\ Len(b) >= 1
    OBVIOUS
  <2>2. Len(b) - 1 \in Nat /\ Len(b) = (Len(b) - 1) + 1
    BY <2>1
  <2> QED
    BY <2>2
<1>2. Len(b) - 1 = n
  BY <1>1
<1>3. Len(SubSeq(b, 1, n)) = n
  BY <1>1
<1> QED
  BY <1>2, <1>3

\* One connection less in the batch.
LEMMA OneLess ==
  ASSUME NEW h \in Int, NEW l \in Int, NEW k \in Int
  PROVE  h + l + (k - 1) = (h + l + k) + (-1)
  OBVIOUS

\* Every step of an admin thread is balanced.
LEMMA AdminBalance ==
  ASSUME TypeInv, TypeOK', HeldOnly, BatchesHeld, ClosersClosed, IsOpen, IsOpen',
         IsFiniteSet(GivenTo), NEW a \in Admins, AdminStep(a)
  PROVE  Balanced(a)
<1>t. /\ TypeOK /\ slot \in [Positions -> Slot] /\ pool \in Seq(Conns)
      /\ pc \in [Threads -> Labels] /\ cur \in [Threads -> Conns \cup {NoConn}]
      /\ batch \in [Admins -> Seq(Conns)] /\ togrow \in [Admins -> Nat]
      /\ a \in Threads /\ nconns \in Int /\ doomed \in [Admins -> Seq(Positions)]
  BY DEF TypeInv, TypeOK, Threads
<1>n. \A x \in Conns : x # NoConn
  BY ConstantsAssumption DEF NoConn
<1>o. OnlyThread(a)
  BY <1>t, AdminOnly
<1>k. /\ UNCHANGED pool => Len(pool)' = Len(pool) + 0
      /\ SlotsKept => /\ IsFiniteSet(GivenTo)'
                      /\ Cardinality(GivenTo)' = Cardinality(GivenTo) + 0
      /\ UNCHANGED tasks => NQueued(tasks, Pending)' = NQueued(tasks, Pending) + 0
      /\ UNCHANGED sched => Later' = Later + 0
  BY <1>t, KeptCounts
<1>s. /\ Share(a) = Holds(a) + Len(batch[a]) + Asks(a)
      /\ Share(a)' = Holds(a)' + Len(batch'[a]) + Asks(a)'
  BY <1>t, ShareParts
<1>i. Share(a) \in Int /\ Len(batch[a]) \in Nat /\ Asks(a) \in Int
  BY <1>t, ShareType DEF Asks
<1>1. CASE Return(a)
  BY <1>1, <1>o, <1>t, ReturnBalance
<1>2. CASE \/ close(a) \/ close_fail(a) \/ wait(a) \/ wait_lock(a) \/ wait_ends(a)
           \/ resize(a) \/ (check_next(a) /\ batch[a] = <<>>)
  <2>1. UNCHANGED <<cur, pool, tasks, nconns, sched, batch>>
    BY <1>2 DEF close, close_fail, wait, wait_lock, wait_ends, resize, check_next, growVars,
                taskVars, adminVars
  <2>2. SlotsKept
    <3>1. UNCHANGED slot \/ \E p, e : slot' = [slot EXCEPT ![p].error = e]
      BY <1>2 DEF close, close_fail, wait, wait_lock, wait_ends, resize, check_next, queueVars
    <3>2. CASE UNCHANGED slot
      BY <3>2 DEF SlotsKept
    <3>3. ASSUME NEW p, NEW e, slot' = [slot EXCEPT ![p].error = e]
          PROVE  SlotsKept
      BY <1>t, <3>3 DEF SlotsKept, Slot
    <3> QED
      BY <3>1, <3>2, <3>3
  <2>3. pc[a] \notin Busy \cup {"shrunk"} /\ pc'[a] \notin Busy \cup {"shrunk"}
    BY <1>2, <1>t DEF close, close_fail, wait, wait_lock, wait_ends, resize, check_next,
                      Goto, At, Busy
  <2>4. Still
    BY <2>1, <2>2 DEF Still
  <2> QED
    BY <1>o, <1>t, <2>1, <2>3, <2>4, KeepsBalance
<1>3. CASE close_lock(a) \/ close_conns(a)
  BY <1>3 DEF close_lock, close_conns, At, ClosersClosed, IsOpen
<1>4. CASE check(a)
  <2> DEFINE n == Len(pool)
  <2>1. /\ pc[a] = "start" /\ pc'[a] = "check_next" /\ cur'[a] = cur[a]
        /\ UNCHANGED <<sched, slot>> /\ pool' = <<>> /\ batch' = [batch EXCEPT ![a] = pool]
        /\ _maybe_grow_pool
    BY <1>4, <1>t DEF check, At, Goto, TakeIdle, queueVars
  <2>2. n \in Nat /\ -n \in Int /\ Len(pool)' = Len(pool) + (-n)
    BY <1>t, <2>1
  <2>3. batch[a] = <<>> /\ Len(batch[a]) = 0 /\ Len(batch'[a]) = n
    <3>1. batch[a] = <<>>
      BY <1>t, <2>1 DEF BatchesHeld, Reviewing
    <3>2. batch'[a] = pool
      BY <1>t, <2>1
    <3> QED
      BY <3>1, <3>2
  <2>4. Holds(a)' = Holds(a) /\ Asks(a) = 0 /\ Asks(a)' = 0 /\ Holds(a) \in Int
    BY <2>1 DEF Holds, Asks
  <2>5. SlotsKept
    BY <2>1 DEF SlotsKept
  <2> HIDE DEF n
  <2>6. Share(a)' = Share(a) + n
    BY <1>s, <2>2, <2>3, <2>4
  <2>7. CASE UNCHANGED <<tasks, nconns>>
    <3>1. nconns' = nconns + ((-n) + 0 + 0 + 0) + n
      BY <1>t, <2>2, <2>7
    <3>2. Moves(a, -n, 0, 0, 0, n)
      BY <1>k, <1>o, <2>1, <2>2, <2>5, <2>6, <2>7, <3>1 DEF Moves
    <3> QED
      BY <1>i, <1>t, <2>2, <3>2, MovesBalance
  <2>8. CASE nconns' = nconns + 1 /\ run_task(AddConnection(TRUE))
    <3>1. NQueued(tasks, Pending)' = NQueued(tasks, Pending) + 1
      BY <1>t, <2>8, QueuedChange, PendingTasks, NewTask
    <3>2. nconns' = nconns + ((-n) + 0 + 1 + 0) + n
      BY <1>t, <2>2, <2>8
    <3>3. Moves(a, -n, 0, 1, 0, n)
      BY <1>k, <1>o, <2>1, <2>2, <2>5, <2>6, <3>1, <3>2 DEF Moves
    <3> QED
      BY <1>i, <1>t, <2>2, <3>3, MovesBalance
  <2> QED
    BY <2>1, <2>7, <2>8 DEF _maybe_grow_pool
<1>5. CASE check_next(a) /\ batch[a] # <<>>
  <2>1. /\ pc[a] = "check_next" /\ cur[a] = NoConn /\ UNCHANGED <<pool, slot, sched, nconns>>
        /\ batch' = [batch EXCEPT ![a] = SubSeq(batch[a], 1, Len(batch[a]) - 1)]
    BY <1>5, <1>t DEF check_next, At, HeldOnly, Holding, growVars, queueVars
  <2>2. SlotsKept
    BY <2>1 DEF SlotsKept
  <2>3. Len(batch'[a]) = Len(batch[a]) - 1
    <3>1. PICK b \in Seq(Conns) : b = batch[a]
      BY <1>t
    <3>2. b # <<>> /\ batch'[a] = SubSeq(b, 1, Len(b) - 1)
      BY <1>5, <1>t, <2>1, <3>1
    <3>3. Len(SubSeq(b, 1, Len(b) - 1)) = Len(b) - 1
      BY <3>2, FrontLen
    <3> QED
      BY <3>1, <3>2, <3>3
  <2>4. Asks(a) = 0
    BY <2>1 DEF Asks
  <2>5. Holds(a) = 0
    BY <2>1 DEF Holds
  <2>6. CASE run_task(AddConnection(FALSE)) /\ UNCHANGED <<pc, cur>>
    <3>1. NQueued(tasks, Pending)' = NQueued(tasks, Pending) + 1
      BY <1>t, <2>6, QueuedChange, PendingTasks, NewTask
    <3>2. Holds(a)' = 0 /\ Asks(a)' = 0
      BY <2>1, <2>6 DEF Holds, Asks
    <3>3. Share(a)' = Share(a) + (-1)
      BY <1>i, <1>s, <2>3, <2>4, <2>5, <3>2
    <3>4. nconns' = nconns + (0 + 0 + 1 + 0) + (-1)
      BY <1>t, <2>1
    <3>5. Moves(a, 0, 0, 1, 0, -1)
      BY <1>k, <1>o, <2>1, <2>2, <3>1, <3>3, <3>4 DEF Moves
    <3> QED
      BY <1>i, <1>t, <3>5, MovesBalance
  <2>7. CASE /\ UNCHANGED tasks /\ \E x \in Conns : cur' = [cur EXCEPT ![a] = x]
             /\ pc' = [pc EXCEPT ![a] = "add_check"]
    <3>1. cur'[a] \in Conns /\ pc'[a] = "add_check"
      BY <1>t, <2>7
    <3>2. Holds(a)' = 1 /\ Asks(a)' = 0
      BY <1>n, <3>1 DEF Holds, Asks
    <3>3. Share(a)' = Share(a)
      BY <1>i, <1>s, <2>3, <2>4, <2>5, <3>2
    <3>4. Still
      BY <2>1, <2>2, <2>7 DEF Still
    <3> QED
      BY <1>o, <1>t, <3>3, <3>4, StillBalance
  <2>8. batch[a][Len(batch[a])] \in Conns
    BY <1>5, <1>t
  <2> QED
    BY <1>5, <2>6, <2>7, <2>8 DEF check_next, Discard, Goto
<1>6. CASE resize_lock(a)
  <2>1. /\ pc[a] = "resize_lock" /\ pc'[a] = "resize_run" /\ cur'[a] = cur[a]
        /\ UNCHANGED <<pool, tasks, sched, slot, batch, togrow>>
        /\ nconns' = nconns + togrow[a]
    BY <1>6, <1>t DEF resize_lock, At, Goto, taskVars, queueVars, adminVars
  <2>2. SlotsKept
    BY <2>1 DEF SlotsKept
  <2>3. PICK n \in Nat : n = togrow[a]
    BY <1>t
  <2>4. Holds(a)' = Holds(a) /\ Asks(a) = 0 /\ Asks(a)' = n /\ Holds(a) \in Int
    BY <2>1, <2>3 DEF Holds, Asks
  <2>5. Share(a)' = Share(a) + n
    <3>1. Len(batch'[a]) = Len(batch[a])
      BY <2>1
    <3> QED
      BY <1>i, <1>s, <2>4, <3>1
  <2>6. nconns' = nconns + (0 + 0 + 0 + 0) + n
    BY <1>t, <2>1, <2>3
  <2>7. Moves(a, 0, 0, 0, 0, n)
    BY <1>k, <1>o, <2>1, <2>2, <2>5, <2>6 DEF Moves
  <2> QED
    BY <1>i, <1>t, <2>7, MovesBalance
<1>7. CASE resize_run(a)
  <2>1. /\ pc[a] = "resize_run" /\ UNCHANGED <<cur, pool, nconns, sched, slot, batch>>
    BY <1>7 DEF resize_run, At, growVars, queueVars
  <2>2. SlotsKept
    BY <2>1 DEF SlotsKept
  <2>3. Asks(a) = togrow[a] /\ togrow[a] \in Nat
    BY <1>t, <2>1 DEF Asks
  <2>4. Len(batch'[a]) = Len(batch[a])
    BY <2>1
  <2>5. CASE /\ togrow[a] > 0 /\ run_task(AddConnection(FALSE)) /\ UNCHANGED pc
             /\ togrow' = [togrow EXCEPT ![a] = @ - 1]
    <3>1. NQueued(tasks, Pending)' = NQueued(tasks, Pending) + 1
      BY <1>t, <2>5, QueuedChange, PendingTasks, NewTask
    <3>2. Asks(a)' = togrow[a] - 1
      BY <1>t, <2>1, <2>5 DEF Asks
    <3>3. Holds(a)' = Holds(a) /\ Holds(a) \in Int
      BY <2>1, <2>5 DEF Holds
    <3>4. Share(a)' = Share(a) + (-1)
      <4>1. Share(a)' = Holds(a) + Len(batch[a]) + (togrow[a] - 1)
        BY <1>s, <2>4, <3>2, <3>3
      <4>2. Share(a) = Holds(a) + Len(batch[a]) + togrow[a]
        BY <1>s, <2>3
      <4> QED
        BY <1>i, <2>3, <3>3, <4>1, <4>2, OneLess, SMTT(40)
    <3>5. nconns' = nconns + (0 + 0 + 1 + 0) + (-1)
      BY <1>t, <2>1
    <3>6. Moves(a, 0, 0, 1, 0, -1)
      BY <1>k, <1>o, <2>1, <2>2, <3>1, <3>4, <3>5 DEF Moves
    <3> QED
      BY <1>i, <1>t, <3>6, MovesBalance
  <2>6. CASE togrow[a] = 0 /\ Goto(a, "done") /\ UNCHANGED <<tasks, togrow>>
    <3>1. Still
      BY <2>1, <2>2, <2>6 DEF Still
    <3>2. pc'[a] = "done"
      BY <1>t, <2>6 DEF Goto
    <3>3. Asks(a)' = 0 /\ Holds(a)' = Holds(a) /\ Holds(a) \in Int
      BY <2>1, <3>2 DEF Asks, Holds
    <3>4. Share(a)' = Share(a)
      BY <1>i, <1>s, <2>3, <2>4, <2>6, <3>3
    <3> QED
      BY <1>o, <1>t, <3>1, <3>4, StillBalance
  <2> QED
    BY <1>7, <2>5, <2>6 DEF resize_run
<1> QED
  BY <1>1, <1>2, <1>3, <1>4, <1>5, <1>6, <1>7 DEF AdminStep, Administer

\* open(): as many tasks as _nconns says, and nothing anywhere else.
LEMMA CountOpen ==
  ASSUME TypeInv, TypeOK', HandOver, HeldOnly, BatchesHeld, NotOpened, open
  PROVE  CountInv'
<1>t. /\ cur \in [Threads -> Conns \cup {NoConn}] /\ pc \in [Threads -> Labels]
      /\ Clients \subseteq Threads /\ Workers \subseteq Threads /\ Admins \subseteq Threads
      /\ MinSize \in Nat
  BY ConstantsAssumption DEF TypeInv, TypeOK, Threads, SizesOK
<1>n. /\ nconns = MinSize /\ pool = <<>> /\ \A k \in DelayedKinds : sched[k] = 0
      /\ \A c \in Clients : pc[c] = "idle"
      /\ \A w \in Workers : pc[w] = "off"
      /\ \A a \in Admins : pc[a] \in {"start", "done"}
  BY DEF open, NotOpened
<1>1. /\ UNCHANGED <<nconns, pool, sched, slot, cur, batch, togrow>>
      /\ \A t \in Threads : pc'[t] = IF t \in Workers THEN "idle" ELSE pc[t]
      /\ tasks' = [i \in 1..nconns |-> AddConnection(FALSE)] \o <<Simple("schedule")>>
  BY DEF open, growVars, queueVars, adminVars
<1>e. Cardinality({}) = 0 /\ IsFiniteSet({})
  BY FS_EmptySet
<1>2. Holders' = {}
  <2>1. \A t \in Threads : cur[t] = NoConn
    BY <1>n, <1>t DEF HeldOnly, Holding, Threads
  <2> QED
    BY <1>1, <2>1 DEF Holders
<1>3. Connecting' = {}
  BY <1>1, <1>t DEF Connecting, At
<1>4. GivenTo' = {}
  <2>1. \A p \in Positions : slot[p].conn = NoConn
    BY <1>n DEF HandOver, WaitsOn
  <2> QED
    BY <1>1, <2>1 DEF GivenTo
<1>5. Pairs(Batched)' = {}
  <2>1. \A a \in Admins : batch'[a] = <<>>
    BY <1>1, <1>n DEF BatchesHeld, Reviewing
  <2>2. \A a \in Admins : Batched'[a] = 0
    BY <2>1 DEF Batched
  <2> DEFINE f == Batched'
  <2>3. Pairs(Batched)' = Pairs(f)
    BY DEF Pairs
  <2>4. \A a \in Admins : f[a] = 0
    BY <2>2
  <2> HIDE DEF f
  <2>5. Pairs(f) = {}
    BY <2>4 DEF Pairs
  <2> QED
    BY <2>3, <2>5
<1>6. Pairs(Asked)' = {}
  <2>1. \A a \in Admins : pc'[a] # "resize_run"
    BY <1>1, <1>n, <1>t, ThreadsAssumption
  <2>2. \A a \in Admins : Asked'[a] = 0
    BY <2>1 DEF Asked, At
  <2> DEFINE f == Asked'
  <2>3. Pairs(Asked)' = Pairs(f)
    BY DEF Pairs
  <2>4. \A a \in Admins : f[a] = 0
    BY <2>2
  <2> HIDE DEF f
  <2>5. Pairs(f) = {}
    BY <2>4 DEF Pairs
  <2> QED
    BY <2>3, <2>5
<1>7. InHands' = 0 /\ HandsFinite'
  BY <1>2, <1>3, <1>5, <1>6, <1>e DEF InHands, HandsFinite
<1>8. NQueued(tasks, Pending)' = MinSize
  <2> DEFINE u == [i \in 1..MinSize |-> AddConnection(FALSE)]
             v == u \o <<Simple("schedule")>>
  <2>1. u \in Seq(Task) /\ Len(u) = MinSize
    <3>1. PICK k \in Task : k = AddConnection(FALSE)
      BY NewTask
    <3>2. /\ [i \in 1..MinSize |-> k] \in Seq(Task)
          /\ Len([i \in 1..MinSize |-> k]) = MinSize
      BY <1>t
    <3> QED
      BY <3>1, <3>2
  <2>2. Simple("schedule") \in Task /\ Simple("schedule") \notin Pending
    BY NewTask DEF Pending
  <2>3. \A i \in 1..MinSize : u[i] \in Pending
    BY PendingTasks
  <2>4. tasks' = v
    BY <1>1, <1>n
  <2> DEFINE w == Simple("schedule")
  <2> HIDE DEF u, w
  <2>5. v = Append(u, w)
    BY <2>1, <2>2 DEF w
  <2>6. NQueued(v, Pending) = NQueued(u, Pending)
    BY <2>1, <2>2, <2>5, QueuedAppend DEF w
  <2>7. {i \in DOMAIN u : u[i] \in Pending} = 1..MinSize
    BY <1>t, <2>1, <2>3
  <2>8. NQueued(u, Pending) = MinSize
    <3>1. Cardinality(1..MinSize) = MinSize
      BY <1>t, FS_Interval
    <3> QED
      BY <2>7, <3>1 DEF NQueued
  <2>9. NQueued(tasks, Pending)' = NQueued(v, Pending)
    BY <2>4 DEF NQueued
  <2> QED
    BY <2>6, <2>8, <2>9
<1>9. Len(pool)' = 0 /\ Later' = 0 /\ Cardinality(GivenTo)' = 0 /\ IsFiniteSet(GivenTo)'
  BY <1>1, <1>4, <1>e, <1>n DEF Later, DelayedKinds
<1>10. OnHand' = MinSize
  BY <1>8, <1>9, <1>t DEF OnHand
<1>11. nconns' = OnHand' + InHands'
  BY <1>1, <1>7, <1>10, <1>n, <1>t
<1> QED
  BY <1>7, <1>9, <1>11 DEF CountInv

\* The clock moves a delayed task to the queue.
LEMMA CountTick ==
  ASSUME TypeInv, CountInv, IsOpen, NEW k \in DelayedKinds, tick(k)
  PROVE  CountInv'
<1>t. TypeOK
  BY DEF TypeInv
<1>i. HandsFinite /\ IsFiniteSet(GivenTo) /\ nconns = OnHand + InHands
  BY DEF CountInv
<1>1. /\ UNCHANGED <<nconns, pool, slot, pc, cur, batch, togrow>>
      /\ sched' = [sched EXCEPT ![k] = @ - 1] /\ run_task(Delayed(k))
  BY DEF tick, IsOpen, growVars, queueVars, adminVars
<1>2. HandsFinite' /\ InHands' = InHands
  BY <1>1, <1>i DEF HandsFinite, InHands, Holders, Connecting, Batched, Asked, At, Pairs
<1>3. /\ UNCHANGED pool => Len(pool)' = Len(pool) + 0
      /\ SlotsKept => /\ IsFiniteSet(GivenTo)'
                      /\ Cardinality(GivenTo)' = Cardinality(GivenTo) + 0
  BY <1>i, <1>t, KeptCounts
<1>4. SlotsKept
  BY <1>1 DEF SlotsKept
<1>5. \/ /\ NQueued(tasks, Pending)' = NQueued(tasks, Pending) + 0
         /\ Later' = Later + 0
      \/ /\ NQueued(tasks, Pending)' = NQueued(tasks, Pending) + 1
         /\ Later' = Later + (-1)
  <2>1. NQueued(tasks, Pending) \in Nat /\ Delayed(k) \in Task
    BY <1>t, QueuedChange, NewTask
  <2>2. CASE k = "shrink"
    BY <1>1, <1>t, <2>1, <2>2, QueuedChange, LaterChange, PendingTasks
  <2>3. CASE k \in {"add", "grow"}
    BY <1>1, <1>t, <2>1, <2>3, QueuedChange, LaterChange, PendingTasks
  <2> QED
    BY <2>2, <2>3 DEF DelayedKinds
<1>6. /\ OnHand \in Int /\ Len(pool) \in Nat /\ Cardinality(GivenTo) \in Nat
      /\ NQueued(tasks, Pending) \in Nat /\ Later \in Nat
  BY <1>i, <1>t, OnHandType
<1>7. OnHand' = OnHand
  <2>1. \A b, d \in Int : b + d = 0 =>
           (Len(pool) + 0) + (Cardinality(GivenTo) + 0) + (NQueued(tasks, Pending) + b) + (Later + d)
           = OnHand
    <3>1. SUFFICES ASSUME NEW b \in Int, NEW d \in Int, b + d = 0
                   PROVE  (Len(pool) + 0) + (Cardinality(GivenTo) + 0)
                             + (NQueued(tasks, Pending) + b) + (Later + d) = OnHand
      OBVIOUS
    <3>2. (Len(pool) + 0) + (Cardinality(GivenTo) + 0)
             + (NQueued(tasks, Pending) + b) + (Later + d)
          = (Len(pool) + Cardinality(GivenTo) + NQueued(tasks, Pending) + Later) + (0 + 0 + b + d)
      BY <1>6, Regroup
    <3>3. 0 + 0 + b + d = 0
      BY <3>1
    <3> QED
      BY <1>6, <3>2, <3>3 DEF OnHand
  <2>2. OnHand' = (Len(pool) + 0) + (Cardinality(GivenTo) + 0)
                  + NQueued(tasks, Pending)' + Later'
    BY <1>1, <1>3, <1>4 DEF OnHand
  <2>3. 0 + 0 = 0 /\ 1 + (-1) = 0
    OBVIOUS
  <2> QED
    BY <1>5, <2>1, <2>2, <2>3
<1> QED
  BY <1>1, <1>2, <1>3, <1>4, <1>7, <1>i DEF CountInv

\* Nobody but close() closes the pool, and it stays closed.
LEMMA ClosersStep ==
  ASSUME TypeInv, NotOpened, ClosersClosed, [Next]_vars
  PROVE  ClosersClosed'
<1>t. pc \in [Threads -> Labels] /\ Admins \subseteq Threads
  BY DEF TypeInv, TypeOK, Threads
<1>d. \A a \in Admins : a \notin Clients /\ a \notin Workers
  BY ThreadsAssumption
<1>1. ASSUME NEW c \in Clients, ClientStep(c)
      PROVE  ClosersClosed'
  <2>1. UNCHANGED closed /\ \A a \in Admins : pc'[a] = pc[a]
    <3>1. OnlyThread(c)
      BY <1>1, ClientOnly DEF TypeInv
    <3>2. UNCHANGED closed
      BY <1>1 DEF ClientStep, Request, getconn, getconn_timeout, wait_broken, getconn_refused,
         getconn_enqueue, check_passes, check_fails, check_interrupted, backoff, putconn,
         _get_ready_connection, wait_returns, _putconn, Return, _return_connection,
         _add_to_pool_early, _add_to_pool, flagVars
    <3> QED
      BY <1>d, <1>t, <3>1, <3>2 DEF OnlyThread
  <2> QED
    BY <2>1 DEF ClosersClosed
<1>2. ASSUME NEW w \in Workers, WorkerStep(w)
      PROVE  ClosersClosed'
  <2>1. UNCHANGED closed /\ \A a \in Admins : pc'[a] = pc[a]
    <3>1. OnlyThread(w)
      BY <1>2, WorkerOnly DEF TypeInv
    <3>2. UNCHANGED closed
      BY <1>2 DEF WorkerStep, Work, worker, _connect, _connect_fails, _add_connection_grow,
         _shrink_pool, _shrink_close, Return, _return_connection, _add_to_pool_early,
         _add_to_pool, flagVars
    <3> QED
      BY <1>d, <1>t, <3>1, <3>2 DEF OnlyThread
  <2> QED
    BY <2>1 DEF ClosersClosed
<1>3. ASSUME NEW a \in Admins, AdminStep(a)
      PROVE  ClosersClosed'
  <2>1. CASE close_lock(a)
    BY <2>1 DEF close_lock, ClosersClosed
  <2>2. CASE ~close_lock(a)
    <3>1. OnlyThread(a)
      BY <1>3, AdminOnly DEF TypeInv
    <3>2. UNCHANGED closed
      BY <1>3, <2>2 DEF AdminStep, Administer, close, close_conns, close_fail, check,
         check_next, resize, resize_lock, resize_run, wait, wait_lock, wait_ends,
         Return, _return_connection, _add_to_pool_early, _add_to_pool, flagVars
    <3>3. pc'[a] \in {"gather", "fail"} => pc[a] \in {"gather", "fail"}
      <4>1. a \notin Clients /\ a \notin Workers
        BY <1>d
      <4> QED
        BY <1>3, <1>t, <2>2, <4>1
           DEF AdminStep, Administer, close, close_conns, close_fail, check,
         check_next, resize, resize_lock, resize_run, wait, wait_lock, wait_ends,
         Return, _return_connection, _add_to_pool_early, _add_to_pool, CloseCur, Goto, After, At
    <3> QED
      BY <1>t, <3>1, <3>2, <3>3 DEF ClosersClosed, OnlyThread
  <2> QED
    BY <2>1, <2>2
<1>4. CASE open
  BY <1>4, <1>d, <1>t DEF open, NotOpened, ClosersClosed
<1>5. ASSUME NEW k \in DelayedKinds, tick(k)
      PROVE  ClosersClosed'
  BY <1>5 DEF tick, ClosersClosed, flagVars
<1>6. CASE UNCHANGED vars
  BY <1>6 DEF vars, ClosersClosed
<1> QED
  BY <1>1, <1>2, <1>3, <1>4, <1>5, <1>6 DEF Next

\* A pool that is open was open before, unless this step opens it.
LEMMA OpenBefore ==
  ASSUME [Next]_vars, ~open, IsOpen'
  PROVE  IsOpen
<1>1. UNCHANGED opened /\ (UNCHANGED closed \/ closed')
  <2>1. ASSUME NEW c \in Clients, ClientStep(c)
        PROVE  UNCHANGED <<opened, closed>>
    BY <2>1 DEF ClientStep, Request, getconn, getconn_timeout, wait_broken, getconn_refused,
         getconn_enqueue, check_passes, check_fails, check_interrupted, backoff, putconn,
         _get_ready_connection, wait_returns, _putconn, Return, _return_connection,
         _add_to_pool_early, _add_to_pool, flagVars
  <2>2. ASSUME NEW w \in Workers, WorkerStep(w)
        PROVE  UNCHANGED <<opened, closed>>
    BY <2>2 DEF WorkerStep, Work, worker, _connect, _connect_fails, _add_connection_grow,
         _shrink_pool, _shrink_close, Return, _return_connection, _add_to_pool_early,
         _add_to_pool, flagVars
  <2>3. ASSUME NEW a \in Admins, AdminStep(a)
        PROVE  UNCHANGED opened /\ (UNCHANGED closed \/ closed')
    BY <2>3 DEF AdminStep, Administer, close, close_lock, close_conns, close_fail, check,
         check_next, resize, resize_lock, resize_run, wait, wait_lock, wait_ends,
         Return, _return_connection, _add_to_pool_early, _add_to_pool, flagVars
  <2>4. ASSUME NEW k \in DelayedKinds, tick(k)
        PROVE  UNCHANGED <<opened, closed>>
    BY <2>4 DEF tick, flagVars
  <2> QED
    BY <2>1, <2>2, <2>3, <2>4 DEF Next, vars
<1> QED
  BY <1>1 DEF IsOpen

\* The count is kept by every step.
LEMMA CountStep ==
  ASSUME TypeInv, TypeInv', HandOver, ControlInv, ClosersClosed, CountInv,
         "check" \notin Interrupts, [Next]_vars
  PROVE  CountInv'
<1>t. /\ TypeOK /\ TypeOK' /\ HeldOnly /\ BatchesHeld /\ NotOpened
      /\ Clients \subseteq Threads /\ Workers \subseteq Threads /\ Admins \subseteq Threads
  BY DEF TypeInv, ControlInv, Threads
<1>1. CASE ~IsOpen'
  BY <1>1 DEF CountInv
<1>2. CASE open
  BY <1>2, <1>t, CountOpen
<1>3. CASE IsOpen' /\ ~open
  <2>1. IsOpen /\ IsOpen'
    BY <1>3, OpenBefore
  <2>2. IsFiniteSet(GivenTo)
    BY <2>1 DEF CountInv
  <2>3. ASSUME NEW c \in Clients, ClientStep(c)
        PROVE  CountInv'
    <3>1. Balanced(c)
      BY <1>t, <2>1, <2>2, <2>3, ClientBalance
    <3> QED
      BY <1>t, <2>1, <3>1, BalancedKeeps
  <2>4. ASSUME NEW w \in Workers, WorkerStep(w)
        PROVE  CountInv'
    <3>1. Balanced(w)
      BY <1>t, <2>1, <2>2, <2>4, WorkerBalance
    <3> QED
      BY <1>t, <2>1, <3>1, BalancedKeeps
  <2>5. ASSUME NEW a \in Admins, AdminStep(a)
        PROVE  CountInv'
    <3>1. Balanced(a)
      BY <1>t, <2>1, <2>2, <2>5, AdminBalance
    <3> QED
      BY <1>t, <2>1, <3>1, BalancedKeeps
  <2>6. ASSUME NEW k \in DelayedKinds, tick(k)
        PROVE  CountInv'
    BY <2>1, <2>6, CountTick
  <2>7. CASE UNCHANGED vars
    BY <2>7 DEF vars, CountInv, IsOpen, HandsFinite, OnHand, InHands, Holders, Connecting,
                GivenTo, Batched, Asked, Later, Pairs, NQueued, At
  <2> QED
    BY <1>3, <2>3, <2>4, <2>5, <2>6, <2>7 DEF Next
<1> QED
  BY <1>1, <1>2, <1>3

\* The invariant says the same as Accounting.
LEMMA CountIsAccounting ==
  ASSUME TypeOK, CountInv
  PROVE  Accounting
<1>1. SUFFICES ASSUME IsOpen
               PROVE  nconns = InPool + Out + Preparing
  BY DEF Accounting
<1>2. HandsFinite /\ IsFiniteSet(GivenTo) /\ nconns = OnHand + InHands
  BY <1>1 DEF CountInv
<1>3. UNION {{a} \X DOMAIN batch[a] : a \in Admins} = Pairs(Batched)
  BY DEF Pairs, Batched, TypeOK
<1>4. {i \in DOMAIN tasks : tasks[i].kind \in {"add", "return"}}
      = {i \in DOMAIN tasks : tasks[i] \in Pending}
  <2>1. \A i \in DOMAIN tasks : tasks[i] \in Task
    BY DEF TypeOK
  <2> QED
    BY <2>1 DEF Pending
<1>5. UNION {{a} \X (1..togrow[a]) : a \in {b \in Admins : At(b, "resize_run")}}
      = Pairs(Asked)
  <2>1. \A a \in Admins : ~At(a, "resize_run") => {a} \X (1..Asked[a]) = {}
    BY DEF Asked
  <2>2. \A a \in Admins : At(a, "resize_run") => {a} \X (1..Asked[a]) = {a} \X (1..togrow[a])
    BY DEF Asked
  <2> QED
    BY <2>1, <2>2 DEF Pairs
<1>6. /\ Out = Cardinality(Holders) + Cardinality(GivenTo) + Cardinality(Pairs(Batched))
      /\ Preparing = NQueued(tasks, Pending) + sched["add"] + sched["grow"]
                       + Cardinality(Connecting) + Cardinality(Pairs(Asked))
  BY <1>3, <1>4, <1>5 DEF Out, Preparing, Holders, GivenTo, NQueued, Connecting
<1>7. /\ Len(pool) \in Int /\ Cardinality(GivenTo) \in Int /\ NQueued(tasks, Pending) \in Int
      /\ sched["add"] \in Int /\ sched["grow"] \in Int
  BY <1>2, OnHandType DEF TypeOK, DelayedKinds
<1>8. /\ Cardinality(Holders) \in Int /\ Cardinality(Pairs(Batched)) \in Int
      /\ Cardinality(Pairs(Asked)) \in Int /\ Cardinality(Connecting) \in Int
  <2>1. IsFiniteSet(Connecting)
    BY FS_Subset, ThreadsAssumption DEF Connecting
  <2> QED
    BY <1>2, <2>1, FS_CardinalityType DEF HandsFinite
<1>9. OnHand + InHands
      = Len(pool) + (Cardinality(Holders) + Cardinality(GivenTo) + Cardinality(Pairs(Batched)))
        + (NQueued(tasks, Pending) + sched["add"] + sched["grow"]
           + Cardinality(Connecting) + Cardinality(Pairs(Asked)))
  <2>1. PICK p \in Int, g \in Int, q \in Int, x \in Int, y \in Int :
          /\ p = Len(pool) /\ g = Cardinality(GivenTo) /\ q = NQueued(tasks, Pending)
          /\ x = sched["add"] /\ y = sched["grow"]
    BY <1>7
  <2>2. PICK h \in Int, b \in Int, s \in Int, c \in Int :
          /\ h = Cardinality(Holders) /\ b = Cardinality(Pairs(Batched))
          /\ s = Cardinality(Pairs(Asked)) /\ c = Cardinality(Connecting)
    BY <1>8
  <2>3. OnHand + InHands = (p + g + q + (x + y)) + (h + c + b + s)
    BY <2>1, <2>2 DEF OnHand, InHands, Later
  <2>4. (p + g + q + (x + y)) + (h + c + b + s) = p + (h + g + b) + (q + x + y + c + s)
    OBVIOUS
  <2> QED
    BY <2>1, <2>2, <2>3, <2>4
<1> QED
  BY <1>2, <1>6, <1>9 DEF InPool

-----------------------------------------------------------------------------
(* Growing                                                                  *)

GrowTasks == {k \in Task : k.growing}
OddTasks  == {k \in GrowTasks : k.kind # "add"}
GrowJobs  == {w \in Workers : job[w].growing}
GrowCount == NQueued(tasks, GrowTasks) + sched["grow"] + Cardinality(GrowJobs)

\* The invariant: OneGrower, and only the tasks that add a connection grow.
GrowInv == IsOpen => /\ NQueued(tasks, OddTasks) = 0
                     /\ GrowCount = IF growing THEN 1 ELSE 0

\* The parts of the count of growing tasks are numbers.
LEMMA GrowTypes ==
  ASSUME TypeOK
  PROVE  /\ NQueued(tasks, GrowTasks) \in Nat /\ NQueued(tasks, OddTasks) \in Nat
         /\ sched["grow"] \in Nat /\ Cardinality(GrowJobs) \in Nat /\ IsFiniteSet(GrowJobs)
         /\ growing \in BOOLEAN
<1>1. IsFiniteSet(GrowJobs)
  BY FS_Subset, ThreadsAssumption DEF GrowJobs
<1> QED
  BY <1>1, QueuedFinite, FS_CardinalityType DEF TypeOK, DelayedKinds

\* No task but AddConnection(growing=True) grows the pool.
LEMMA TasksThatGrow ==
  /\ \A g \in BOOLEAN : AddConnection(g) \in Task /\ AddConnection(g).growing = g
                        /\ AddConnection(g) \notin OddTasks
  /\ \A x \in Conns : ReturnConnection(x) \in Task /\ ~ReturnConnection(x).growing
  /\ \A k \in DelayedKinds : Delayed(k) \in Task /\ Delayed(k).growing = (k = "grow")
                             /\ Delayed(k) \notin OddTasks
<1>1. \A g \in BOOLEAN : /\ AddConnection(g) \in Task /\ AddConnection(g).growing = g
                         /\ AddConnection(g).kind = "add"
  BY NewTask DEF AddConnection, Simple
<1>2. \A x \in Conns : ReturnConnection(x) \in Task /\ ~ReturnConnection(x).growing
  BY NewTask DEF ReturnConnection, Simple
<1>3. \A k \in DelayedKinds : Delayed(k) \in Task
  BY NewTask
<1>4. /\ Delayed("grow").growing = TRUE /\ Delayed("grow").kind = "add"
      /\ Delayed("add").growing = FALSE /\ Delayed("shrink").growing = FALSE
  BY DEF Delayed, RetryConnection, AddConnection, Simple
<1>5. \A k \in DelayedKinds : Delayed(k).growing = (k = "grow") /\ Delayed(k) \notin OddTasks
  <2>1. \A k : k \in OddTasks => k.growing /\ k.kind # "add"
    BY DEF OddTasks, GrowTasks
  <2> QED
    BY <1>4, <2>1 DEF DelayedKinds
<1>6. \A g \in BOOLEAN : AddConnection(g) \notin OddTasks
  BY <1>1 DEF OddTasks
<1> QED
  BY <1>1, <1>2, <1>3, <1>5, <1>6

\* No task that grows is queued, or one is.
PlainTasks   == UNCHANGED tasks \/ \E k \in Task : ~k.growing /\ run_task(k)
GrowingTasks == \E k \in GrowTasks \ OddTasks : run_task(k)
\* What queueing a task does to the count of growing tasks.
LEMMA GrowTasksChange ==
  ASSUME TypeOK
  PROVE  /\ PlainTasks => /\ NQueued(tasks, GrowTasks)' = NQueued(tasks, GrowTasks)
                          /\ NQueued(tasks, OddTasks)' = NQueued(tasks, OddTasks)
         /\ GrowingTasks => /\ NQueued(tasks, GrowTasks)' = NQueued(tasks, GrowTasks) + 1
                            /\ NQueued(tasks, OddTasks)' = NQueued(tasks, OddTasks)
<1>1. /\ UNCHANGED tasks => /\ NQueued(tasks, GrowTasks)' = NQueued(tasks, GrowTasks)
                            /\ NQueued(tasks, OddTasks)' = NQueued(tasks, OddTasks)
  BY DEF NQueued
<1>2. ASSUME NEW k \in Task, run_task(k)
      PROVE  /\ k \in GrowTasks => NQueued(tasks, GrowTasks)' = NQueued(tasks, GrowTasks) + 1
             /\ k \notin GrowTasks => NQueued(tasks, GrowTasks)' = NQueued(tasks, GrowTasks)
             /\ k \notin OddTasks => NQueued(tasks, OddTasks)' = NQueued(tasks, OddTasks)
  BY <1>2, QueuedChange
<1>3. \A k \in Task : /\ k \in GrowTasks <=> k.growing
                      /\ k \notin GrowTasks => k \notin OddTasks
  BY DEF GrowTasks, OddTasks
<1>4. GrowTasks \subseteq Task
  BY DEF GrowTasks
<1> QED
  BY <1>1, <1>2, <1>3, <1>4 DEF PlainTasks, GrowingTasks

\* A step that leaves growth alone, and one that starts it.
LEMMA GrowKept ==
  ASSUME TypeOK, GrowInv, IsOpen, PlainTasks, UNCHANGED growing, sched'["grow"] = sched["grow"],
         \A w \in Workers : job'[w].growing = job[w].growing
  PROVE  GrowInv'
<1>1. GrowJobs' = GrowJobs
  BY DEF GrowJobs
<1>2. GrowCount' = GrowCount /\ NQueued(tasks, OddTasks)' = NQueued(tasks, OddTasks)
  BY <1>1, GrowTasksChange DEF GrowCount
<1> QED
  BY <1>2 DEF GrowInv

\* _maybe_grow_pool finds no growing task and queues the first.
LEMMA GrowStarts ==
  ASSUME TypeOK, GrowInv, IsOpen, ~growing, growing' = TRUE, run_task(AddConnection(TRUE)),
         UNCHANGED <<sched, job>>
  PROVE  GrowInv'
<1>1. GrowJobs' = GrowJobs
  BY DEF GrowJobs
<1>2. GrowingTasks
  BY TasksThatGrow DEF GrowingTasks, GrowTasks
<1>3. /\ NQueued(tasks, GrowTasks)' = NQueued(tasks, GrowTasks) + 1
      /\ NQueued(tasks, OddTasks)' = NQueued(tasks, OddTasks)
  BY <1>2, GrowTasksChange
<1>4. /\ NQueued(tasks, GrowTasks) \in Nat /\ sched["grow"] \in Nat
      /\ Cardinality(GrowJobs) \in Nat
  BY GrowTypes
<1>5. GrowCount = 0 /\ NQueued(tasks, OddTasks) = 0
  BY DEF GrowInv
<1>6. /\ NQueued(tasks, GrowTasks) = 0 /\ sched["grow"] = 0 /\ Cardinality(GrowJobs) = 0
  BY <1>4, <1>5 DEF GrowCount
<1>7. GrowCount' = 1
  BY <1>1, <1>3, <1>6 DEF GrowCount
<1> QED
  BY <1>3, <1>5, <1>7 DEF GrowInv

\* The job of one worker changes.
LEMMA GrowJobsChange ==
  ASSUME TypeOK, NEW w \in Workers, \A v \in Workers : v # w => job'[v] = job[v]
  PROVE  /\ job'[w].growing /\ ~job[w].growing =>
              Cardinality(GrowJobs)' = Cardinality(GrowJobs) + 1
         /\ ~job'[w].growing /\ job[w].growing =>
              Cardinality(GrowJobs)' = Cardinality(GrowJobs) - 1
         /\ (job'[w].growing <=> job[w].growing) =>
              Cardinality(GrowJobs)' = Cardinality(GrowJobs)
<1> DEFINE S == GrowJobs
           U == GrowJobs'
<1>1. /\ \A v : v # w => (v \in U <=> v \in S)
      /\ w \in S <=> job[w].growing
      /\ w \in U <=> job'[w].growing
  BY DEF GrowJobs
<1>2. IsFiniteSet(S)
  BY GrowTypes
<1> HIDE DEF S, U
<1>3. /\ w \in U /\ w \notin S => Cardinality(U) = Cardinality(S) + 1
      /\ w \notin U /\ w \in S => Cardinality(U) = Cardinality(S) - 1
      /\ (w \in U <=> w \in S) => Cardinality(U) = Cardinality(S)
  BY <1>1, <1>2, OneChange
<1> QED
  BY <1>1, <1>3 DEF S, U

\* A returned connection starts no growth.
LEMMA GrowReturn ==
  ASSUME TypeInv, NEW t \in Threads, Return(t)
  PROVE  PlainTasks /\ UNCHANGED <<growing, sched, job>>
<1>1. UNCHANGED <<growing, sched, job>>
  BY DEF Return, _return_connection, _add_to_pool_early, _add_to_pool, growVars, taskVars
<1>2. UNCHANGED tasks \/ run_task(AddConnection(FALSE))
  BY DEF Return, _return_connection, _add_to_pool_early, _add_to_pool, Replace, taskVars
<1> QED
  BY <1>1, <1>2, TasksThatGrow DEF PlainTasks

\* The steps of the clients.
LEMMA GrowClient ==
  ASSUME TypeInv, GrowInv, IsOpen, NEW c \in Clients, ClientStep(c)
  PROVE  GrowInv'
<1>t. TypeOK /\ c \in Threads
  BY DEF TypeInv, Threads
<1>1. CASE getconn_enqueue(c)
  <2>1. _maybe_grow_pool /\ UNCHANGED <<sched, job>>
    BY <1>1 DEF getconn_enqueue
  <2> QED
    BY <1>t, <2>1, GrowStarts, GrowKept DEF _maybe_grow_pool, CanGrow, PlainTasks
<1>2. CASE ~getconn_enqueue(c)
  <2>1. CASE Return(c)
    BY <1>t, <2>1, GrowReturn, GrowKept
  <2>2. CASE ~Return(c)
    <3>1. UNCHANGED <<growing, sched, job>>
      BY <1>2, <2>2 DEF ClientStep, Request, getconn, getconn_timeout, wait_broken,
             getconn_refused, check_passes, check_fails, check_interrupted, backoff, putconn,
             _get_ready_connection, wait_returns, _putconn, growVars, taskVars
    <3>2. UNCHANGED tasks \/ (run_task(ReturnConnection(cur[c])) /\ cur[c] \in Conns)
      BY <1>2, <1>t, <2>2 DEF ClientStep, Request, getconn, getconn_timeout, wait_broken,
             getconn_refused, check_passes, check_fails, check_interrupted, backoff, putconn,
             _get_ready_connection, wait_returns, _putconn, taskVars, At, TypeInv,
             ThreadsHeld, Holding
    <3> QED
      BY <1>t, <3>1, <3>2, TasksThatGrow, GrowKept DEF PlainTasks
  <2> QED
    BY <2>1, <2>2
<1> QED
  BY <1>1, <1>2

\* The steps of the workers.
LEMMA GrowWorker ==
  ASSUME TypeInv, GrowInv, JobsHeld, IsOpen, NEW w \in Workers, WorkerStep(w)
  PROVE  GrowInv'
<1>t. /\ TypeOK /\ w \in Threads /\ job \in [Workers -> [growing: BOOLEAN, retry: BOOLEAN]]
      /\ tasks \in Seq(Task)
  BY DEF TypeInv, TypeOK, Threads
<1>n. /\ NQueued(tasks, GrowTasks) \in Nat /\ NQueued(tasks, OddTasks) \in Nat
      /\ sched["grow"] \in Nat /\ Cardinality(GrowJobs) \in Nat /\ growing \in BOOLEAN
  BY <1>t, GrowTypes
<1>i. NQueued(tasks, OddTasks) = 0 /\ GrowCount = IF growing THEN 1 ELSE 0
  BY DEF GrowInv
<1>c. GrowCount' = NQueued(tasks, GrowTasks)' + sched'["grow"] + Cardinality(GrowJobs)'
  BY DEF GrowCount
<1>s. sched \in [DelayedKinds -> Nat]
  BY DEF TypeInv, TypeOK
<1>1. CASE Return(w)
  BY <1>1, <1>t, GrowReturn, GrowKept
<1>2. CASE worker(w)
  <2>1. /\ tasks # <<>> /\ tasks' = Tail(tasks) /\ UNCHANGED growing /\ pc[w] = "idle"
    BY <1>2 DEF worker, growVars, At
  <2>2. Head(tasks) \in Task /\ sched'["grow"] = sched["grow"]
    BY <1>2, <1>s, <1>t, <2>1 DEF worker, schedule_task, DelayedKinds
  <2>3. ~job[w].growing
    BY <2>1 DEF JobsHeld, Growing
  <2>4. Head(tasks) \notin OddTasks
    <3>1. Tail(tasks) \in Seq(Task)
      BY <1>t, <2>1
    <3>2. NQueued(Tail(tasks), OddTasks) \in Nat
      BY <3>1, QueuedFinite
    <3>3. Head(tasks) \in OddTasks => NQueued(Tail(tasks), OddTasks) = NQueued(tasks, OddTasks) - 1
      BY <1>t, <2>1, QueuedTail
    <3> QED
      BY <1>i, <3>2, <3>3
  <2>5. NQueued(tasks, OddTasks)' = 0
    BY <1>i, <1>t, <2>1, <2>4, QueuedChange
  <2>6. CASE Head(tasks) \in GrowTasks
    <3>1. Head(tasks).kind = "add" /\ Head(tasks).growing
      BY <2>4, <2>6 DEF OddTasks, GrowTasks
    <3>2. job' = [job EXCEPT ![w] = Job(Head(tasks).growing, Head(tasks).retry)]
      BY <1>2, <3>1 DEF worker, IsOpen
    <3>3. job'[w].growing /\ \A v \in Workers : v # w => job'[v] = job[v]
      BY <1>t, <3>1, <3>2 DEF Job
    <3>4. Cardinality(GrowJobs)' = Cardinality(GrowJobs) + 1
      BY <1>t, <2>3, <3>3, GrowJobsChange
    <3>5. NQueued(tasks, GrowTasks)' = NQueued(tasks, GrowTasks) - 1
      BY <1>t, <2>1, <2>6, QueuedChange
    <3>6. GrowCount' = GrowCount
      BY <1>c, <1>n, <2>2, <3>4, <3>5 DEF GrowCount
    <3> QED
      BY <1>i, <2>1, <2>5, <3>6 DEF GrowInv
  <2>7. CASE Head(tasks) \notin GrowTasks
    <3>1. ~Head(tasks).growing
      BY <2>2, <2>7 DEF GrowTasks
    <3>2. UNCHANGED job \/ job' = [job EXCEPT ![w] = Job(Head(tasks).growing, Head(tasks).retry)]
      BY <1>2 DEF worker, IsOpen
    <3>3. ~job'[w].growing /\ \A v \in Workers : v # w => job'[v] = job[v]
      BY <1>t, <2>3, <3>1, <3>2 DEF Job
    <3>4. Cardinality(GrowJobs)' = Cardinality(GrowJobs)
      BY <1>t, <2>3, <3>3, GrowJobsChange
    <3>5. NQueued(tasks, GrowTasks)' = NQueued(tasks, GrowTasks)
      BY <1>t, <2>1, <2>7, QueuedChange
    <3>6. GrowCount' = GrowCount
      BY <1>c, <2>2, <3>4, <3>5 DEF GrowCount
    <3> QED
      BY <1>i, <2>1, <2>5, <3>6 DEF GrowInv
  <2> QED
    BY <2>6, <2>7
<1>3. CASE _connect(w)
  <2>1. UNCHANGED <<growing, sched, tasks>> /\ job' = [job EXCEPT ![w].retry = FALSE]
    BY <1>3 DEF _connect, growVars, taskVars
  <2>2. \A v \in Workers : job'[v].growing = job[v].growing
    BY <1>t, <2>1
  <2> QED
    BY <1>t, <2>1, <2>2, GrowKept DEF PlainTasks
<1>4. CASE _connect_fails(w)
  <2>1. UNCHANGED tasks /\ job' = [job EXCEPT ![w] = NoJob]
    BY <1>4 DEF _connect_fails
  <2>2. ~job'[w].growing /\ \A v \in Workers : v # w => job'[v] = job[v]
    BY <1>t, <2>1 DEF NoJob, Job
  <2>3. /\ NQueued(tasks, GrowTasks)' = NQueued(tasks, GrowTasks)
        /\ NQueued(tasks, OddTasks)' = 0
    BY <1>i, <1>t, <2>1, GrowTasksChange DEF PlainTasks
  <2>4. CASE ~job[w].growing
    <3>1. UNCHANGED growing /\ sched'["grow"] = sched["grow"]
      BY <1>4, <1>n, <1>s, <2>4 DEF _connect_fails, schedule_task, growVars, DelayedKinds
    <3>2. Cardinality(GrowJobs)' = Cardinality(GrowJobs)
      BY <1>t, <2>2, <2>4, GrowJobsChange
    <3>3. GrowCount' = GrowCount
      BY <1>c, <2>3, <3>1, <3>2 DEF GrowCount
    <3> QED
      BY <1>i, <2>3, <3>1, <3>3 DEF GrowInv
  <2>5. CASE job[w].growing
    <3>1. Cardinality(GrowJobs)' = Cardinality(GrowJobs) - 1
      BY <1>t, <2>2, <2>5, GrowJobsChange
    <3>2. Cardinality(GrowJobs)' \in Nat
      <4>1. IsFiniteSet(GrowJobs)'
        BY FS_Subset, ThreadsAssumption DEF GrowJobs
      <4> QED
        BY <4>1, FS_CardinalityType
    <3>3. CASE UNCHANGED growing /\ sched' = [sched EXCEPT !["grow"] = @ + 1]
      <4>1. sched'["grow"] = sched["grow"] + 1
        BY <1>s, <3>3 DEF DelayedKinds
      <4>2. GrowCount' = GrowCount
        BY <1>c, <1>n, <2>3, <3>1, <4>1 DEF GrowCount
      <4> QED
        BY <1>i, <2>3, <3>3, <4>2 DEF GrowInv
    <3>4. CASE growing' = FALSE /\ UNCHANGED sched
      <4>1. GrowCount' = GrowCount - 1 /\ GrowCount' >= 0
        BY <1>c, <1>n, <2>3, <3>1, <3>2, <3>4 DEF GrowCount
      <4>2. GrowCount \in {0, 1}
        BY <1>i, <1>n
      <4>3. GrowCount' = 0
        BY <4>1, <4>2
      <4> QED
        BY <2>3, <3>4, <4>3 DEF GrowInv
    <3> QED
      BY <1>4, <2>5, <3>3, <3>4 DEF _connect_fails, schedule_task, growVars
  <2> QED
    BY <2>4, <2>5
<1>5. CASE _add_connection_grow(w)
  <2>1. job' = [job EXCEPT ![w] = NoJob] /\ UNCHANGED sched /\ pc[w] = "grow"
    BY <1>5 DEF _add_connection_grow, At
  <2>2. /\ ~job'[w].growing /\ \A v \in Workers : v # w => job'[v] = job[v]
        /\ job[w].growing
    BY <1>t, <2>1 DEF NoJob, Job, JobsHeld
  <2>3. Cardinality(GrowJobs)' = Cardinality(GrowJobs) - 1
    BY <1>t, <2>2, GrowJobsChange
  <2>4. CASE UNCHANGED growing /\ run_task(AddConnection(TRUE))
    <3>1. GrowingTasks
      BY <2>4, TasksThatGrow DEF GrowingTasks, GrowTasks
    <3>2. /\ NQueued(tasks, GrowTasks)' = NQueued(tasks, GrowTasks) + 1
          /\ NQueued(tasks, OddTasks)' = 0
      BY <1>i, <1>t, <3>1, GrowTasksChange
    <3>3. GrowCount' = GrowCount
      BY <1>c, <1>n, <2>1, <2>3, <3>2 DEF GrowCount
    <3> QED
      BY <1>i, <2>4, <3>2, <3>3 DEF GrowInv
  <2>5. CASE growing' = FALSE /\ UNCHANGED tasks
    <3>1. /\ NQueued(tasks, GrowTasks)' = NQueued(tasks, GrowTasks)
          /\ NQueued(tasks, OddTasks)' = 0
      BY <1>i, <1>t, <2>5, GrowTasksChange DEF PlainTasks
    <3>2. Cardinality(GrowJobs)' \in Nat
      <4>1. IsFiniteSet(GrowJobs)'
        BY FS_Subset, ThreadsAssumption DEF GrowJobs
      <4> QED
        BY <4>1, FS_CardinalityType
    <3>3. GrowCount' = GrowCount - 1 /\ GrowCount' >= 0
      BY <1>c, <1>n, <2>1, <2>3, <3>1, <3>2 DEF GrowCount
    <3>4. GrowCount \in {0, 1}
      BY <1>i, <1>n
    <3>5. GrowCount' = 0
      BY <3>3, <3>4
    <3> QED
      BY <2>5, <3>1, <3>5 DEF GrowInv
  <2> QED
    BY <1>5, <2>4, <2>5 DEF _add_connection_grow
<1>6. CASE _shrink_pool(w) \/ _shrink_close(w)
  <2>1. UNCHANGED <<growing, sched, tasks, job>>
    BY <1>6 DEF _shrink_pool, _shrink_close, growVars, taskVars
  <2> QED
    BY <1>t, <2>1, GrowKept DEF PlainTasks
<1> QED
  BY <1>1, <1>2, <1>3, <1>4, <1>5, <1>6 DEF WorkerStep, Work

\* The steps of the admin threads.
LEMMA GrowAdmin ==
  ASSUME TypeInv, GrowInv, IsOpen, IsOpen', NEW a \in Admins, AdminStep(a)
  PROVE  GrowInv'
<1>t. TypeOK /\ a \in Threads
  BY DEF TypeInv, Threads
<1>1. CASE Return(a)
  BY <1>1, <1>t, GrowReturn, GrowKept
<1>2. CASE check(a)
  <2>1. _maybe_grow_pool /\ UNCHANGED <<sched, job>>
    BY <1>2 DEF check
  <2> QED
    BY <1>t, <2>1, GrowStarts, GrowKept DEF _maybe_grow_pool, CanGrow, PlainTasks
<1>3. CASE close_lock(a)
  BY <1>3 DEF close_lock, IsOpen
<1>4. CASE \/ close(a) \/ close_conns(a) \/ close_fail(a) \/ check_next(a) \/ resize(a)
           \/ resize_lock(a) \/ resize_run(a) \/ wait(a) \/ wait_lock(a) \/ wait_ends(a)
  <2>1. UNCHANGED <<growing, sched, job>>
    BY <1>4 DEF close, close_conns, close_fail, check_next, resize, resize_lock, resize_run,
                wait, wait_lock, wait_ends, growVars, taskVars
  <2>2. UNCHANGED tasks \/ run_task(AddConnection(FALSE))
    BY <1>4 DEF close, close_conns, close_fail, check_next, Discard, resize, resize_lock,
                resize_run, wait, wait_lock, wait_ends, taskVars
  <2> QED
    BY <1>t, <2>1, <2>2, TasksThatGrow, GrowKept DEF PlainTasks
<1> QED
  BY <1>1, <1>2, <1>3, <1>4 DEF AdminStep, Administer

\* open() starts without growing.
LEMMA GrowOpen ==
  ASSUME TypeInv, JobsHeld, NotOpened, open
  PROVE  GrowInv'
<1>t. MinSize \in Nat
  BY ConstantsAssumption DEF SizesOK
<1>1. /\ growing = FALSE /\ sched["grow"] = 0 /\ \A w \in Workers : pc[w] = "off"
      /\ UNCHANGED <<growing, sched, job>>
      /\ tasks' = [i \in 1..MinSize |-> AddConnection(FALSE)] \o <<Simple("schedule")>>
  BY DEF open, NotOpened, growVars, DelayedKinds, TypeInv, TypeOK
<1>2. Cardinality({}) = 0
  BY FS_EmptySet
<1>3. GrowJobs' = {}
  BY <1>1 DEF GrowJobs, JobsHeld, Growing
<1>4. NQueued(tasks, GrowTasks)' = 0 /\ NQueued(tasks, OddTasks)' = 0
  <2> DEFINE u == [i \in 1..MinSize |-> AddConnection(FALSE)]
             v == u \o <<Simple("schedule")>>
  <2>1. u \in Seq(Task) /\ Len(u) = MinSize
    <3>1. PICK k \in Task : k = AddConnection(FALSE)
      BY NewTask
    <3>2. /\ [i \in 1..MinSize |-> k] \in Seq(Task)
          /\ Len([i \in 1..MinSize |-> k]) = MinSize
      BY <1>t
    <3> QED
      BY <3>1, <3>2
  <2> DEFINE k == Simple("schedule")
  <2>2. k \in Task /\ k \notin GrowTasks
    BY NewTask DEF GrowTasks, Simple
  <2>3. \A i \in 1..MinSize : u[i] \notin GrowTasks
    BY TasksThatGrow DEF GrowTasks
  <2>4. tasks' = v
    BY <1>1
  <2> HIDE DEF u, k
  <2>5. v = Append(u, k)
    BY <2>1, <2>2 DEF k
  <2>6. k \notin OddTasks /\ \A i \in 1..MinSize : u[i] \notin OddTasks
    BY <2>2, <2>3 DEF OddTasks
  <2>7. /\ NQueued(v, GrowTasks) = NQueued(u, GrowTasks)
        /\ NQueued(v, OddTasks) = NQueued(u, OddTasks)
    <3>1. NQueued(Append(u, k), GrowTasks) = NQueued(u, GrowTasks)
      BY <2>1, <2>2, QueuedAppend
    <3>2. NQueued(Append(u, k), OddTasks) = NQueued(u, OddTasks)
      BY <2>1, <2>2, <2>6, QueuedAppend
    <3> HIDE DEF v
    <3> QED
      BY <2>5, <3>1, <3>2
  <2>8. /\ {i \in DOMAIN u : u[i] \in GrowTasks} = {}
        /\ {i \in DOMAIN u : u[i] \in OddTasks} = {}
    BY <1>t, <2>1, <2>3, <2>6
  <2>9. NQueued(u, GrowTasks) = 0 /\ NQueued(u, OddTasks) = 0
    BY <1>2, <2>8 DEF NQueued
  <2>10. /\ NQueued(tasks, GrowTasks)' = NQueued(v, GrowTasks)
         /\ NQueued(tasks, OddTasks)' = NQueued(v, OddTasks)
    BY <2>4 DEF NQueued
  <2> QED
    BY <2>7, <2>9, <2>10
<1>5. GrowCount' = 0
  BY <1>1, <1>2, <1>3, <1>4 DEF GrowCount
<1> QED
  BY <1>1, <1>4, <1>5 DEF GrowInv

\* The scheduler moves a delayed growth to the queue.
LEMMA GrowTick ==
  ASSUME TypeInv, GrowInv, IsOpen, NEW k \in DelayedKinds, tick(k)
  PROVE  GrowInv'
<1>t. TypeOK /\ sched \in [DelayedKinds -> Nat]
  BY DEF TypeInv, TypeOK
<1>1. /\ UNCHANGED <<growing, job>> /\ run_task(Delayed(k))
      /\ sched' = [sched EXCEPT ![k] = @ - 1]
  BY DEF tick, IsOpen, growVars
<1>2. CASE k # "grow"
  <2>1. PlainTasks /\ sched'["grow"] = sched["grow"]
    BY <1>1, <1>2, <1>t, TasksThatGrow DEF PlainTasks, DelayedKinds
  <2> QED
    BY <1>1, <1>t, <2>1, GrowKept
<1>3. CASE k = "grow"
  <2>1. GrowingTasks
    BY <1>1, <1>3, TasksThatGrow DEF GrowingTasks, GrowTasks
  <2>2. /\ NQueued(tasks, GrowTasks)' = NQueued(tasks, GrowTasks) + 1
        /\ NQueued(tasks, OddTasks)' = NQueued(tasks, OddTasks)
    BY <1>t, <2>1, GrowTasksChange
  <2>3. sched'["grow"] = sched["grow"] - 1
    BY <1>1, <1>3, <1>t DEF DelayedKinds
  <2>4. GrowJobs' = GrowJobs
    BY <1>1 DEF GrowJobs
  <2>5. /\ NQueued(tasks, GrowTasks) \in Nat /\ sched["grow"] \in Nat
        /\ Cardinality(GrowJobs) \in Nat
    BY <1>t, GrowTypes
  <2>6. GrowCount' = GrowCount
    BY <2>2, <2>3, <2>4, <2>5 DEF GrowCount
  <2> QED
    BY <1>1, <2>2, <2>6 DEF GrowInv
<1> QED
  BY <1>2, <1>3

\* Every step keeps one growing task at most.
LEMMA GrowStep ==
  ASSUME TypeInv, ControlInv, GrowInv, [Next]_vars
  PROVE  GrowInv'
<1>t. JobsHeld /\ NotOpened
  BY DEF ControlInv
<1>1. CASE ~IsOpen'
  BY <1>1 DEF GrowInv
<1>2. CASE open
  BY <1>2, <1>t, GrowOpen
<1>3. CASE IsOpen' /\ ~open
  <2>1. IsOpen
    BY <1>3, OpenBefore
  <2>2. ASSUME NEW c \in Clients, ClientStep(c)
        PROVE  GrowInv'
    BY <2>1, <2>2, GrowClient
  <2>3. ASSUME NEW w \in Workers, WorkerStep(w)
        PROVE  GrowInv'
    BY <1>t, <2>1, <2>3, GrowWorker
  <2>4. ASSUME NEW a \in Admins, AdminStep(a)
        PROVE  GrowInv'
    BY <1>3, <2>1, <2>4, GrowAdmin
  <2>5. ASSUME NEW k \in DelayedKinds, tick(k)
        PROVE  GrowInv'
    BY <2>1, <2>5, GrowTick
  <2>6. CASE UNCHANGED vars
    BY <2>6 DEF vars, GrowInv, IsOpen, GrowCount, GrowJobs, NQueued
  <2> QED
    BY <1>3, <2>2, <2>3, <2>4, <2>5, <2>6 DEF Next
<1> QED
  BY <1>1, <1>2, <1>3

\* Which is what OneGrower says.
LEMMA GrowIsOneGrower ==
  ASSUME TypeOK, GrowInv
  PROVE  OneGrower
<1>1. {i \in DOMAIN tasks : tasks[i].growing} = {i \in DOMAIN tasks : tasks[i] \in GrowTasks}
  <2>1. \A i \in DOMAIN tasks : tasks[i] \in Task
    BY DEF TypeOK
  <2> QED
    BY <2>1 DEF GrowTasks
<1>2. Growers = GrowCount
  BY <1>1 DEF Growers, GrowCount, NQueued, GrowJobs
<1> QED
  BY <1>2 DEF GrowInv, OneGrower

-----------------------------------------------------------------------------
(* Sizes                                                                    *)

\* The pool keeps below its maximum, which nobody changes.
SizeInv == Resizers = {} => nconns <= max_size /\ min_size <= max_size

\* Every step keeps the maximum.
LEMMA SizeStep == TypeInv /\ SizeInv /\ [Next]_vars => SizeInv'
<1> SUFFICES ASSUME TypeInv, SizeInv, [Next]_vars, Resizers = {}
             PROVE  nconns' <= max_size' /\ min_size' <= max_size'
  BY DEF SizeInv
<1>t. nconns \in Int /\ min_size \in Nat /\ max_size \in Nat
  BY DEF TypeInv, TypeOK
<1>i. nconns <= max_size /\ min_size <= max_size
  BY DEF SizeInv
<1>r. \A a \in Admins : ~resize_lock(a)
  BY DEF resize_lock, At, TypeInv, ResizersOnly
<1>1. ASSUME NEW c \in Clients, ClientStep(c)
      PROVE  UNCHANGED sizeVars /\ (UNCHANGED nconns \/ (nconns < max_size /\ nconns' = nconns + 1))
  BY <1>1 DEF ClientStep, Request, getconn, getconn_timeout, wait_broken, getconn_refused,
         getconn_enqueue, check_passes, check_fails, check_interrupted, backoff, putconn,
         _get_ready_connection, wait_returns, _putconn, Return, _return_connection,
         _add_to_pool_early, _add_to_pool, growVars, _maybe_grow_pool, CanGrow
<1>2. ASSUME NEW w \in Workers, WorkerStep(w)
      PROVE  UNCHANGED sizeVars /\ (nconns' \in {nconns, nconns - 1} \/ (nconns < max_size /\ nconns' = nconns + 1))
  <2>1. CASE _add_connection_grow(w)
    <3>1. UNCHANGED sizeVars /\ (UNCHANGED nconns \/ (KeepGrowing /\ nconns' = nconns + 1))
      BY <2>1 DEF _add_connection_grow
    <3>2. KeepGrowing => nconns < max_size
      BY <1>i, <1>t DEF KeepGrowing
    <3> QED
      BY <3>1, <3>2
  <2>2. CASE ~_add_connection_grow(w)
    BY <1>2, <2>2 DEF WorkerStep, Work, worker, _connect, _connect_fails,
         _shrink_pool, _shrink_close, Return, _return_connection, _add_to_pool_early,
         _add_to_pool, growVars
  <2> QED
    BY <2>1, <2>2
<1>3. ASSUME NEW a \in Admins, AdminStep(a)
      PROVE  UNCHANGED sizeVars /\ (UNCHANGED nconns \/ (nconns < max_size /\ nconns' = nconns + 1))
  BY <1>3, <1>r DEF AdminStep, Administer, close, close_lock, close_conns, close_fail, check,
         check_next, resize, resize_run, wait, wait_lock, wait_ends,
         Return, _return_connection, _add_to_pool_early, _add_to_pool, growVars,
         _maybe_grow_pool, CanGrow
<1>4. (open \/ \E k \in DelayedKinds : tick(k)) \/ UNCHANGED vars => UNCHANGED <<sizeVars, nconns>>
  BY DEF open, tick, vars, sizeVars, growVars
<1> QED
  BY <1>i, <1>t, <1>1, <1>2, <1>3, <1>4 DEF Next, sizeVars

\* Every resize() asks for the same minimum, which is no less than the first one.
EqualResizes == \A r, s \in Resizers :
                  ResizeTo[r][1] = ResizeTo[s][1] /\ ResizeTo[r][1] >= MinSize

\* Then the minimum never goes down.
MinInv  == min_size = MinSize \/ \E r \in Resizers : min_size = ResizeTo[r][1]
FullInv == FullIsNotified /\ MinInv

\* Every step keeps the event right.
LEMMA FullStep == EqualResizes /\ TypeInv /\ FullInv /\ [Next]_vars => FullInv'
<1> SUFFICES ASSUME EqualResizes, TypeInv, FullInv, [Next]_vars
             PROVE  FullInv'
  OBVIOUS
<1>t. /\ min_size \in Nat /\ pool \in Seq(Conns) /\ MinSize \in Nat /\ Len(pool) \in Nat
      /\ \A r \in Resizers : ResizeTo[r][1] \in Nat
  BY ConstantsAssumption DEF TypeInv, TypeOK, SizesOK
<1>i. MinInv /\ FullIsNotified
  BY DEF FullInv
<1>m. ASSUME UNCHANGED min_size
      PROVE  MinInv'
  BY <1>m, <1>i DEF MinInv
<1>l. pool # <<>> => Len(Tail(pool)) <= Len(pool)
  <2>1. pool # <<>> => Len(Tail(pool)) = Len(pool) - 1
    BY <1>t
  <2> QED
    BY <1>t, <2>1
<1>k. ASSUME UNCHANGED min_size, full_event' = "unset" => full_event = "unset",
             UNCHANGED pool \/ (pool # <<>> /\ pool' = Tail(pool)) \/ pool' = <<>>
      PROVE  FullInv'
  <2>1. Len(pool') <= Len(pool)
    BY <1>k, <1>l, <1>t
  <2>2. FullIsNotified'
    <3>1. CASE UNCHANGED pool
      BY <1>i, <1>k, <3>1 DEF FullIsNotified
    <3>2. CASE pool # <<>> /\ pool' = Tail(pool)
      <4>1. Len(pool)' = Len(pool) - 1
        BY <1>t, <3>2
      <4> QED
        BY <1>i, <1>k, <1>t, <4>1 DEF FullIsNotified
    <3>3. CASE pool' = <<>>
      <4>1. Len(pool)' = 0
        BY <3>3
      <4> QED
        BY <1>i, <1>k, <1>t, <4>1 DEF FullIsNotified
    <3> QED
      BY <1>k, <3>1, <3>2, <3>3
  <2> QED
    BY <1>k, <1>m, <2>2 DEF FullInv
<1>1. ASSUME NEW t \in Threads, Return(t)
      PROVE  FullInv'
  <2>1. UNCHANGED min_size
    BY <1>1 DEF Return, _return_connection, _add_to_pool_early, _add_to_pool, sizeVars
  <2>2. CASE UNCHANGED <<pool, full_event>>
    BY <1>k, <2>1, <2>2
  <2>3. CASE ~UNCHANGED <<pool, full_event>>
    <3>1. PICK x \in Conns : pool' = Append(pool, x) /\ Notify
      <4>1. cur[t] \in Conns /\ Serve(cur[t])
        BY <1>1, <2>3 DEF Return, _return_connection, _add_to_pool_early, _add_to_pool, At,
                          TypeInv, ThreadsHeld, Holding
      <4> QED
        BY <2>3, <4>1 DEF Serve
    <3>2. Len(pool') = Len(pool) + 1
      BY <1>t, <3>1
    <3>3. full_event' = "unset" => Len(pool) + 1 < min_size
      BY <1>t, <3>1 DEF Notify
    <3>4. FullIsNotified'
      BY <2>1, <3>2, <3>3 DEF FullIsNotified
    <3> QED
      BY <1>m, <2>1, <3>4 DEF FullInv
  <2> QED
    BY <2>2, <2>3
<1>2. ASSUME NEW c \in Clients, ClientStep(c), ~Return(c)
      PROVE  FullInv'
  <2>1. /\ UNCHANGED <<min_size, full_event>>
        /\ UNCHANGED pool \/ (pool # <<>> /\ pool' = Tail(pool))
    BY <1>2 DEF ClientStep, Request, getconn, getconn_timeout, wait_broken, getconn_refused,
         getconn_enqueue, check_passes, check_fails, check_interrupted, backoff, putconn,
         _get_ready_connection, wait_returns, _putconn, sizeVars
  <2> QED
    BY <1>k, <2>1
<1>3. ASSUME NEW w \in Workers, WorkerStep(w), ~Return(w)
      PROVE  FullInv'
  <2>1. /\ UNCHANGED <<min_size, full_event>>
        /\ UNCHANGED pool \/ (pool # <<>> /\ pool' = Tail(pool))
    BY <1>3 DEF WorkerStep, Work, worker, _connect, _connect_fails, _add_connection_grow,
         _shrink_pool, CanShrink, _shrink_close, sizeVars
  <2> QED
    BY <1>k, <2>1
<1>4. ASSUME NEW a \in Admins, AdminStep(a), ~Return(a)
      PROVE  FullInv'
  <2>1. CASE resize_lock(a)
    <3>1. a \in Resizers /\ min_size' = ResizeTo[a][1] /\ UNCHANGED <<pool, full_event>>
      BY <2>1 DEF resize_lock, At, TypeInv, ResizersOnly
    <3>2. min_size' >= min_size /\ min_size' \in Nat
      BY <1>i, <1>t, <3>1 DEF EqualResizes, MinInv
    <3>3. FullIsNotified'
      BY <1>i, <1>t, <3>1, <3>2 DEF FullIsNotified
    <3>4. MinInv'
      BY <3>1 DEF MinInv
    <3> QED
      BY <3>3, <3>4 DEF FullInv
  <2>2. CASE wait_lock(a)
    <3>1. /\ UNCHANGED <<min_size, pool>>
          /\ UNCHANGED full_event \/ Len(pool) < min_size
      BY <2>2 DEF wait_lock, sizeVars
    <3>2. FullIsNotified'
      BY <1>i, <3>1 DEF FullIsNotified
    <3> QED
      BY <1>m, <3>1, <3>2 DEF FullInv
  <2>3. CASE ~resize_lock(a) /\ ~wait_lock(a)
    <3>1. /\ UNCHANGED min_size /\ (full_event' = "unset" => full_event = "unset")
          /\ UNCHANGED pool \/ pool' = <<>>
      BY <1>4, <2>3 DEF AdminStep, Administer, close, close_lock, close_conns, close_fail,
           check, TakeIdle, check_next, resize, resize_run, wait, wait_ends, sizeVars
    <3> QED
      BY <1>k, <3>1
  <2> QED
    BY <2>1, <2>2, <2>3
<1>5. CASE open \/ (\E k \in DelayedKinds : tick(k)) \/ UNCHANGED vars
  <2>1. UNCHANGED <<min_size, full_event, pool>>
    BY <1>5 DEF open, tick, vars, sizeVars
  <2> QED
    BY <1>k, <2>1
<1> QED
  BY <1>1, <1>2, <1>3, <1>4, <1>5 DEF Next, Threads

-----------------------------------------------------------------------------
(* The theorems                                                             *)

\* The whole invariant at work.
SoundInv == /\ TypeInv /\ HandOver /\ Sharing /\ IdleInv /\ ControlInv /\ ClosersClosed
            /\ CountInv /\ GrowInv /\ SizeInv

\* The pool starts so ...
LEMMA SoundInit == Init => SoundInv
<1> SUFFICES ASSUME Init
             PROVE  SoundInv
  OBVIOUS
<1>1. TypeInv /\ Sharing /\ IdleInv /\ ControlInv
  BY TypeInit, SharingInit, IdleInit, ControlInit
<1>2. ClosersClosed /\ CountInv /\ GrowInv
  BY DEF Init, ClosersClosed, CountInv, GrowInv, IsOpen
<1>3. SizeInv
  BY ConstantsAssumption DEF Init, SizeInv, SizesOK
<1>4. HandOver
  BY DEF Init, HandOver, EmptySlot
<1> QED
  BY <1>1, <1>2, <1>3, <1>4 DEF SoundInv

\* ... every step keeps it so ...
LEMMA SoundStep ==
  ASSUME "check" \notin Interrupts
  PROVE  SoundInv /\ [Next]_vars => SoundInv'
<1> SUFFICES ASSUME SoundInv, [Next]_vars
             PROVE  SoundInv'
  OBVIOUS
<1>1. TypeInv' /\ Sharing' /\ IdleInv' /\ ControlInv' /\ HandOver' /\ SizeInv'
  BY TypeStep, SharingStep, IdleStep, ControlStep, HandOverStep, SizeStep DEF SoundInv
<1>2. ClosersClosed' /\ GrowInv'
  BY ClosersStep, GrowStep DEF SoundInv, ControlInv
<1>3. CountInv'
  BY <1>1, CountStep DEF SoundInv
<1> QED
  BY <1>1, <1>2, <1>3 DEF SoundInv

\* ... and it says that the pool is sound.
LEMMA SoundIsSound == SoundInv => PoolSound
<1> SUFFICES ASSUME SoundInv
             PROVE  PoolSound
  OBVIOUS
<1>1. TypeOK
  BY DEF SoundInv, TypeInv
<1>2. Accounting /\ OneGrower
  BY <1>1, CountIsAccounting, GrowIsOneGrower DEF SoundInv
<1>3. PoolIsIdle
  BY <1>1, ReadyIsIdle DEF SoundInv
<1>4. SizeBounded
  BY DEF SoundInv, SizeInv, SizeBounded
<1> QED
  BY <1>2, <1>3, <1>4 DEF PoolSound

\* What the counters and flags of the pool say of its connections is so, in
\* any interleaving, as long as no KeyboardInterrupt breaks the check callback
\* of getconn(): _nconns counts each connection once, _growing is one task,
\* the maximum is kept and what is in the pool is ready to use.
THEOREM PoolSoundCorrect ==
  ASSUME "check" \notin Interrupts
  PROVE  Spec => []PoolSound
<1>1. SoundInv /\ [Next]_vars => SoundInv'
  BY SoundStep
<1> QED
  BY <1>1, SoundInit, SoundIsSound, PTL DEF Spec

\* The event of wait() is set as soon as the pool is full, if every resize()
\* asks for one and the same minimum, not less than that of the constructor.
THEOREM FullIsNotifiedCorrect ==
  ASSUME EqualResizes
  PROVE  Spec => []FullIsNotified
<1>1. TypeInv /\ FullInv /\ [Next]_vars => FullInv'
  BY FullStep
<1>2. Init => FullInv
  BY DEF Init, FullInv, FullIsNotified, MinInv
<1>3. FullInv => FullIsNotified
  BY DEF FullInv
<1> QED
  BY <1>1, <1>2, <1>3, TypeInit, TypeStep, PTL DEF Spec

-----------------------------------------------------------------------------
(* What the pool promises its clients                                       *)

\* Two clients never wait in the same position.
PosOnce == \A c, d \in Clients : pos[c] = pos[d] /\ pos[c] # NoPos => c = d

\* Every step keeps positions apart.
LEMMA PosStep == TypeInv /\ PosOnce /\ [Next]_vars => PosOnce'
<1> SUFFICES ASSUME TypeInv, PosOnce, [Next]_vars
             PROVE  PosOnce'
  OBVIOUS
<1>f. UNCHANGED pos => PosOnce'
  BY DEF PosOnce
<1>1. ASSUME NEW c \in Clients, getconn_enqueue(c)
      PROVE  PosOnce'
  <2>1. PICK p \in Positions : FreshPos(p) /\ pos' = [pos EXCEPT ![c] = p]
    BY <1>1 DEF getconn_enqueue
  <2>2. \A d \in Clients : pos[d] # p
    BY <2>1 DEF FreshPos, UsedPos
  <2> QED
    BY <2>1, <2>2 DEF PosOnce, TypeInv, TypeOK
<1>2. ASSUME NEW c \in Clients, wait_returns(c)
      PROVE  PosOnce'
  BY <1>2 DEF wait_returns, PosOnce, TypeInv, TypeOK
<1>3. ASSUME NEW c \in Clients, ClientStep(c), ~getconn_enqueue(c), ~wait_returns(c)
      PROVE  UNCHANGED pos
  BY <1>3 DEF ClientStep, Request, getconn, getconn_timeout, wait_broken, getconn_refused,
       check_passes, check_fails, check_interrupted, backoff, putconn, _get_ready_connection,
       _putconn, Return, _return_connection, _add_to_pool_early, _add_to_pool, clientVars
<1>4. ASSUME NEW w \in Workers, WorkerStep(w)
      PROVE  UNCHANGED pos
  BY <1>4 DEF WorkerStep, Work, worker, _connect, _connect_fails, _add_connection_grow,
       _shrink_pool, _shrink_close, Return, _return_connection, _add_to_pool_early,
       _add_to_pool, clientVars
<1>5. ASSUME NEW a \in Admins, AdminStep(a)
      PROVE  UNCHANGED pos
  BY <1>5 DEF AdminStep, Administer, close, close_lock, close_conns, close_fail, check,
       check_next, resize, resize_lock, resize_run, wait, wait_lock, wait_ends, Return,
       _return_connection, _add_to_pool_early, _add_to_pool, clientVars
<1>6. open \/ (\E k \in DelayedKinds : tick(k)) \/ UNCHANGED vars => UNCHANGED pos
  BY DEF open, tick, vars, clientVars
<1> QED
  BY <1>f, <1>1, <1>2, <1>3, <1>4, <1>5, <1>6 DEF Next

\* The invariant that the refinement rests on.
ServiceInv == /\ TypeInv /\ QueueInv /\ HandOver /\ Sharing /\ PosOnce

\* The queue of the service is the same if the deque is and the same clients wait.
LEMMA SameQueue ==
  ASSUME UNCHANGED waiting,
         \A c \in Clients : \A i \in DOMAIN waiting : WaitsIn(c, i)' <=> WaitsIn(c, i)
  PROVE  UNCHANGED <<AbstractQueue, AbstractAhead>>
<1>1. UNCHANGED AbstractQueue
  BY DEF AbstractQueue
<1>2. UNCHANGED AbstractAhead
  <2>1. \A c \in Clients :
          {d \in Clients : \E i, j \in DOMAIN waiting :
                        i < j /\ WaitsIn(d, i) /\ WaitsIn(c, j)}'
          = {d \in Clients : \E i, j \in DOMAIN waiting :
                        i < j /\ WaitsIn(d, i) /\ WaitsIn(c, j)}
    OBVIOUS
  <2> QED
    BY <2>1, Zenon DEF AbstractAhead
<1> QED
  BY <1>1, <1>2

\* Who holds what is the same if each client holds the same.
LEMMA SameHeld ==
  ASSUME \A c \in Clients : HeldBy(c)' = HeldBy(c)
  PROVE  UNCHANGED AbstractHeld
  BY DEF AbstractHeld

\* A client that still waits keeps its place, and the others wait on.
StillWaits == \A c \in Clients :
  /\ pc'[c] = "waiting" <=> pc[c] = "waiting"
  /\ pc[c] = "waiting" => pos'[c] = pos[c]

\* A step that leaves slots and deque alone leaves the queue alone.
LEMMA QueueStays ==
  ASSUME UNCHANGED <<waiting, slot>>, StillWaits
  PROVE  UNCHANGED <<AbstractQueue, AbstractAhead>>
<1>1. \A c \in Clients : \A i \in DOMAIN waiting : WaitsIn(c, i)' <=> WaitsIn(c, i)
  BY DEF WaitsIn, At, Accepts, StillWaits
<1> QED
  BY <1>1, SameQueue

\* Only thread t moves.
Only(t) == \A u \in Threads : u # t => pc'[u] = pc[u] /\ cur'[u] = cur[u]

\* A step of client c that leaves waiting and slots alone changes what c holds,
\* and nothing else of the service.
LEMMA ClientMoves ==
  ASSUME UNCHANGED <<waiting, slot, pos>>, NEW c \in Clients, Only(c),
         pc[c] # "waiting", pc'[c] # "waiting"
  PROVE  /\ UNCHANGED <<AbstractQueue, AbstractAhead>>
         /\ AbstractHeld' = [AbstractHeld EXCEPT ![c] = HeldBy(c)']
<1>1. Clients \subseteq Threads
  BY DEF Threads
<1>2. StillWaits
  BY <1>1 DEF Only, StillWaits
<1>3. \A d \in Clients : d # c => HeldBy(d)' = HeldBy(d)
  BY <1>1 DEF Only, HeldBy, At
<1>4. AbstractHeld' = [AbstractHeld EXCEPT ![c] = HeldBy(c)']
  BY <1>3 DEF AbstractHeld
<1> QED
  BY <1>2, <1>4, QueueStays

\* The steps of the service.
Serves == [Service!Next]_(Service!vars)

\* A client that holds the same afterwards does nothing for the service, one
\* that holds nothing afterwards has released its connection.
LEMMA ClientReleases ==
  ASSUME UNCHANGED <<waiting, slot, pos>>, NEW c \in Clients, Only(c),
         pc[c] # "waiting", pc'[c] # "waiting",
         HeldBy(c)' = HeldBy(c) \/ HeldBy(c)' = NoConn
  PROVE  Serves
<1>1. /\ UNCHANGED <<AbstractQueue, AbstractAhead>>
      /\ AbstractHeld' = [AbstractHeld EXCEPT ![c] = HeldBy(c)']
  BY ClientMoves
<1>2. AbstractHeld[c] = HeldBy(c)
  BY DEF AbstractHeld
<1>3. CASE HeldBy(c)' = HeldBy(c)
  <2>1. UNCHANGED AbstractHeld
    BY <1>1, <1>3 DEF AbstractHeld
  <2> QED
    BY <1>1, <2>1 DEF Serves, Service!vars
<1>4. CASE HeldBy(c) # NoConn /\ HeldBy(c)' = NoConn
  <2>1. Service!Release(c)
    BY <1>1, <1>2, <1>4 DEF Service!Release
  <2> QED
    BY <2>1 DEF Serves, Service!Next
<1> QED
  BY <1>3, <1>4

\* A step that no client takes part in does nothing for the service.
LEMMA NoClient ==
  ASSUME UNCHANGED <<waiting, slot, pos>>,
         \A c \in Clients : pc'[c] = pc[c] /\ cur'[c] = cur[c]
  PROVE  Serves
<1>1. StillWaits
  BY DEF StillWaits
<1>2. \A c \in Clients : HeldBy(c)' = HeldBy(c)
  BY DEF HeldBy, At
<1> QED
  BY <1>1, <1>2, QueueStays, SameHeld DEF Serves, Service!vars

\* Client c leaves the queue: the deque loses its first k positions, which
\* served nobody else, and the others wait on.
Leaves(c, k) ==
  /\ DOMAIN waiting' = 1..(Len(waiting) - k)
  /\ \A d \in Clients : \A j \in DOMAIN waiting' :
       WaitsIn(d, j)' <=> d # c /\ WaitsIn(d, j + k)
  /\ \A d \in Clients : \A i \in DOMAIN waiting : d # c /\ WaitsIn(d, i) => i > k

\* Then the service dequeues it.
LEMMA Dequeues ==
  ASSUME TypeInv, NEW c \in Clients, NEW k \in Nat, k <= Len(waiting), Leaves(c, k)
  PROVE  Service!Dequeue(c)
<1>0. /\ DOMAIN waiting = 1..Len(waiting) /\ Len(waiting) \in Nat
      /\ DOMAIN waiting' = 1..(Len(waiting) - k)
  BY DEF TypeInv, TypeOK, Leaves
<1>1. \A j \in DOMAIN waiting' : j + k \in DOMAIN waiting
  BY <1>0
<1>2. \A i \in DOMAIN waiting : i > k => i - k \in DOMAIN waiting' /\ (i - k) + k = i
  BY <1>0
<1>3. \A i, j \in DOMAIN waiting : i < j /\ i > k /\ j > k => i - k < j - k
  BY <1>0
<1>4. \A i, j \in DOMAIN waiting' : i < j => i + k < j + k
  BY <1>0
<1>5. AbstractQueue' = AbstractQueue \ {c}
  <2>1. ASSUME NEW d \in AbstractQueue'
        PROVE  d \in AbstractQueue /\ d # c
    BY <1>1, <2>1 DEF AbstractQueue, Leaves
  <2>2. ASSUME NEW d \in AbstractQueue, d # c
        PROVE  d \in AbstractQueue'
    <3>1. PICK i \in DOMAIN waiting : WaitsIn(d, i)
      BY DEF AbstractQueue
    <3>2. i > k /\ d \in Clients
      BY <2>2, <3>1 DEF Leaves, AbstractQueue
    <3>3. i - k \in DOMAIN waiting' /\ (i - k) + k = i
      BY <1>2, <3>2
    <3>4. WaitsIn(d, i - k)'
      BY <2>2, <3>1, <3>2, <3>3 DEF Leaves
    <3> QED
      BY <3>2, <3>3, <3>4 DEF AbstractQueue
  <2> QED
    BY <2>1, <2>2
<1>6. ASSUME NEW d \in Clients, NEW e \in Clients
      PROVE  e \in AbstractAhead'[d] <=> e # c /\ d # c /\ e \in AbstractAhead[d]
  <2>1. /\ e \in AbstractAhead[d] <=> \E i, j \in DOMAIN waiting :
                                        i < j /\ WaitsIn(e, i) /\ WaitsIn(d, j)
        /\ e \in AbstractAhead'[d] <=> \E i, j \in DOMAIN waiting' :
                                        i < j /\ WaitsIn(e, i)' /\ WaitsIn(d, j)'
    BY DEF AbstractAhead
  <2>2. ASSUME NEW i \in DOMAIN waiting', NEW j \in DOMAIN waiting',
               i < j, WaitsIn(e, i)', WaitsIn(d, j)'
        PROVE  e # c /\ d # c /\ e \in AbstractAhead[d]
    <3>1. e # c /\ d # c /\ WaitsIn(e, i + k) /\ WaitsIn(d, j + k)
      BY <2>2 DEF Leaves
    <3> QED
      BY <1>1, <1>4, <2>1, <2>2, <3>1
  <2>3. ASSUME NEW i \in DOMAIN waiting, NEW j \in DOMAIN waiting,
               i < j, WaitsIn(e, i), WaitsIn(d, j), e # c, d # c
        PROVE  e \in AbstractAhead'[d]
    <3>1. i > k /\ j > k
      BY <2>3 DEF Leaves
    <3>2. /\ i - k \in DOMAIN waiting' /\ (i - k) + k = i
          /\ j - k \in DOMAIN waiting' /\ (j - k) + k = j
      BY <1>2, <3>1
    <3>3. WaitsIn(e, i - k)' /\ WaitsIn(d, j - k)'
      BY <2>3, <3>2 DEF Leaves
    <3> QED
      BY <1>3, <2>1, <2>3, <3>1, <3>2, <3>3
  <2> QED
    BY <2>1, <2>2, <2>3
<1>7. AbstractAhead' = [d \in Clients |-> IF d = c THEN {} ELSE AbstractAhead[d] \ {c}]
  <2>1. AbstractAhead' = [d \in Clients |-> AbstractAhead'[d]]
    BY DEF AbstractAhead
  <2>2. \A d \in Clients : AbstractAhead'[d] \subseteq Clients /\ AbstractAhead[d] \subseteq Clients
    BY DEF AbstractAhead
  <2>3. \A d \in Clients : AbstractAhead'[d] = IF d = c THEN {} ELSE AbstractAhead[d] \ {c}
    BY <1>6, <2>2
  <2> QED
    BY <2>1, <2>3, Zenon
<1> QED
  BY <1>5, <1>7 DEF Service!Dequeue

\* getconn() joins the queue.
LEMMA Joins ==
  ASSUME ServiceInv, NEW c \in Clients, getconn_enqueue(c)
  PROVE  Serves
<1>t. /\ TypeInv /\ waiting \in Seq(Positions) /\ slot \in [Positions -> Slot]
      /\ pos \in [Clients -> Positions \cup {NoPos}] /\ pc \in [Threads -> Labels]
      /\ Clients \subseteq Threads
  BY DEF ServiceInv, TypeInv, TypeOK, Threads
<1>1. PICK p \in Positions : /\ FreshPos(p) /\ waiting' = Append(waiting, p)
                             /\ slot' = [slot EXCEPT ![p] = EmptySlot]
                             /\ pos' = [pos EXCEPT ![c] = p]
  BY DEF getconn_enqueue
<1>2. /\ pc[c] = "getconn" /\ pc' = [pc EXCEPT ![c] = "waiting"] /\ UNCHANGED cur
  BY DEF getconn_enqueue, At, Goto
<1>3. (\A i \in DOMAIN waiting : waiting[i] # p) /\ \A d \in Clients : pos[d] # p
  BY <1>1 DEF FreshPos, UsedPos, Elems
<1>n. PICK n : n = Len(waiting) + 1
  OBVIOUS
<1>4. /\ DOMAIN waiting = 1..Len(waiting) /\ Len(waiting) \in Nat
      /\ DOMAIN waiting' = 1..n /\ waiting'[n] = p
      /\ \A i \in DOMAIN waiting : waiting'[i] = waiting[i]
  BY <1>1, <1>t, <1>n
<1>5. /\ \A i \in DOMAIN waiting : i \in DOMAIN waiting' /\ i < n
      /\ \A i \in DOMAIN waiting' : i \in DOMAIN waiting \/ i = n
      /\ n \in DOMAIN waiting' /\ n \notin DOMAIN waiting
      /\ \A i \in DOMAIN waiting' : ~(n < i)
  BY <1>4, <1>n
<1>6. \A d \in Clients : d # c => pc'[d] = pc[d] /\ pos'[d] = pos[d]
  BY <1>1, <1>2, <1>t
<1>7. \A i \in DOMAIN waiting : waiting[i] \in Positions /\ slot'[waiting[i]] = slot[waiting[i]]
  BY <1>1, <1>3, <1>t
<1>8. ASSUME NEW d \in Clients, NEW i \in DOMAIN waiting
      PROVE  /\ WaitsIn(d, i)' <=> WaitsIn(d, i)
             /\ WaitsIn(d, i) => d # c
  <2>1. CASE d = c
    <3>1. ~WaitsIn(c, i)
      BY <1>2 DEF WaitsIn, At
    <3>2. pos'[c] = p /\ waiting'[i] = waiting[i]
      BY <1>1, <1>4, <1>t
    <3>3. ~WaitsIn(c, i)'
      BY <1>3, <3>2 DEF WaitsIn
    <3> QED
      BY <2>1, <3>1, <3>3
  <2>2. CASE d # c
    BY <1>4, <1>6, <1>7, <2>2 DEF WaitsIn, At, Accepts
  <2> QED
    BY <2>1, <2>2
<1>9. ASSUME NEW d \in Clients
      PROVE  WaitsIn(d, n)' <=> d = c
  <2>1. CASE d = c
    <3>1. pc'[c] = "waiting" /\ pos'[c] = p /\ slot'[p] = EmptySlot
      BY <1>1, <1>2, <1>t
    <3> QED
      BY <1>4, <2>1, <3>1 DEF WaitsIn, At, Accepts
  <2>2. CASE d # c
    BY <1>3, <1>4, <1>6, <2>2 DEF WaitsIn
  <2> QED
    BY <2>1, <2>2
<1>10. AbstractQueue' = AbstractQueue \cup {c} /\ c \notin AbstractQueue
  BY <1>5, <1>8, <1>9 DEF AbstractQueue
<1>11. ASSUME NEW d \in Clients, NEW e \in Clients
       PROVE  e \in AbstractAhead'[d] <=> IF d = c THEN e \in AbstractQueue
                                                   ELSE e \in AbstractAhead[d]
  <2>1. /\ e \in AbstractAhead[d] <=> \E i, j \in DOMAIN waiting :
                                        i < j /\ WaitsIn(e, i) /\ WaitsIn(d, j)
        /\ e \in AbstractAhead'[d] <=> \E i, j \in DOMAIN waiting' :
                                        i < j /\ WaitsIn(e, i)' /\ WaitsIn(d, j)'
        /\ e \in AbstractQueue <=> \E i \in DOMAIN waiting : WaitsIn(e, i)
    BY DEF AbstractAhead, AbstractQueue
  <2>2. CASE d = c
    <3>1. \A j \in DOMAIN waiting' : WaitsIn(c, j)' <=> j = n
      BY <1>5, <1>8, <1>9
    <3>2. e \in AbstractAhead'[c] <=> \E i \in DOMAIN waiting' : i < n /\ WaitsIn(e, i)'
      BY <1>5, <2>1, <2>2, <3>1
    <3>3. \A i \in DOMAIN waiting' : i < n <=> i \in DOMAIN waiting
      BY <1>4, <1>5
    <3> QED
      BY <1>5, <1>8, <2>1, <2>2, <3>2, <3>3
  <2>3. CASE d # c
    <3>1. \A j \in DOMAIN waiting' : WaitsIn(d, j)' <=> j \in DOMAIN waiting /\ WaitsIn(d, j)
      BY <1>5, <1>8, <1>9, <2>3
    <3>2. \A i \in DOMAIN waiting', j \in DOMAIN waiting : i < j => i \in DOMAIN waiting
      BY <1>5
    <3> QED
      BY <1>5, <1>8, <2>1, <2>3, <3>1, <3>2
  <2> QED
    BY <2>2, <2>3
<1>12. AbstractAhead' = [AbstractAhead EXCEPT ![c] = AbstractQueue]
  <2>1. /\ AbstractAhead' = [d \in Clients |-> AbstractAhead'[d]]
        /\ AbstractAhead = [d \in Clients |-> AbstractAhead[d]]
        /\ AbstractQueue \subseteq Clients
    BY DEF AbstractAhead, AbstractQueue
  <2>2. \A d \in Clients : AbstractAhead'[d] \subseteq Clients /\ AbstractAhead[d] \subseteq Clients
    BY DEF AbstractAhead
  <2>3. \A d \in Clients : AbstractAhead'[d] = IF d = c THEN AbstractQueue ELSE AbstractAhead[d]
    BY <1>11, <2>1, <2>2
  <2>4. [AbstractAhead EXCEPT ![c] = AbstractQueue]
        = [d \in Clients |-> IF d = c THEN AbstractQueue ELSE AbstractAhead[d]]
    BY <2>1, Zenon DEF AbstractAhead
  <2> QED
    BY <2>1, <2>3, <2>4, Zenon
<1>13. \A d \in Clients : HeldBy(d)' = HeldBy(d)
  <2>1. HeldBy(c) = NoConn
    BY <1>2 DEF HeldBy, At
  <2>2. HeldBy(c)' = NoConn
    BY <1>1, <1>2, <1>t DEF HeldBy, At, EmptySlot
  <2>3. ASSUME NEW d \in Clients, d # c
        PROVE  HeldBy(d)' = HeldBy(d)
    <3>1. pc[d] = "waiting" => pos[d] \in Positions /\ pos[d] # p
      BY <1>3, <1>t DEF TypeInv, WaitersHeld
    <3> QED
      BY <1>1, <1>2, <1>6, <1>t, <2>3, <3>1 DEF HeldBy, At
  <2> QED
    BY <2>1, <2>2, <2>3
<1>14. AbstractHeld[c] = NoConn
  BY <1>2 DEF AbstractHeld, HeldBy, At
<1>15. Service!Join(c)
  BY <1>10, <1>12, <1>13, <1>14, SameHeld DEF Service!Join
<1> QED
  BY <1>15 DEF Serves, Service!Next

\* A position refuses connections from now on: the client that waits there, if
\* it is in the queue, leaves it.
LEMMA Refuses ==
  ASSUME ServiceInv, NEW p \in Positions, NEW e, e # "none",
         slot' = [slot EXCEPT ![p].error = e], UNCHANGED <<waiting, pos>>,
         \A c \in Clients : pc'[c] = pc[c] /\ cur'[c] = cur[c]
  PROVE  Serves
<1>t. /\ TypeInv /\ waiting \in Seq(Positions) /\ slot \in [Positions -> Slot]
      /\ \A c \in Clients : pc[c] = "waiting" => pos[c] \in Positions
  BY DEF ServiceInv, TypeInv, TypeOK, WaitersHeld
<1>1. /\ slot'[p] # EmptySlot
      /\ \A q \in Positions : slot'[q].conn = slot[q].conn
      /\ \A q \in Positions : q # p => slot'[q] = slot[q]
  BY <1>t DEF EmptySlot, Slot
<1>2. \A i \in DOMAIN waiting : waiting[i] \in Positions
  BY <1>t
<1>3. \A c \in Clients : HeldBy(c)' = HeldBy(c)
  BY <1>t, <1>1 DEF HeldBy, At
<1>4. \A c \in Clients : \A i \in DOMAIN waiting :
        WaitsIn(c, i)' <=> waiting[i] # p /\ WaitsIn(c, i)
  BY <1>1, <1>2 DEF WaitsIn, At, Accepts
<1>5. CASE \E i \in DOMAIN waiting : waiting[i] = p /\ Accepts(p)
  <2>1. PICK c \in Clients : WaitsOn(c, p)
    BY <1>5 DEF ServiceInv, HandOver
  <2>2. \A d \in Clients : \A i \in DOMAIN waiting : WaitsIn(d, i) => (waiting[i] = p <=> d = c)
    <3>1. pc[c] = "waiting" /\ pos[c] = p
      BY <2>1 DEF WaitsOn
    <3>2. pos[c] # NoPos
      BY <3>1, ConstantsAssumption DEF NoPos
    <3> QED
      BY <3>1, <3>2 DEF ServiceInv, PosOnce, WaitsIn, At
  <2>3. c \in AbstractQueue
    BY <1>5, <2>1 DEF AbstractQueue, WaitsIn, WaitsOn, At
  <2>4. Leaves(c, 0)
    <3>1. DOMAIN waiting' = 1..(Len(waiting) - 0) /\ DOMAIN waiting' = DOMAIN waiting
      BY <1>t
    <3>2. \A i \in DOMAIN waiting : i + 0 = i /\ i > 0
      BY <1>t
    <3>3. \A d \in Clients : \A i \in DOMAIN waiting : WaitsIn(d, i)' <=> d # c /\ WaitsIn(d, i)
      BY <1>4, <2>2
    <3> QED
      BY <3>1, <3>2, <3>3 DEF Leaves
  <2>5. 0 \in Nat /\ 0 <= Len(waiting)
    BY <1>t
  <2>6. Service!Dequeue(c)
    BY <1>t, <2>4, <2>5, Dequeues
  <2>7. Service!Leave(c)
    BY <1>3, <2>3, <2>6, SameHeld DEF Service!Leave
  <2> QED
    BY <2>7 DEF Serves, Service!Next
<1>6. CASE \A i \in DOMAIN waiting : ~(waiting[i] = p /\ Accepts(p))
  <2>1. \A c \in Clients : \A i \in DOMAIN waiting : WaitsIn(c, i)' <=> WaitsIn(c, i)
    BY <1>4, <1>6 DEF WaitsIn
  <2> QED
    BY <1>3, <2>1, SameQueue, SameHeld DEF Serves, Service!vars
<1> QED
  BY <1>5, <1>6

\* A wait breaks.
LEMMA BreaksOff ==
  ASSUME ServiceInv, NEW c \in Clients, wait_broken(c)
  PROVE  Serves
<1>1. PICK e \in {"timeout", "interrupt"} : slot' = [slot EXCEPT ![pos[c]].error = e]
  BY DEF wait_broken
<1>2. UNCHANGED <<waiting, pos, pc, cur>> /\ pos[c] \in Positions
  BY DEF wait_broken, clientVars, At, ServiceInv, TypeInv, WaitersHeld
<1>3. e # "none"
  OBVIOUS
<1> QED
  BY <1>1, <1>2, <1>3, Refuses

\* close() fails a client.
LEMMA Fails ==
  ASSUME ServiceInv, NEW a \in Admins, close_fail(a)
  PROVE  Serves
<1>1. UNCHANGED <<waiting, pos, cur>>
  BY DEF close_fail, clientVars
<1>2. \A c \in Clients : pc'[c] = pc[c] /\ cur'[c] = cur[c]
  BY <1>1, ThreadsAssumption DEF close_fail, Goto, ServiceInv, TypeInv, TypeOK, Threads
<1>3. CASE UNCHANGED slot
  BY <1>1, <1>2, <1>3, NoClient
<1>4. CASE ~UNCHANGED slot
  <2>1. doomed[a] # <<>> /\ slot' = [slot EXCEPT ![Head(doomed[a])].error = "closed"]
    BY <1>4 DEF close_fail
  <2>2. doomed[a] \in Seq(Positions)
    BY DEF ServiceInv, TypeInv, TypeOK
  <2>3. PICK p \in Positions : p = Head(doomed[a])
    BY <2>1, <2>2
  <2> QED
    BY <1>1, <1>2, <2>1, <2>3, Refuses
<1> QED
  BY <1>3, <1>4

\* A wait ends: what the position accepted is now in the hands of the client.
LEMMA Ends ==
  ASSUME ServiceInv, NEW c \in Clients, wait_returns(c)
  PROVE  Serves
<1>t. /\ waiting \in Seq(Positions) /\ slot \in [Positions -> Slot]
      /\ pos \in [Clients -> Positions \cup {NoPos}] /\ pc \in [Threads -> Labels]
      /\ cur \in [Threads -> Conns \cup {NoConn}] /\ Clients \subseteq Threads
      /\ \A d \in Clients : pc[d] = "waiting" => pos[d] \in Positions
  BY DEF ServiceInv, TypeInv, TypeOK, WaitersHeld, Threads
<1>1. PICK p \in Positions : p = pos[c]
  BY <1>t DEF wait_returns, At
<1>2. PICK x : x = slot[p].conn
  OBVIOUS
<1>3. /\ pc[c] = "waiting" /\ slot[p] # EmptySlot
      /\ cur' = [cur EXCEPT ![c] = x]
      /\ pc' = [pc EXCEPT ![c] = IF x # NoConn THEN "checking" ELSE "idle"]
      /\ pos' = [pos EXCEPT ![c] = NoPos]
      /\ slot' = [slot EXCEPT ![p].conn = NoConn]
      /\ UNCHANGED waiting
  BY <1>1, <1>2 DEF wait_returns, At, Goto, WaitResult
<1>4. \A q \in Positions : q # p => slot'[q] = slot[q]
  BY <1>3, <1>t
<1>5. \A d \in Clients : d # c => /\ pc'[d] = pc[d] /\ pos'[d] = pos[d]
                                  /\ cur'[d] = cur[d] /\ pos[d] # p
  <2>1. p # NoPos
    BY ConstantsAssumption DEF NoPos
  <2>2. \A d \in Clients : d # c => pos[d] # p
    BY <1>1, <2>1 DEF ServiceInv, PosOnce
  <2> QED
    BY <1>3, <1>t, <2>2
<1>6. \A i \in DOMAIN waiting : waiting[i] \in Positions
  BY <1>t
<1>7. \A d \in Clients : \A i \in DOMAIN waiting : WaitsIn(d, i)' <=> WaitsIn(d, i)
  <2> SUFFICES ASSUME NEW d \in Clients, NEW i \in DOMAIN waiting
               PROVE  WaitsIn(d, i)' <=> WaitsIn(d, i)
    OBVIOUS
  <2>1. CASE d = c
    <3>1. ~WaitsIn(c, i)
      BY <1>1, <1>3 DEF WaitsIn, Accepts
    <3>2. pc'[c] # "waiting"
      BY <1>3, <1>t
    <3> QED
      BY <2>1, <3>1, <3>2 DEF WaitsIn, At
  <2>2. CASE d # c
    BY <1>3, <1>4, <1>5, <1>6, <2>2 DEF WaitsIn, At, Accepts
  <2> QED
    BY <2>1, <2>2
<1>8. \A d \in Clients : HeldBy(d)' = HeldBy(d)
  <2>1. HeldBy(c) = x
    BY <1>1, <1>2, <1>3 DEF HeldBy, At
  <2>2. HeldBy(c)' = x
    <3>1. cur'[c] = x /\ pc'[c] = IF x # NoConn THEN "checking" ELSE "idle"
      BY <1>3, <1>t
    <3> QED
      BY <3>1 DEF HeldBy, At
  <2>3. ASSUME NEW d \in Clients, d # c
        PROVE  HeldBy(d)' = HeldBy(d)
    <3>1. pc[d] = "waiting" => slot'[pos[d]] = slot[pos[d]]
      BY <1>4, <1>5, <1>t, <2>3
    <3> QED
      BY <1>5, <2>3, <3>1 DEF HeldBy, At
  <2> QED
    BY <2>1, <2>2, <2>3
<1> QED
  BY <1>3, <1>7, <1>8, SameQueue, SameHeld DEF Serves, Service!vars

\* Nobody has a connection that is in none of these places.
LEMMA NobodyHolds ==
  ASSUME TypeInv, NEW x \in Conns, ~Given(x),
         \A c \in Clients : pc[c] \in {"checking", "using"} => cur[c] # x
  PROVE  \A c \in Clients : AbstractHeld[c] # x
<1>1. x # NoConn
  BY ConstantsAssumption DEF NoConn
<1>2. \A c \in Clients : pc[c] = "waiting" => slot[pos[c]].conn # x
  BY DEF TypeInv, WaitersHeld, Given
<1> QED
  BY <1>1, <1>2 DEF AbstractHeld, HeldBy, At

\* getconn() takes a connection that is ready.
LEMMA Takes ==
  ASSUME ServiceInv, NEW c \in Clients, _get_ready_connection(c)
  PROVE  Serves
<1>t. /\ TypeInv /\ pc \in [Threads -> Labels] /\ pool \in Seq(Conns)
      /\ cur \in [Threads -> Conns \cup {NoConn}] /\ Clients \subseteq Threads
  BY DEF ServiceInv, TypeInv, TypeOK, Threads
<1>1. PICK x \in Conns : x = Head(pool) /\ x = pool[1] /\ 1 \in DOMAIN pool
  BY <1>t DEF _get_ready_connection
<1>2. /\ pool # <<>> /\ pc[c] = "getconn" /\ UNCHANGED <<waiting, slot, pos>>
      /\ cur' = [cur EXCEPT ![c] = x] /\ pc' = [pc EXCEPT ![c] = "checking"]
  BY <1>1 DEF _get_ready_connection, At, Goto, queueVars, clientVars
<1>3. ~Given(x) /\ ~Held(x)
  BY <1>1 DEF ServiceInv, Sharing, Apart, ApartAt, InDeque
<1>4. \A d \in Clients : AbstractHeld[d] # x
  BY <1>3, <1>t, NobodyHolds DEF Held
<1>5. AbstractQueue = {}
  <2>1. waiting = <<>>
    BY <1>2 DEF ServiceInv, QueueInv, NoIdleWhileWaiting
  <2> QED
    BY <2>1 DEF AbstractQueue
<1>6. pc'[c] = "checking" /\ cur'[c] = x /\ Only(c)
  BY <1>2, <1>t DEF Only
<1>7. /\ UNCHANGED <<AbstractQueue, AbstractAhead>>
      /\ AbstractHeld' = [AbstractHeld EXCEPT ![c] = HeldBy(c)']
  BY <1>2, <1>6, ClientMoves
<1>8. HeldBy(c)' = x /\ AbstractHeld[c] = NoConn
  BY <1>2, <1>6 DEF HeldBy, At, AbstractHeld
<1>9. Service!Take(c, x)
  BY <1>4, <1>5, <1>7, <1>8 DEF Service!Take, Service!Free
<1> QED
  BY <1>9 DEF Serves, Service!Next

\* A connection goes to the first position that accepts it.
LEMMA Grants ==
  ASSUME ServiceInv, NEW t \in Threads, NEW k \in DOMAIN waiting, NEW x \in Conns,
         pc[t] = "add_lock", x = cur[t], Accepts(waiting[k]),
         \A j \in DOMAIN waiting : j < k => ~Accepts(waiting[j]),
         slot' = [slot EXCEPT ![waiting[k]].conn = x],
         waiting' = SubSeq(waiting, k + 1, Len(waiting)),
         UNCHANGED pos, cur' = [cur EXCEPT ![t] = NoConn], Goto(t, After(t))
  PROVE  Serves
<1>t. /\ TypeInv /\ waiting \in Seq(Positions) /\ slot \in [Positions -> Slot]
      /\ pc \in [Threads -> Labels] /\ Clients \subseteq Threads
      /\ cur \in [Threads -> Conns \cup {NoConn}]
      /\ \A d \in Clients : pc[d] = "waiting" => pos[d] \in Positions
  BY DEF ServiceInv, TypeInv, TypeOK, WaitersHeld, Threads
<1>0. /\ DOMAIN waiting = 1..Len(waiting) /\ Len(waiting) \in Nat /\ k \in Nat
      /\ k <= Len(waiting) /\ DOMAIN waiting' = 1..(Len(waiting) - k)
      /\ \A j \in DOMAIN waiting' : /\ waiting'[j] = waiting[j + k]
                                    /\ j + k \in DOMAIN waiting /\ j + k # k
  BY <1>t
<1>p. PICK p \in Positions : p = waiting[k]
  BY <1>t
<1>1. PICK c \in Clients : pc[c] = "waiting" /\ pos[c] = p
  BY <1>p DEF ServiceInv, HandOver, WaitsOn
<1>2. /\ slot'[p].conn = x /\ x # NoConn
      /\ \A q \in Positions : q # p => slot'[q] = slot[q]
  BY <1>p, <1>t, ConstantsAssumption DEF Slot, NoConn
<1>3. /\ pc'[c] = "waiting"
      /\ \A d \in Clients : pc'[d] = "waiting" <=> pc[d] = "waiting"
  BY <1>1, <1>t DEF Goto, After, AfterPut
<1>4. \A d \in Clients : d # c => pos[d] # p
  <2>1. p # NoPos
    BY ConstantsAssumption DEF NoPos
  <2> QED
    BY <1>1, <2>1 DEF ServiceInv, PosOnce
<1>5. \A j \in DOMAIN waiting' : waiting'[j] # p /\ waiting'[j] \in Positions
  BY <1>0, <1>p, <1>t DEF ServiceInv, HandOver
<1>6. \A d \in Clients : \A j \in DOMAIN waiting' : WaitsIn(d, j)' <=> d # c /\ WaitsIn(d, j + k)
  <2> SUFFICES ASSUME NEW d \in Clients, NEW j \in DOMAIN waiting'
               PROVE  WaitsIn(d, j)' <=> d # c /\ WaitsIn(d, j + k)
    OBVIOUS
  <2>1. WaitsIn(d, j)' <=> WaitsIn(d, j + k)
    BY <1>0, <1>2, <1>3, <1>5 DEF WaitsIn, At, Accepts
  <2>2. ~WaitsIn(c, j + k)
    BY <1>0, <1>1, <1>5 DEF WaitsIn
  <2> QED
    BY <2>1, <2>2
<1>7. \A d \in Clients : \A i \in DOMAIN waiting : d # c /\ WaitsIn(d, i) => i > k
  <2> SUFFICES ASSUME NEW d \in Clients, NEW i \in DOMAIN waiting, d # c, WaitsIn(d, i)
               PROVE  i > k
    OBVIOUS
  <2>1. i # k
    BY <1>4, <1>p DEF WaitsIn
  <2>2. ~(i < k)
    BY DEF WaitsIn
  <2> QED
    BY <1>0, <2>1, <2>2
<1>8. Leaves(c, k)
  BY <1>0, <1>6, <1>7 DEF Leaves
<1>9. Service!Dequeue(c)
  BY <1>0, <1>8, <1>t, Dequeues
<1>10. c \in AbstractQueue
  BY <1>1, <1>p DEF AbstractQueue, WaitsIn, At
<1>11. AbstractAhead[c] = {}
  <2> SUFFICES ASSUME NEW d \in Clients, NEW i \in DOMAIN waiting, NEW j \in DOMAIN waiting,
                      i < j, WaitsIn(d, i), WaitsIn(c, j)
               PROVE  FALSE
    BY DEF AbstractAhead
  <2>1. j = k
    BY <1>1, <1>p DEF WaitsIn, ServiceInv, HandOver
  <2> QED
    BY <2>1 DEF WaitsIn
<1>12. \A d \in Clients : AbstractHeld[d] # x
  <2>1. Held(x)
    BY DEF Held
  <2>2. ~Given(x)
    BY <2>1 DEF ServiceInv, Sharing, Apart, ApartAt
  <2>3. \A d \in Clients : pc[d] \in {"checking", "using"} => cur[d] # x
    BY <1>2, <1>t DEF ServiceInv, Sharing, CurOnce
  <2> QED
    BY <1>t, <2>2, <2>3, NobodyHolds
<1>13. AbstractHeld' = [AbstractHeld EXCEPT ![c] = x]
  <2>1. HeldBy(c)' = x
    BY <1>1, <1>2, <1>3 DEF HeldBy, At
  <2>2. ASSUME NEW d \in Clients, d # c
        PROVE  HeldBy(d)' = HeldBy(d)
    <3>1. CASE pc[d] = "waiting"
      <4>1. pc'[d] = "waiting"
        BY <1>3, <3>1
      <4>2. slot'[pos[d]] = slot[pos[d]]
        BY <1>2, <1>4, <1>t, <2>2, <3>1
      <4>3. HeldBy(d) = slot[pos[d]].conn
        BY <3>1 DEF HeldBy, At
      <4>4. HeldBy(d)' = slot'[pos[d]].conn
        BY <4>1 DEF HeldBy, At
      <4> QED
        BY <4>2, <4>3, <4>4
    <3>2. CASE d = t
      BY <1>t, <3>2 DEF HeldBy, At, Goto, After, AfterPut
    <3>3. CASE d # t /\ pc[d] # "waiting"
      BY <1>t, <3>3 DEF HeldBy, At, Goto
    <3> QED
      BY <3>1, <3>2, <3>3
  <2> QED
    BY <2>1, <2>2 DEF AbstractHeld
<1>14. Service!Grant(c, x)
  BY <1>9, <1>10, <1>11, <1>12, <1>13 DEF Service!Grant, Service!Free
<1> QED
  BY <1>14 DEF Serves, Service!Next

\* A connection goes back to the pool, or to the first client of the queue.
LEMMA GivesBack ==
  ASSUME ServiceInv, NEW t \in Threads, _add_to_pool(t)
  PROVE  Serves
<1>t. /\ TypeInv /\ pc \in [Threads -> Labels] /\ Clients \subseteq Threads
      /\ cur \in [Threads -> Conns \cup {NoConn}]
  BY DEF ServiceInv, TypeInv, TypeOK, Threads
<1>1. /\ pc[t] = "add_lock" /\ UNCHANGED pos
      /\ cur' = [cur EXCEPT ![t] = NoConn] /\ Goto(t, After(t))
  BY DEF _add_to_pool, At, CloseCur, clientVars
<1>2. PICK x \in Conns : x = cur[t]
  BY <1>1, <1>t DEF TypeInv, ThreadsHeld, Holding
<1>3. StillWaits
  BY <1>1, <1>t DEF StillWaits, Goto, After, AfterPut
<1>4. \A d \in Clients : HeldBy(d)' = HeldBy(d) \/ slot' # slot
  BY <1>1, <1>3, <1>t DEF StillWaits, HeldBy, At, Goto, After, AfterPut
<1>5. CASE UNCHANGED <<waiting, slot>>
  BY <1>3, <1>4, <1>5, QueueStays, SameHeld DEF Serves, Service!vars
<1>6. CASE Serve(x)
  <2>1. ASSUME NEW k \in DOMAIN waiting, Accepts(waiting[k]),
               \A j \in DOMAIN waiting : j < k => ~Accepts(waiting[j]),
               slot' = [slot EXCEPT ![waiting[k]].conn = x],
               waiting' = SubSeq(waiting, k + 1, Len(waiting))
        PROVE  Serves
    BY <1>1, <1>2, <2>1, Grants
  <2>2. CASE (\A i \in DOMAIN waiting : ~Accepts(waiting[i])) /\ waiting' = <<>> /\ UNCHANGED slot
    <3>1. \A c \in Clients : AbstractAhead[c] = {} /\ AbstractAhead'[c] = {}
      BY <2>2 DEF AbstractAhead, WaitsIn
    <3>2. UNCHANGED AbstractAhead
      <4>1. /\ AbstractAhead = [c \in Clients |-> AbstractAhead[c]]
            /\ AbstractAhead' = [c \in Clients |-> AbstractAhead'[c]]
        BY DEF AbstractAhead
      <4> QED
        BY <3>1, <4>1, Zenon
    <3>3. UNCHANGED AbstractQueue
      BY <2>2 DEF AbstractQueue, WaitsIn
    <3> QED
      BY <1>4, <2>2, <3>2, <3>3, SameHeld DEF Serves, Service!vars
  <2> QED
    BY <1>6, <2>1, <2>2 DEF Serve
<1> QED
  BY <1>2, <1>5, <1>6 DEF _add_to_pool, queueVars

\* close() ends the service.
LEMMA ShutsDown ==
  ASSUME ServiceInv, NEW a \in Admins, close_lock(a)
  PROVE  Serves
<1>1. /\ waiting' = <<>> /\ UNCHANGED <<slot, pos, cur>>
      /\ \A c \in Clients : pc'[c] = pc[c]
  BY ThreadsAssumption DEF close_lock, Goto, clientVars, ServiceInv, TypeInv, TypeOK, Threads
<1>2. AbstractQueue' = {}
  BY <1>1 DEF AbstractQueue
<1>3. AbstractAhead' = [c \in Clients |-> {}]
  <2>1. /\ AbstractAhead' = [c \in Clients |-> AbstractAhead'[c]]
        /\ \A c \in Clients : AbstractAhead'[c] = {}
    BY <1>1 DEF AbstractAhead
  <2> QED
    BY <2>1, Zenon
<1>4. \A c \in Clients : HeldBy(c)' = HeldBy(c)
  BY <1>1 DEF HeldBy, At
<1>5. Service!Shutdown
  BY <1>2, <1>3, <1>4, SameHeld DEF Service!Shutdown
<1> QED
  BY <1>5 DEF Serves, Service!Next

\* Every step of the pool is a step of the service or none.
LEMMA ServiceStep ==
  ASSUME ServiceInv, [Next]_vars
  PROVE  Serves
<1>t. /\ TypeInv /\ pc \in [Threads -> Labels] /\ cur \in [Threads -> Conns \cup {NoConn}]
      /\ Clients \subseteq Threads
  BY DEF ServiceInv, TypeInv, TypeOK, Threads
<1>d. \A c \in Clients, u \in Workers \cup Admins : c # u
  BY ThreadsAssumption
<1>1. ASSUME NEW c \in Clients,
             \/ getconn(c) \/ getconn_timeout(c) \/ getconn_refused(c) \/ check_passes(c)
             \/ check_fails(c) \/ check_interrupted(c) \/ backoff(c) \/ putconn(c)
             \/ _putconn(c) \/ _return_connection(c) \/ _add_to_pool_early(c)
      PROVE  Serves
  <2>1. UNCHANGED <<waiting, slot, pos>>
    BY <1>1 DEF getconn, getconn_timeout, getconn_refused, check_passes, check_fails,
         check_interrupted, backoff, putconn, _putconn, _return_connection,
         _add_to_pool_early, queueVars, clientVars
  <2>2. PICK l \in Labels \ {"waiting"} :
          pc[c] # "waiting" /\ pc' = [pc EXCEPT ![c] = l]
    BY <1>1, <1>t DEF getconn, getconn_timeout, getconn_refused, check_passes, check_fails,
         check_interrupted, backoff, putconn, _putconn, _return_connection,
         _add_to_pool_early, CloseCur, At, Goto, After, AfterPut, Labels
  <2>3. UNCHANGED cur \/ cur' = [cur EXCEPT ![c] = NoConn]
    BY <1>1 DEF getconn, getconn_timeout, getconn_refused, check_passes, check_fails,
         check_interrupted, backoff, putconn, _putconn, _return_connection,
         _add_to_pool_early, CloseCur, Replace
  <2>4. Only(c) /\ pc'[c] = l /\ cur'[c] \in {cur[c], NoConn}
    BY <1>t, <2>2, <2>3 DEF Only
  <2>5. HeldBy(c)' = HeldBy(c) \/ HeldBy(c)' = NoConn
    <3>1. CASE check_passes(c)
      <4>1. pc[c] = "checking" /\ pc'[c] = "using" /\ UNCHANGED cur
        BY <1>t, <3>1 DEF check_passes, At, Goto
      <4> QED
        BY <4>1 DEF HeldBy, At
    <3>2. CASE ~check_passes(c)
      <4>1. pc'[c] \notin {"waiting", "checking", "using"}
        BY <1>1, <1>t, <3>2 DEF getconn, getconn_timeout, getconn_refused, check_fails,
             check_interrupted, backoff, putconn, _putconn, _return_connection,
             _add_to_pool_early, CloseCur, At, Goto, After, AfterPut
      <4> QED
        BY <4>1 DEF HeldBy, At
    <3> QED
      BY <3>1, <3>2
  <2> QED
    BY <2>1, <2>2, <2>4, <2>5, ClientReleases
<1>2. ASSUME NEW c \in Clients, ClientStep(c)
      PROVE  Serves
  BY <1>1, <1>2, <1>t, Joins, BreaksOff, Ends, Takes, GivesBack
     DEF ClientStep, Request, Return
<1>3. ASSUME NEW w \in Workers, WorkerStep(w)
      PROVE  Serves
  <2>1. CASE _add_to_pool(w)
    BY <2>1, GivesBack DEF Threads
  <2>2. CASE ~_add_to_pool(w)
    <3>1. UNCHANGED <<waiting, slot, pos>>
      BY <1>3, <2>2 DEF WorkerStep, Work, worker, _connect, _connect_fails,
           _add_connection_grow, _shrink_pool, _shrink_close, Return, _return_connection,
           _add_to_pool_early, queueVars, clientVars
    <3>2. UNCHANGED pc \/ \E l : pc' = [pc EXCEPT ![w] = l]
      BY <1>3, <2>2 DEF WorkerStep, Work, worker, _connect, _connect_fails,
           _add_connection_grow, _shrink_pool, _shrink_close, Return, _return_connection,
           _add_to_pool_early, CloseCur, Goto
    <3>3. UNCHANGED cur \/ \E x : cur' = [cur EXCEPT ![w] = x]
      BY <1>3, <2>2 DEF WorkerStep, Work, worker, _connect, _connect_fails,
           _add_connection_grow, _shrink_pool, _shrink_close, Return, _return_connection,
           _add_to_pool_early, CloseCur, Replace
    <3>4. \A c \in Clients : pc'[c] = pc[c] /\ cur'[c] = cur[c]
      BY <1>d, <1>t, <3>2, <3>3
    <3> QED
      BY <3>1, <3>4, NoClient
  <2> QED
    BY <2>1, <2>2
<1>4. ASSUME NEW a \in Admins, AdminStep(a)
      PROVE  Serves
  <2>1. CASE _add_to_pool(a)
    BY <2>1, GivesBack DEF Threads
  <2>2. CASE close_lock(a) \/ close_fail(a)
    BY <2>2, ShutsDown, Fails
  <2>3. CASE ~_add_to_pool(a) /\ ~close_lock(a) /\ ~close_fail(a)
    <3>1. UNCHANGED <<waiting, slot, pos>>
      BY <1>4, <2>3 DEF AdminStep, Administer, close, close_conns, check, check_next,
           resize, resize_lock, resize_run, wait, wait_lock, wait_ends, Return,
           _return_connection, _add_to_pool_early, queueVars, clientVars
    <3>2. UNCHANGED pc \/ \E l : pc' = [pc EXCEPT ![a] = l]
      BY <1>4, <2>3 DEF AdminStep, Administer, close, close_conns, check, check_next,
           resize, resize_lock, resize_run, wait, wait_lock, wait_ends, Return,
           _return_connection, _add_to_pool_early, CloseCur, Goto
    <3>3. UNCHANGED cur \/ \E x : cur' = [cur EXCEPT ![a] = x]
      BY <1>4, <2>3 DEF AdminStep, Administer, close, close_conns, check, check_next,
           resize, resize_lock, resize_run, wait, wait_lock, wait_ends, Return,
           _return_connection, _add_to_pool_early, CloseCur, Replace
    <3>4. \A c \in Clients : pc'[c] = pc[c] /\ cur'[c] = cur[c]
      BY <1>d, <1>t, <3>2, <3>3
    <3> QED
      BY <3>1, <3>4, NoClient
  <2> QED
    BY <2>1, <2>2, <2>3
<1>5. CASE open \/ (\E k \in DelayedKinds : tick(k)) \/ UNCHANGED vars
  <2>1. /\ UNCHANGED <<waiting, slot, pos, cur>>
        /\ UNCHANGED pc \/ pc' = [t \in Threads |-> IF t \in Workers THEN "idle" ELSE pc[t]]
    BY <1>5 DEF open, tick, vars, queueVars, clientVars
  <2>2. \A c \in Clients : pc'[c] = pc[c] /\ cur'[c] = cur[c]
    BY <1>d, <1>t, <2>1
  <2> QED
    BY <2>1, <2>2, NoClient
<1> QED
  BY <1>2, <1>3, <1>4, <1>5 DEF Next

\* The pool starts like the service.
LEMMA ServiceInit == Init => Service!Init
<1> SUFFICES ASSUME Init
             PROVE  Service!Init
  OBVIOUS
<1>1. AbstractQueue = {} /\ AbstractAhead = [c \in Clients |-> {}]
  <2>1. waiting = <<>>
    BY DEF Init
  <2>2. AbstractQueue = {} /\ \A c \in Clients : AbstractAhead[c] = {}
    BY <2>1 DEF AbstractQueue, AbstractAhead
  <2>3. AbstractAhead = [c \in Clients |-> AbstractAhead[c]]
    BY DEF AbstractAhead
  <2> QED
    BY <2>2, <2>3, Zenon
<1>2. \A c \in Clients : HeldBy(c) = NoConn
  BY ThreadsAssumption DEF Init, HeldBy, At, Threads
<1>3. AbstractHeld = [c \in Clients |-> NoConn]
  BY <1>2 DEF AbstractHeld
<1> QED
  BY <1>1, <1>3 DEF Service!Init

\* The pool serves its clients in order: one client per connection, queued
\* requests first come first served and ahead of any new one, whatever
\* timeouts, failures, returns, checks, growth and close() do meanwhile.
THEOREM ServesInOrderCorrect == Spec => ServesInOrder
<1>1. Init => ServiceInv
  <2>1. Init => QueueInv /\ HandOver /\ PosOnce
    BY DEF Init, QueueInv, NoIdleWhileWaiting, ClosedPoolEmpty, HandOver, EmptySlot, PosOnce
  <2> QED
    BY <2>1, TypeInit, SharingInit DEF ServiceInv
<1>2. ServiceInv /\ [Next]_vars => ServiceInv'
  BY TypeStep, QueueStep, HandOverStep, SharingStep, PosStep DEF ServiceInv
<1>3. ServiceInv /\ [Next]_vars => [Service!Next]_(Service!vars)
  BY ServiceStep DEF Serves
<1> QED
  BY <1>1, <1>2, <1>3, ServiceInit, PTL DEF Spec, ServesInOrder, Service!Spec
=============================================================================
