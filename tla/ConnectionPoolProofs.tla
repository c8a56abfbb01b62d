----------------------- MODULE ConnectionPoolProofs -----------------------
(***************************************************************************)
(* Theorems about ConnectionPool, for any number of threads, connections   *)
(* and queue positions and any configuration of the pool.                  *)
(*                                                                         *)
(*  - TypeCorrect: the type invariant, strengthened to TypeInv by what     *)
(*    each place of a thread says of its local variables;                  *)
(*  - QueueCorrect: no connection is idle while a request is queued, and a *)
(*    closed pool is empty;                                                *)
(*  - HandOverCorrect: a connection given to a queue position reaches the  *)
(*    client that waits there.                                             *)
(***************************************************************************)
EXTENDS ConnectionPool, FiniteSetTheorems, TLAPS

-----------------------------------------------------------------------------
(* Types                                                                    *)

\* A thread in one of these places holds a connection.
Holding == {"checking", "using", "putconn", "returning", "add_check",
            "add_lock", "shrunk"}
ThreadsHeld == \A t \in Threads : pc[t] \in Holding => cur[t] \in Conns

\* A waiting client has a position.
WaitersHeld == \A c \in Clients : pc[c] = "waiting" => pos[c] \in Positions

\* A ReturnConnection carries a connection.
GoodTasks(s) == /\ s \in Seq(Task)
                /\ \A i \in DOMAIN s : s[i].kind = "return" => s[i].conn \in Conns
TasksHeld == GoodTasks(tasks)

\* Only resize() gets to its critical section.
ResizersOnly == \A a \in Admins : pc[a] = "resize_lock" => a \in Resizers

\* The inductive invariant.
TypeInv == /\ TypeOK /\ ThreadsHeld /\ WaitersHeld /\ TasksHeld
           /\ ResizersOnly

\* Every task the pool makes is a task of its kind.
LEMMA NewTask ==
  /\ \A g \in BOOLEAN : AddConnection(g) \in Task /\ AddConnection(g).kind = "add"
  /\ \A x \in Conns : ReturnConnection(x) \in Task /\ ReturnConnection(x).conn = x
  /\ \A k \in {"shrink", "schedule", "stop"} :
       Simple(k) \in Task /\ Simple(k).kind = k
  /\ \A k \in DelayedKinds : Delayed(k) \in Task /\ Delayed(k).kind # "return"
  BY DEF Task, AddConnection, ReturnConnection, RetryConnection, Simple, Delayed, DelayedKinds

\* run_task keeps the queue well formed.
LEMMA RunTask ==
  ASSUME TasksHeld, NEW t \in Task, run_task(t) \/ UNCHANGED tasks,
         t.kind = "return" => t.conn \in Conns
  PROVE  TasksHeld'
  BY DEF run_task, TasksHeld, GoodTasks

\* So does adding several tasks.
LEMMA ConcatTasks ==
  ASSUME NEW s, NEW u, GoodTasks(s), GoodTasks(u)
  PROVE  GoodTasks(s \o u)
<1>1. s \o u \in Seq(Task) /\ Len(s \o u) = Len(s) + Len(u)
  BY DEF GoodTasks
<1>2. \A i \in 1..(Len(s) + Len(u)) :
         (s \o u)[i] = IF i <= Len(s) THEN s[i] ELSE u[i - Len(s)]
  BY DEF GoodTasks
<1>3. ASSUME NEW i \in DOMAIN (s \o u), (s \o u)[i].kind = "return"
      PROVE  (s \o u)[i].conn \in Conns
  <2>1. i \in 1..(Len(s) + Len(u))
    BY <1>1
  <2>2. CASE i <= Len(s)
    <3>1. i \in DOMAIN s
      BY <2>1, <2>2 DEF GoodTasks
    <3> QED
      BY <3>1, <2>1, <2>2, <1>2, <1>3 DEF GoodTasks
  <2>3. CASE i > Len(s)
    <3>1. i - Len(s) \in DOMAIN u
      BY <2>1, <2>3 DEF GoodTasks
    <3> QED
      BY <3>1, <2>1, <2>3, <1>2, <1>3 DEF GoodTasks
  <2> QED
    BY <2>1, <2>2, <2>3 DEF GoodTasks
<1> QED
  BY <1>1, <1>3 DEF GoodTasks

\* Copies of a task other than ReturnConnection are well formed.
LEMMA CopiedTasks ==
  ASSUME NEW n \in Int, NEW t \in Task, t.kind # "return"
  PROVE  GoodTasks([i \in 1..n |-> t])
<1> DEFINE m == IF n >= 0 THEN n ELSE 0
<1>1. m \in Nat /\ 1..n = 1..m
  OBVIOUS
<1>2. [i \in 1..m |-> t] \in Seq(Task)
  BY <1>1
<1> QED
  BY <1>1, <1>2 DEF GoodTasks

\* Setting a field of a WaitingClient keeps its type.
LEMMA SlotUpdate ==
  ASSUME NEW s \in [Positions -> Slot], NEW p \in Positions,
         NEW x \in Conns \cup {NoConn},
         NEW e \in {"none", "timeout", "interrupt", "closed"}
  PROVE  /\ [s EXCEPT ![p].conn = x] \in [Positions -> Slot]
         /\ [s EXCEPT ![p].error = e] \in [Positions -> Slot]
<1>1. s[p] \in Slot
  OBVIOUS
<1>2. [s[p] EXCEPT !.conn = x] \in Slot /\ [s[p] EXCEPT !.error = e] \in Slot
  BY <1>1 DEF Slot
<1>3. /\ [s EXCEPT ![p].conn = x] = [s EXCEPT ![p] = [s[p] EXCEPT !.conn = x]]
      /\ [s EXCEPT ![p].error = e] = [s EXCEPT ![p] = [s[p] EXCEPT !.error = e]]
  OBVIOUS
<1> QED
  BY <1>2, <1>3


\* getconn(), the unlocked test of _closed: types are kept.
LEMMA Type_getconn ==
  ASSUME TypeInv, NEW c \in Clients, getconn(c)
  PROVE  TypeInv'
<1> USE DEF TypeInv, TypeOK, getconn, At, Goto,
            flagVars, sizeVars, growVars, taskVars, queueVars, clientVars,
            adminVars
<1>1. c \in Threads
  BY DEF Threads
<1>2. pc' \in [Threads -> Labels]
  BY <1>1 DEF Labels
<1>3. TasksHeld'
  BY DEF TasksHeld
<1>4. TypeOK'
  BY <1>2, <1>3 DEF TasksHeld, GoodTasks
<1>5. ThreadsHeld'
  BY <1>1 DEF ThreadsHeld, Holding
<1>6. WaitersHeld'
  BY <1>1 DEF WaitersHeld, Threads
<1>7. ResizersOnly'
  BY <1>1 DEF ResizersOnly, Threads
<1> QED
  BY <1>3, <1>4, <1>5, <1>6, <1>7

\* getconn() with its deadline past: types are kept.
LEMMA Type_getconn_timeout ==
  ASSUME TypeInv, NEW c \in Clients, getconn_timeout(c)
  PROVE  TypeInv'
<1> USE DEF TypeInv, TypeOK, getconn_timeout, At, Goto,
            flagVars, sizeVars, growVars, taskVars, queueVars, clientVars,
            adminVars
<1>1. c \in Threads
  BY DEF Threads
<1>2. pc' \in [Threads -> Labels]
  BY <1>1 DEF Labels
<1>3. TasksHeld'
  BY DEF TasksHeld
<1>4. TypeOK'
  BY <1>2, <1>3 DEF TasksHeld, GoodTasks
<1>5. ThreadsHeld'
  BY <1>1 DEF ThreadsHeld, Holding
<1>6. WaitersHeld'
  BY <1>1 DEF WaitersHeld, Threads
<1>7. ResizersOnly'
  BY <1>1 DEF ResizersOnly, Threads
<1> QED
  BY <1>3, <1>4, <1>5, <1>6, <1>7

\* getconn() with a full queue: types are kept.
LEMMA Type_getconn_refused ==
  ASSUME TypeInv, NEW c \in Clients, getconn_refused(c)
  PROVE  TypeInv'
<1> USE DEF TypeInv, TypeOK, getconn_refused, At, Goto,
            flagVars, sizeVars, growVars, taskVars, queueVars, clientVars,
            adminVars
<1>1. c \in Threads
  BY DEF Threads
<1>2. pc' \in [Threads -> Labels]
  BY <1>1 DEF Labels
<1>3. TasksHeld'
  BY DEF TasksHeld
<1>4. TypeOK'
  BY <1>2, <1>3 DEF TasksHeld, GoodTasks
<1>5. ThreadsHeld'
  BY <1>1 DEF ThreadsHeld, Holding
<1>6. WaitersHeld'
  BY <1>1 DEF WaitersHeld, Threads
<1>7. ResizersOnly'
  BY <1>1 DEF ResizersOnly, Threads
<1> QED
  BY <1>3, <1>4, <1>5, <1>6, <1>7

\* getconn() with a connection ready: types are kept.
LEMMA Type_get_ready ==
  ASSUME TypeInv, NEW c \in Clients, _get_ready_connection(c)
  PROVE  TypeInv'
<1> USE DEF TypeInv, TypeOK, _get_ready_connection, At, Goto,
            flagVars, sizeVars, growVars, taskVars, queueVars, clientVars,
            adminVars
<1>1. c \in Threads
  BY DEF Threads
<1>2. Head(pool) \in Conns
  OBVIOUS
<1>3. pool' \in Seq(Conns)
  BY <1>2
<1>4. nconns_min' \in Nat
  BY DEF NewMin
<1>5. pc' \in [Threads -> Labels]
  BY DEF Labels
<1>6. cur' \in [Threads -> Conns \cup {NoConn}]
  BY <1>2
<1>7. TasksHeld'
  BY DEF TasksHeld
<1>8. TypeOK'
  BY <1>3, <1>4, <1>5, <1>6, <1>7 DEF TasksHeld, GoodTasks
<1>9. ThreadsHeld'
  BY <1>1, <1>2 DEF ThreadsHeld, Holding
<1>10. WaitersHeld'
  BY <1>1, <1>2 DEF WaitersHeld, Threads
<1>11. ResizersOnly'
  BY <1>1, <1>2 DEF ResizersOnly, Threads
<1> QED
  BY <1>7, <1>8, <1>9, <1>10, <1>11

\* getconn() joining the queue: types are kept.
LEMMA Type_enqueue ==
  ASSUME TypeInv, NEW c \in Clients, getconn_enqueue(c)
  PROVE  TypeInv'
<1> USE DEF TypeInv, TypeOK, getconn_enqueue, At, Goto,
            flagVars, sizeVars, growVars, taskVars, queueVars, clientVars,
            adminVars
<1>1. c \in Threads
  BY DEF Threads
<1>2. nconns' = nconns + 1 \/ nconns' = nconns
  BY DEF _maybe_grow_pool
<1>3. waiting' \in Seq(Positions)
  BY DEF FreshPos
<1>4. slot' \in [Positions -> Slot]
  BY DEF EmptySlot, Slot, FreshPos, NoConn
<1>5. pos' \in [Clients -> Positions \cup {NoPos}]
  BY DEF FreshPos
<1>6. nconns' \in Int
  BY <1>2
<1>7. growing' \in BOOLEAN
  BY DEF _maybe_grow_pool
<1>8. TasksHeld'
  BY <1>1, NewTask, RunTask DEF _maybe_grow_pool, TasksHeld
<1>9. pc' \in [Threads -> Labels]
  BY DEF Labels
<1>10. TypeOK'
  BY <1>3, <1>4, <1>5, <1>6, <1>7, <1>9, <1>8 DEF TasksHeld, GoodTasks
<1>11. ThreadsHeld'
  BY <1>1 DEF ThreadsHeld, Holding, FreshPos
<1>12. WaitersHeld'
  BY <1>1 DEF WaitersHeld, Threads, FreshPos
<1>13. ResizersOnly'
  BY <1>1 DEF ResizersOnly, Threads, FreshPos
<1> QED
  BY <1>8, <1>10, <1>11, <1>12, <1>13

\* A broken wait: types are kept.
LEMMA Type_wait_broken ==
  ASSUME TypeInv, NEW c \in Clients, wait_broken(c)
  PROVE  TypeInv'
<1> USE DEF TypeInv, TypeOK, wait_broken, At, Goto,
            flagVars, sizeVars, growVars, taskVars, queueVars, clientVars,
            adminVars
<1>1. c \in Threads
  BY DEF Threads
<1>2. pos[c] \in Positions
  BY <1>1 DEF WaitersHeld
<1>3. PICK e \in {"timeout", "interrupt"} : slot' = [slot EXCEPT ![pos[c]].error = e]
  OBVIOUS
<1>4. slot' \in [Positions -> Slot]
  BY <1>3, SlotUpdate
<1>5. TasksHeld'
  BY DEF TasksHeld
<1>6. TypeOK'
  BY <1>4, <1>5 DEF TasksHeld, GoodTasks
<1>7. ThreadsHeld'
  BY <1>1, <1>2, <1>3 DEF ThreadsHeld, Holding
<1>8. WaitersHeld'
  BY <1>1, <1>2, <1>3 DEF WaitersHeld, Threads
<1>9. ResizersOnly'
  BY <1>1, <1>2, <1>3 DEF ResizersOnly, Threads
<1> QED
  BY <1>5, <1>6, <1>7, <1>8, <1>9

\* The end of a wait: types are kept.
LEMMA Type_wait_returns ==
  ASSUME TypeInv, NEW c \in Clients, wait_returns(c)
  PROVE  TypeInv'
<1> USE DEF TypeInv, TypeOK, wait_returns, At, Goto,
            flagVars, sizeVars, growVars, taskVars, queueVars, clientVars,
            adminVars
<1>1. c \in Threads
  BY DEF Threads
<1>2. pos[c] \in Positions
  BY <1>1 DEF WaitersHeld
<1>3. slot' \in [Positions -> Slot]
  BY SlotUpdate DEF NoConn
<1>4. cur' \in [Threads -> Conns \cup {NoConn}]
  BY DEF WaitersHeld, WaitResult, Slot
<1>5. pos' \in [Clients -> Positions \cup {NoPos}]
  BY <1>2 DEF NoPos
<1>6. pc' \in [Threads -> Labels]
  BY DEF Labels
<1>7. TasksHeld'
  BY DEF TasksHeld
<1>8. TypeOK'
  BY <1>3, <1>4, <1>5, <1>6, <1>7 DEF TasksHeld, GoodTasks
<1>9. ThreadsHeld'
  BY <1>1, <1>2 DEF ThreadsHeld, Holding, WaitResult, NoConn, Slot
<1>10. WaitersHeld'
  BY <1>1, <1>2 DEF WaitersHeld, Threads, WaitResult, NoConn, Slot
<1>11. ResizersOnly'
  BY <1>1, <1>2 DEF ResizersOnly, Threads, WaitResult, NoConn, Slot
<1> QED
  BY <1>7, <1>8, <1>9, <1>10, <1>11

\* A successful check: types are kept.
LEMMA Type_check_passes ==
  ASSUME TypeInv, NEW c \in Clients, check_passes(c)
  PROVE  TypeInv'
<1> USE DEF TypeInv, TypeOK, check_passes, At, Goto,
            flagVars, sizeVars, growVars, taskVars, queueVars, clientVars,
            adminVars
<1>1. c \in Threads
  BY DEF Threads
<1>2. pc' \in [Threads -> Labels]
  BY <1>1 DEF Labels
<1>3. TasksHeld'
  BY DEF TasksHeld
<1>4. TypeOK'
  BY <1>2, <1>3 DEF TasksHeld, GoodTasks
<1>5. ThreadsHeld'
  BY <1>1 DEF ThreadsHeld, Holding
<1>6. WaitersHeld'
  BY <1>1 DEF WaitersHeld, Threads
<1>7. ResizersOnly'
  BY <1>1 DEF ResizersOnly, Threads
<1> QED
  BY <1>3, <1>4, <1>5, <1>6, <1>7

\* A failed check: types are kept.
LEMMA Type_check_fails ==
  ASSUME TypeInv, NEW c \in Clients, check_fails(c)
  PROVE  TypeInv'
<1> USE DEF TypeInv, TypeOK, check_fails, At, Goto,
            flagVars, sizeVars, growVars, taskVars, queueVars, clientVars,
            adminVars
<1>1. c \in Threads
  BY DEF Threads
<1>2. pc' \in [Threads -> Labels]
  BY <1>1 DEF Labels
<1>3. fromget' \in [Clients -> BOOLEAN]
  BY <1>1
<1>4. status' \in [Conns -> {"UNKNOWN", "IDLE", "INTRANS", "ACTIVE"}]
  BY <1>1 DEF LeftIn
<1>5. TasksHeld'
  BY DEF TasksHeld
<1>6. TypeOK'
  BY <1>2, <1>3, <1>4, <1>5 DEF TasksHeld, GoodTasks
<1>7. ThreadsHeld'
  BY <1>1 DEF ThreadsHeld, Holding
<1>8. WaitersHeld'
  BY <1>1 DEF WaitersHeld, Threads
<1>9. ResizersOnly'
  BY <1>1 DEF ResizersOnly, Threads
<1> QED
  BY <1>5, <1>6, <1>7, <1>8, <1>9

\* An interrupted check: types are kept.
LEMMA Type_check_interrupted ==
  ASSUME TypeInv, NEW c \in Clients, check_interrupted(c)
  PROVE  TypeInv'
<1> USE DEF TypeInv, TypeOK, check_interrupted, At, Goto,
            flagVars, sizeVars, growVars, taskVars, queueVars, clientVars,
            adminVars
<1>1. c \in Threads
  BY DEF Threads
<1>2. pc' \in [Threads -> Labels]
  BY <1>1 DEF Labels
<1>3. cur' \in [Threads -> Conns \cup {NoConn}]
  BY <1>1
<1>4. status' \in [Conns -> {"UNKNOWN", "IDLE", "INTRANS", "ACTIVE"}]
  BY <1>1
<1>5. TasksHeld'
  BY DEF TasksHeld
<1>6. TypeOK'
  BY <1>2, <1>3, <1>4, <1>5 DEF TasksHeld, GoodTasks
<1>7. ThreadsHeld'
  BY <1>1 DEF ThreadsHeld, Holding
<1>8. WaitersHeld'
  BY <1>1 DEF WaitersHeld, Threads
<1>9. ResizersOnly'
  BY <1>1 DEF ResizersOnly, Threads
<1> QED
  BY <1>5, <1>6, <1>7, <1>8, <1>9

\* The pause after a failed check: types are kept.
LEMMA Type_backoff ==
  ASSUME TypeInv, NEW c \in Clients, backoff(c)
  PROVE  TypeInv'
<1> USE DEF TypeInv, TypeOK, backoff, At, Goto,
            flagVars, sizeVars, growVars, taskVars, queueVars, clientVars,
            adminVars
<1>1. c \in Threads
  BY DEF Threads
<1>2. pc' \in [Threads -> Labels]
  BY <1>1, ZenonT(40) DEF Labels
<1>3. fromget' \in [Clients -> BOOLEAN]
  BY <1>1
<1>4. TasksHeld'
  BY DEF TasksHeld
<1>5. TypeOK'
  BY <1>2, <1>3, <1>4 DEF TasksHeld, GoodTasks
<1>6. ThreadsHeld'
  BY <1>1 DEF ThreadsHeld, Holding
<1>7. WaitersHeld'
  BY <1>1 DEF WaitersHeld, Threads
<1>8. ResizersOnly'
  BY <1>1 DEF ResizersOnly, Threads
<1> QED
  BY <1>4, <1>5, <1>6, <1>7, <1>8

\* putconn(): types are kept.
LEMMA Type_putconn ==
  ASSUME TypeInv, NEW c \in Clients, putconn(c)
  PROVE  TypeInv'
<1> USE DEF TypeInv, TypeOK, putconn, At, Goto,
            flagVars, sizeVars, growVars, taskVars, queueVars, clientVars,
            adminVars
<1>1. c \in Threads
  BY DEF Threads
<1>2. pc' \in [Threads -> Labels]
  BY <1>1, ZenonT(40) DEF Labels
<1>3. cur' \in [Threads -> Conns \cup {NoConn}]
  BY <1>1
<1>4. status' \in [Conns -> {"UNKNOWN", "IDLE", "INTRANS", "ACTIVE"}]
  BY <1>1 DEF LeftIn
<1>5. TasksHeld'
  BY DEF TasksHeld
<1>6. TypeOK'
  BY <1>2, <1>3, <1>4, <1>5 DEF TasksHeld, GoodTasks
<1>7. ThreadsHeld'
  BY <1>1 DEF ThreadsHeld, Holding
<1>8. WaitersHeld'
  BY <1>1 DEF WaitersHeld, Threads
<1>9. ResizersOnly'
  BY <1>1 DEF ResizersOnly, Threads
<1> QED
  BY <1>5, <1>6, <1>7, <1>8, <1>9

\* _putconn(): types are kept.
LEMMA Type_put ==
  ASSUME TypeInv, NEW c \in Clients, _putconn(c)
  PROVE  TypeInv'
<1> USE DEF TypeInv, TypeOK, _putconn, At, Goto,
            flagVars, sizeVars, growVars, taskVars, queueVars, clientVars,
            adminVars
<1>1. c \in Threads
  BY DEF Threads
<1>2. cur[c] \in Conns
  BY <1>1 DEF ThreadsHeld, Holding
<1>3. pc' \in [Threads -> Labels]
  BY ZenonT(40) DEF Labels, AfterPut
<1>4. cur' \in [Threads -> Conns \cup {NoConn}]
  BY <1>2
<1>5. TasksHeld'
  <2>1. run_task(ReturnConnection(cur[c])) \/ UNCHANGED tasks
    OBVIOUS
  <2> HIDE DEF _putconn
  <2> QED
    BY <1>2, <2>1, NewTask, RunTask
<1>6. TypeOK'
  BY <1>3, <1>4, <1>5 DEF TasksHeld, GoodTasks
<1>7. ThreadsHeld'
  BY <1>1, <1>2 DEF ThreadsHeld, Holding, AfterPut
<1>8. WaitersHeld'
  BY <1>1, <1>2 DEF WaitersHeld, Threads, AfterPut
<1>9. ResizersOnly'
  BY <1>1, <1>2 DEF ResizersOnly, Threads, AfterPut
<1> QED
  BY <1>5, <1>6, <1>7, <1>8, <1>9

\* _return_connection(): types are kept.
LEMMA Type_return ==
  ASSUME TypeInv, NEW t \in Threads, _return_connection(t)
  PROVE  TypeInv'
<1> USE DEF TypeInv, TypeOK, _return_connection, At, Goto,
            flagVars, sizeVars, growVars, taskVars, queueVars, clientVars,
            adminVars
<1>1. cur[t] \in Conns
  BY DEF ThreadsHeld, Holding
<1>2. pc' \in [Threads -> Labels]
  BY <1>1, ZenonT(40) DEF Labels, After, AfterPut
<1>3. cur' \in [Threads -> Conns \cup {NoConn}]
  BY <1>1 DEF Replace
<1>4. status' \in [Conns -> {"UNKNOWN", "IDLE", "INTRANS", "ACTIVE"}]
  BY <1>1 DEF ResetStatus
<1>5. TasksHeld'
  <2>1. run_task(AddConnection(FALSE)) \/ UNCHANGED tasks
    BY DEF Replace
  <2> HIDE DEF _return_connection
  <2> QED
    BY <2>1, NewTask, RunTask
<1>6. TypeOK'
  BY <1>2, <1>3, <1>4, <1>5 DEF TasksHeld, GoodTasks
<1>7. ThreadsHeld'
  <2>1. \/ pc' = [pc EXCEPT ![t] = After(t)] /\ cur' = [cur EXCEPT ![t] = NoConn]
        \/ pc' = [pc EXCEPT ![t] = "add_check"] /\ cur' = cur
    BY DEF Replace
  <2>2. After(t) \notin Holding
    BY DEF After, AfterPut, Holding
  <2> HIDE DEF _return_connection
  <2> QED
    BY <1>1, <2>1, <2>2 DEF ThreadsHeld, Holding
<1>8. WaitersHeld'
  BY <1>1 DEF WaitersHeld, Threads, After, AfterPut, Replace
<1>9. ResizersOnly'
  BY <1>1 DEF ResizersOnly, Threads, After, AfterPut, Replace
<1> QED
  BY <1>5, <1>6, <1>7, <1>8, <1>9

\* _add_to_pool() before its lock: types are kept.
LEMMA Type_add_early ==
  ASSUME TypeInv, NEW t \in Threads, _add_to_pool_early(t)
  PROVE  TypeInv'
<1> USE DEF TypeInv, TypeOK, _add_to_pool_early, At, Goto,
            flagVars, sizeVars, growVars, taskVars, queueVars, clientVars,
            adminVars
<1>1. cur[t] \in Conns
  BY DEF ThreadsHeld, Holding
<1>2. pc' \in [Threads -> Labels]
  BY <1>1, ZenonT(40) DEF Labels, CloseCur, After, AfterPut
<1>3. cur' \in [Threads -> Conns \cup {NoConn}]
  BY <1>1 DEF CloseCur
<1>4. status' \in [Conns -> {"UNKNOWN", "IDLE", "INTRANS", "ACTIVE"}]
  BY <1>1 DEF CloseCur
<1>5. TasksHeld'
  BY DEF TasksHeld
<1>6. TypeOK'
  BY <1>2, <1>3, <1>4, <1>5 DEF TasksHeld, GoodTasks
<1>7. ThreadsHeld'
  BY <1>1 DEF ThreadsHeld, Holding, CloseCur, After, AfterPut
<1>8. WaitersHeld'
  BY <1>1 DEF WaitersHeld, Threads, CloseCur, After, AfterPut
<1>9. ResizersOnly'
  BY <1>1 DEF ResizersOnly, Threads, CloseCur, After, AfterPut
<1> QED
  BY <1>5, <1>6, <1>7, <1>8, <1>9

\* _add_to_pool() in its lock: types are kept.
LEMMA Type_add_to_pool ==
  ASSUME TypeInv, NEW t \in Threads, _add_to_pool(t)
  PROVE  TypeInv'
<1> USE DEF TypeInv, TypeOK, _add_to_pool, At, Goto,
            flagVars, sizeVars, growVars, taskVars, queueVars, clientVars,
            adminVars
<1>1. cur[t] \in Conns
  BY DEF ThreadsHeld, Holding
<1>2. Append(pool, cur[t]) \in Seq(Conns)
  BY <1>1
<1>3. \A i \in DOMAIN waiting : /\ waiting[i] \in Positions
                               /\ SubSeq(waiting, i + 1, Len(waiting)) \in Seq(Positions)
  OBVIOUS
<1>4. pool' = pool \/ pool' = Append(pool, cur[t])
  BY DEF Serve
<1>5. \/ waiting' = waiting \/ waiting' = <<>>
      \/ \E i \in DOMAIN waiting : waiting' = SubSeq(waiting, i + 1, Len(waiting))
  BY DEF Serve
<1>6. \/ slot' = slot
      \/ \E i \in DOMAIN waiting : slot' = [slot EXCEPT ![waiting[i]].conn = cur[t]]
  BY DEF Serve
<1>7. pc' \in [Threads -> Labels]
  BY DEF Labels, CloseCur, After, AfterPut
<1>8. cur' \in [Threads -> Conns \cup {NoConn}]
  BY <1>1, <1>2, <1>4, <1>6 DEF CloseCur
<1>9. status' \in [Conns -> {"UNKNOWN", "IDLE", "INTRANS", "ACTIVE"}]
  BY DEF CloseCur
<1>10. pool' \in Seq(Conns)
  <2> HIDE DEF _add_to_pool
  <2> QED
    BY <1>2, <1>4
<1>11. waiting' \in Seq(Positions)
  <2> HIDE DEF _add_to_pool
  <2>1. CASE waiting' = waiting
    BY <2>1
  <2>0. CASE waiting' = <<>>
    <3> HIDE DEF TypeInv, TypeOK
    <3> QED
      BY <2>0
  <2>2. ASSUME NEW i \in DOMAIN waiting,
               waiting' = SubSeq(waiting, i + 1, Len(waiting))
        PROVE  waiting' \in Seq(Positions)
    BY <1>3, <2>2
  <2> QED
    BY <1>5, <2>0, <2>1, <2>2
<1>12. slot' \in [Positions -> Slot]
  <2> HIDE DEF _add_to_pool
  <2>1. CASE slot' = slot
    BY <2>1
  <2>2. ASSUME NEW i \in DOMAIN waiting,
               slot' = [slot EXCEPT ![waiting[i]].conn = cur[t]]
        PROVE  slot' \in [Positions -> Slot]
    <3>1. waiting[i] \in Positions
      BY <1>3
    <3> QED
      BY <1>1, <2>2, <3>1, SlotUpdate
  <2> QED
    BY <1>6, <2>1, <2>2
<1>13. full_event' \in {"none", "unset", "set"}
  BY DEF Serve, Notify
<1>14. TasksHeld'
  BY DEF TasksHeld
<1>15. TypeOK'
  BY <1>7, <1>8, <1>9, <1>10, <1>11, <1>12, <1>13, <1>14 DEF TasksHeld, GoodTasks
<1>16. ThreadsHeld'
  <2>1. pc' = [pc EXCEPT ![t] = After(t)] /\ cur' = [cur EXCEPT ![t] = NoConn]
    BY DEF CloseCur
  <2>2. After(t) \notin Holding
    BY DEF After, AfterPut, Holding
  <2> HIDE DEF _add_to_pool
  <2> QED
    BY <2>1, <2>2 DEF ThreadsHeld, Holding
<1>17. WaitersHeld'
  BY <1>1, <1>2, <1>4, <1>6 DEF WaitersHeld, Threads, CloseCur, After, AfterPut
<1>18. ResizersOnly'
  BY <1>1, <1>2, <1>4, <1>6 DEF ResizersOnly, Threads, CloseCur, After, AfterPut
<1> QED
  BY <1>14, <1>15, <1>16, <1>17, <1>18

\* A worker takes a task: types are kept.
LEMMA Type_worker ==
  ASSUME TypeInv, NEW w \in Workers, worker(w)
  PROVE  TypeInv'
<1> USE DEF TypeInv, TypeOK, worker, At, Goto,
            flagVars, sizeVars, growVars, taskVars, queueVars, clientVars,
            adminVars
<1>1. w \in Threads
  BY DEF Threads
<1>2. Head(tasks) \in Task /\ Tail(tasks) \in Seq(Task)
  OBVIOUS
<1>3. Head(tasks).kind = "return" => Head(tasks).conn \in Conns
  BY DEF TasksHeld, GoodTasks
<1>4. \/ job' = job
      \/ job' = [job EXCEPT ![w] = Job(Head(tasks).growing, Head(tasks).retry)]
  OBVIOUS
<1>5. Job(Head(tasks).growing, Head(tasks).retry) \in [growing: BOOLEAN, retry: BOOLEAN]
  BY <1>2 DEF Job, Task
<1>6. pc' \in [Threads -> Labels]
  BY ZenonT(40) DEF Labels
<1>7. cur' \in [Threads -> Conns \cup {NoConn}]
  BY <1>2 DEF Task
<1>8. status' \in [Conns -> {"UNKNOWN", "IDLE", "INTRANS", "ACTIVE"}]
  OBVIOUS
<1>9. sched' \in [DelayedKinds -> Nat]
  BY DEF schedule_task, DelayedKinds
<1>10. job' \in [Workers -> [growing: BOOLEAN, retry: BOOLEAN]]
  BY <1>4, <1>5
<1>11. TasksHeld'
  BY <1>1, <1>2, <1>3, <1>4, <1>5 DEF TasksHeld, GoodTasks
<1>12. TypeOK'
  BY <1>6, <1>7, <1>8, <1>9, <1>10, <1>11 DEF TasksHeld, GoodTasks
<1>13. ThreadsHeld'
  BY <1>1, <1>2, <1>3, <1>4, <1>5, ZenonT(40) DEF ThreadsHeld, Holding, TasksHeld
<1>14. WaitersHeld'
  BY <1>1, <1>2, <1>3, <1>4, <1>5 DEF WaitersHeld, Threads, TasksHeld
<1>15. ResizersOnly'
  BY <1>1, <1>2, <1>3, <1>4, <1>5 DEF ResizersOnly, Threads, TasksHeld
<1> QED
  BY <1>11, <1>12, <1>13, <1>14, <1>15

\* A connection attempt succeeds: types are kept.
LEMMA Type_connect ==
  ASSUME TypeInv, NEW w \in Workers, _connect(w)
  PROVE  TypeInv'
<1> USE DEF TypeInv, TypeOK, _connect, At, Goto,
            flagVars, sizeVars, growVars, taskVars, queueVars, clientVars,
            adminVars
<1>1. w \in Threads
  BY DEF Threads
<1>2. pc' \in [Threads -> Labels]
  BY <1>1 DEF Labels
<1>3. cur' \in [Threads -> Conns \cup {NoConn}]
  BY <1>1 DEF Fresh
<1>4. status' \in [Conns -> {"UNKNOWN", "IDLE", "INTRANS", "ACTIVE"}]
  BY <1>1 DEF Fresh
<1>5. job' \in [Workers -> [growing: BOOLEAN, retry: BOOLEAN]]
  BY <1>1, ZenonT(40)
<1>6. TasksHeld'
  BY DEF TasksHeld
<1>7. TypeOK'
  BY <1>2, <1>3, <1>4, <1>5, <1>6 DEF TasksHeld, GoodTasks
<1>8. ThreadsHeld'
  BY <1>1 DEF ThreadsHeld, Holding, Fresh
<1>9. WaitersHeld'
  BY <1>1 DEF WaitersHeld, Threads, Fresh
<1>10. ResizersOnly'
  BY <1>1 DEF ResizersOnly, Threads, Fresh
<1> QED
  BY <1>6, <1>7, <1>8, <1>9, <1>10

\* A connection attempt fails: types are kept.
LEMMA Type_connect_fails ==
  ASSUME TypeInv, NEW w \in Workers, _connect_fails(w)
  PROVE  TypeInv'
<1> USE DEF TypeInv, TypeOK, _connect_fails, At, Goto,
            flagVars, sizeVars, growVars, taskVars, queueVars, clientVars,
            adminVars
<1>1. w \in Threads
  BY DEF Threads
<1>2. pc' \in [Threads -> Labels]
  BY <1>1 DEF Labels
<1>3. sched' \in [DelayedKinds -> Nat]
  BY <1>1 DEF schedule_task, DelayedKinds
<1>4. nconns' \in Int
  BY <1>1
<1>5. growing' \in BOOLEAN
  BY <1>1
<1>6. job' \in [Workers -> [growing: BOOLEAN, retry: BOOLEAN]]
  BY <1>1 DEF NoJob, Job
<1>7. TasksHeld'
  BY DEF TasksHeld
<1>8. TypeOK'
  BY <1>2, <1>3, <1>4, <1>5, <1>6, <1>7 DEF TasksHeld, GoodTasks
<1>9. ThreadsHeld'
  BY <1>1 DEF ThreadsHeld, Holding
<1>10. WaitersHeld'
  BY <1>1 DEF WaitersHeld, Threads
<1>11. ResizersOnly'
  BY <1>1 DEF ResizersOnly, Threads
<1> QED
  BY <1>7, <1>8, <1>9, <1>10, <1>11

\* A growing task decides whether to go on: types are kept.
LEMMA Type_grow ==
  ASSUME TypeInv, NEW w \in Workers, _add_connection_grow(w)
  PROVE  TypeInv'
<1> USE DEF TypeInv, TypeOK, _add_connection_grow, At, Goto,
            flagVars, sizeVars, growVars, taskVars, queueVars, clientVars,
            adminVars
<1>1. w \in Threads
  BY DEF Threads
<1>2. nconns' = nconns + 1 \/ nconns' = nconns
  OBVIOUS
<1>3. pc' \in [Threads -> Labels]
  BY DEF Labels
<1>4. nconns' \in Int
  BY <1>2
<1>5. growing' \in BOOLEAN
  OBVIOUS
<1>6. job' \in [Workers -> [growing: BOOLEAN, retry: BOOLEAN]]
  BY DEF NoJob, Job
<1>7. TasksHeld'
  <2>1. run_task(AddConnection(TRUE)) \/ UNCHANGED tasks
    OBVIOUS
  <2> HIDE DEF _add_connection_grow
  <2> QED
    BY <2>1, NewTask, RunTask
<1>8. TypeOK'
  BY <1>3, <1>4, <1>5, <1>6, <1>7 DEF TasksHeld, GoodTasks
<1>9. ThreadsHeld'
  BY <1>1 DEF ThreadsHeld, Holding
<1>10. WaitersHeld'
  BY <1>1 DEF WaitersHeld, Threads
<1>11. ResizersOnly'
  BY <1>1 DEF ResizersOnly, Threads
<1> QED
  BY <1>7, <1>8, <1>9, <1>10, <1>11

\* _shrink_pool(): types are kept.
LEMMA Type_shrink_pool ==
  ASSUME TypeInv, NEW w \in Workers, _shrink_pool(w)
  PROVE  TypeInv'
<1> USE DEF TypeInv, TypeOK, _shrink_pool, At, Goto,
            flagVars, sizeVars, growVars, taskVars, queueVars, clientVars,
            adminVars
<1>1. w \in Threads
  BY DEF Threads
<1>2. pool # <<>> => Head(pool) \in Conns /\ Tail(pool) \in Seq(Conns)
  OBVIOUS
<1>3. \/ cur' = cur /\ pool' = pool /\ pc'[w] = "idle"
      \/ pool # <<>> /\ cur' = [cur EXCEPT ![w] = Head(pool)] /\ pool' = Tail(pool)
  BY <1>1 DEF CanShrink
<1>4. pc' \in [Threads -> Labels]
  BY <1>3, ZenonT(40) DEF Labels
<1>5. cur' \in [Threads -> Conns \cup {NoConn}]
  BY <1>2, <1>3
<1>6. pool' \in Seq(Conns)
  BY <1>2, <1>3
<1>7. nconns' \in Int
  OBVIOUS
<1>8. nconns_min' \in Nat
  BY DEF CanShrink
<1>9. TasksHeld'
  BY DEF TasksHeld
<1>10. TypeOK'
  BY <1>4, <1>5, <1>6, <1>7, <1>8, <1>9 DEF TasksHeld, GoodTasks
<1>11. ThreadsHeld'
  BY <1>1, <1>2, <1>3 DEF ThreadsHeld, Holding
<1>12. WaitersHeld'
  BY <1>1, <1>2, <1>3 DEF WaitersHeld, Threads
<1>13. ResizersOnly'
  BY <1>1, <1>2, <1>3 DEF ResizersOnly, Threads
<1> QED
  BY <1>9, <1>10, <1>11, <1>12, <1>13

\* _shrink_pool() closes what it took: types are kept.
LEMMA Type_shrink_close ==
  ASSUME TypeInv, NEW w \in Workers, _shrink_close(w)
  PROVE  TypeInv'
<1> USE DEF TypeInv, TypeOK, _shrink_close, At, Goto,
            flagVars, sizeVars, growVars, taskVars, queueVars, clientVars,
            adminVars
<1>1. w \in Threads
  BY DEF Threads
<1>2. pc' \in [Threads -> Labels]
  BY <1>1 DEF Labels
<1>3. cur' \in [Threads -> Conns \cup {NoConn}]
  BY <1>1
<1>4. status' \in [Conns -> {"UNKNOWN", "IDLE", "INTRANS", "ACTIVE"}]
  BY <1>1
<1>5. TasksHeld'
  BY DEF TasksHeld
<1>6. TypeOK'
  BY <1>2, <1>3, <1>4, <1>5 DEF TasksHeld, GoodTasks
<1>7. ThreadsHeld'
  BY <1>1 DEF ThreadsHeld, Holding
<1>8. WaitersHeld'
  BY <1>1 DEF WaitersHeld, Threads
<1>9. ResizersOnly'
  BY <1>1 DEF ResizersOnly, Threads
<1> QED
  BY <1>5, <1>6, <1>7, <1>8, <1>9

\* The scheduler runs a delayed task: types are kept.
LEMMA Type_tick ==
  ASSUME TypeInv, NEW k \in DelayedKinds, tick(k)
  PROVE  TypeInv'
<1> USE DEF TypeInv, TypeOK, tick, At, Goto,
            flagVars, sizeVars, growVars, taskVars, queueVars, clientVars,
            adminVars
<1>1. sched' \in [DelayedKinds -> Nat]
  OBVIOUS
<1>2. TasksHeld'
  <2>1. run_task(Delayed(k)) \/ UNCHANGED tasks
    OBVIOUS
  <2> HIDE DEF tick
  <2> QED
    BY <2>1, NewTask, RunTask
<1>3. TypeOK'
  BY <1>1, <1>2 DEF TasksHeld, GoodTasks
<1>4. ThreadsHeld'
  BY DEF ThreadsHeld, Holding
<1>5. WaitersHeld'
  BY DEF WaitersHeld, Threads
<1>6. ResizersOnly'
  BY DEF ResizersOnly, Threads
<1> QED
  BY <1>2, <1>3, <1>4, <1>5, <1>6

\* close(), the unlocked test of _closed: types are kept.
LEMMA Type_close ==
  ASSUME TypeInv, NEW a \in Admins, close(a)
  PROVE  TypeInv'
<1> USE DEF TypeInv, TypeOK, close, At, Goto,
            flagVars, sizeVars, growVars, taskVars, queueVars, clientVars,
            adminVars
<1>1. a \in Threads
  BY DEF Threads, Admins
<1>2. pc' \in [Threads -> Labels]
  BY <1>1 DEF Labels
<1>3. TasksHeld'
  BY DEF TasksHeld
<1>4. TypeOK'
  BY <1>2, <1>3 DEF TasksHeld, GoodTasks
<1>5. ThreadsHeld'
  BY <1>1 DEF ThreadsHeld, Holding
<1>6. WaitersHeld'
  BY <1>1 DEF WaitersHeld, Threads
<1>7. ResizersOnly'
  BY <1>1 DEF ResizersOnly, Threads
<1> QED
  BY <1>3, <1>4, <1>5, <1>6, <1>7

\* close() in its lock: types are kept.
LEMMA Type_close_lock ==
  ASSUME TypeInv, NEW a \in Admins, close_lock(a)
  PROVE  TypeInv'
<1> USE DEF TypeInv, TypeOK, close_lock, At, Goto,
            flagVars, sizeVars, growVars, taskVars, queueVars, clientVars,
            adminVars
<1>1. a \in Threads
  BY DEF Threads, Admins
<1>2. Simple("stop") \in Task /\ Simple("stop").kind = "stop"
  BY NewTask
<1>3. PICK n \in Nat : tasks' = tasks \o [i \in 1..n |-> Simple("stop")]
  BY FS_CardinalityType, ThreadsAssumption DEF StopTasks
<1>4. pc' \in [Threads -> Labels]
  BY DEF Labels
<1>5. closed' \in BOOLEAN /\ opened' \in BOOLEAN
  OBVIOUS
<1>6. doomed' \in [Admins -> Seq(Positions)]
  OBVIOUS
<1>7. waiting' \in Seq(Positions)
  OBVIOUS
<1>8. batch' \in [Admins -> Seq(Conns)]
  BY DEF TakeIdle
<1>9. pool' \in Seq(Conns)
  BY DEF TakeIdle
<1>10. TasksHeld'
  <2> HIDE DEF close_lock, TypeInv, TypeOK
  <2>1. GoodTasks([i \in 1..n |-> Simple("stop")])
    <3>1. n \in Int
      OBVIOUS
    <3>2. Simple("stop").kind # "return"
      BY <1>2
    <3> DEFINE stop == Simple("stop")
    <3>3. stop \in Task /\ stop.kind # "return"
      BY <1>2, <3>2
    <3> HIDE DEF stop
    <3>4. GoodTasks([i \in 1..n |-> stop])
      BY <3>1, <3>3, CopiedTasks
    <3> QED
      BY <3>4 DEF stop
  <2> USE DEF TypeInv
  <2> QED
    BY <1>3, <2>1, ConcatTasks DEF TasksHeld
<1>11. TypeOK'
  BY <1>4, <1>5, <1>6, <1>7, <1>8, <1>9, <1>10 DEF TasksHeld, GoodTasks
<1>12. ThreadsHeld'
  BY <1>1 DEF ThreadsHeld, Holding
<1>13. WaitersHeld'
  BY <1>1 DEF WaitersHeld, Threads
<1>14. ResizersOnly'
  BY <1>1 DEF ResizersOnly, Threads
<1> QED
  BY <1>10, <1>11, <1>12, <1>13, <1>14

\* close() closes connections: types are kept.
LEMMA Type_close_conns ==
  ASSUME TypeInv, NEW a \in Admins, close_conns(a)
  PROVE  TypeInv'
<1> USE DEF TypeInv, TypeOK, close_conns, At, Goto,
            flagVars, sizeVars, growVars, taskVars, queueVars, clientVars,
            adminVars
<1>1. a \in Threads
  BY DEF Threads, Admins
<1>2. pc' \in [Threads -> Labels]
  BY <1>1 DEF Labels
<1>3. batch' \in [Admins -> Seq(Conns)]
  BY <1>1
<1>4. status' \in [Conns -> {"UNKNOWN", "IDLE", "INTRANS", "ACTIVE"}]
  BY <1>1
<1>5. TasksHeld'
  BY DEF TasksHeld
<1>6. TypeOK'
  BY <1>2, <1>3, <1>4, <1>5 DEF TasksHeld, GoodTasks
<1>7. ThreadsHeld'
  BY <1>1 DEF ThreadsHeld, Holding
<1>8. WaitersHeld'
  BY <1>1 DEF WaitersHeld, Threads
<1>9. ResizersOnly'
  BY <1>1 DEF ResizersOnly, Threads
<1> QED
  BY <1>5, <1>6, <1>7, <1>8, <1>9

\* close() fails a client: types are kept.
LEMMA Type_close_fail ==
  ASSUME TypeInv, NEW a \in Admins, close_fail(a)
  PROVE  TypeInv'
<1> USE DEF TypeInv, TypeOK, close_fail, At, Goto,
            flagVars, sizeVars, growVars, taskVars, queueVars, clientVars,
            adminVars
<1>1. a \in Threads
  BY DEF Threads, Admins
<1>2. doomed[a] # <<>> => Head(doomed[a]) \in Positions /\ Tail(doomed[a]) \in Seq(Positions)
  OBVIOUS
<1>3. doomed' = doomed \/ (doomed[a] # <<>> /\ doomed' = [doomed EXCEPT ![a] = Tail(doomed[a])])
  OBVIOUS
<1>4. slot' = slot \/ (doomed[a] # <<>> /\ slot' = [slot EXCEPT ![Head(doomed[a])].error = "closed"])
  OBVIOUS
<1>5. pc' \in [Threads -> Labels]
  BY ZenonT(40) DEF Labels
<1>6. doomed' \in [Admins -> Seq(Positions)]
  BY <1>2, <1>3, <1>4
<1>7. slot' \in [Positions -> Slot]
  <2> HIDE DEF close_fail
  <2>1. CASE slot' = slot
    BY <2>1
  <2>2. CASE doomed[a] # <<>> /\ slot' = [slot EXCEPT ![Head(doomed[a])].error = "closed"]
    <3>1. Head(doomed[a]) \in Positions
      BY <1>2, <2>2
    <3> QED
      BY <2>2, <3>1, SlotUpdate
  <2> QED
    BY <1>4, <2>1, <2>2
<1>8. TasksHeld'
  BY DEF TasksHeld
<1>9. TypeOK'
  BY <1>5, <1>6, <1>7, <1>8 DEF TasksHeld, GoodTasks
<1>10. ThreadsHeld'
  BY <1>1, <1>2, <1>4 DEF ThreadsHeld, Holding
<1>11. WaitersHeld'
  BY <1>1, <1>2, <1>4 DEF WaitersHeld, Threads
<1>12. ResizersOnly'
  BY <1>1, <1>2, <1>4 DEF ResizersOnly, Threads
<1> QED
  BY <1>8, <1>9, <1>10, <1>11, <1>12

\* check() in its lock: types are kept.
LEMMA Type_check ==
  ASSUME TypeInv, NEW a \in Admins, check(a)
  PROVE  TypeInv'
<1> USE DEF TypeInv, TypeOK, check, At, Goto,
            flagVars, sizeVars, growVars, taskVars, queueVars, clientVars,
            adminVars
<1>1. a \in Threads
  BY DEF Threads, Admins
<1>2. nconns' = nconns + 1 \/ nconns' = nconns
  BY DEF _maybe_grow_pool
<1>3. pc' \in [Threads -> Labels]
  BY DEF Labels
<1>4. batch' \in [Admins -> Seq(Conns)]
  BY DEF TakeIdle
<1>5. pool' \in Seq(Conns)
  BY DEF TakeIdle
<1>6. nconns' \in Int
  BY <1>2
<1>7. growing' \in BOOLEAN
  BY DEF _maybe_grow_pool
<1>8. TasksHeld'
  BY <1>1, NewTask, RunTask DEF _maybe_grow_pool, TasksHeld
<1>9. TypeOK'
  BY <1>3, <1>4, <1>5, <1>6, <1>7, <1>8 DEF TasksHeld, GoodTasks
<1>10. ThreadsHeld'
  BY <1>1 DEF ThreadsHeld, Holding
<1>11. WaitersHeld'
  BY <1>1 DEF WaitersHeld, Threads
<1>12. ResizersOnly'
  BY <1>1 DEF ResizersOnly, Threads
<1> QED
  BY <1>8, <1>9, <1>10, <1>11, <1>12

\* check() deals with a connection: types are kept.
LEMMA Type_check_next ==
  ASSUME TypeInv, NEW a \in Admins, check_next(a)
  PROVE  TypeInv'
<1> USE DEF TypeInv, TypeOK, check_next, At, Goto,
            flagVars, sizeVars, growVars, taskVars, queueVars, clientVars,
            adminVars
<1>1. a \in Threads
  BY DEF Threads, Admins
<1>2. batch[a] # <<>> => /\ batch[a][Len(batch[a])] \in Conns
                           /\ SubSeq(batch[a], 1, Len(batch[a]) - 1) \in Seq(Conns)
  OBVIOUS
<1>3. batch' = batch \/ (batch[a] # <<>> /\ batch' = [batch EXCEPT ![a] = SubSeq(batch[a], 1, Len(batch[a]) - 1)])
  OBVIOUS
<1>4. cur' = cur \/ (batch[a] # <<>> /\ cur' = [cur EXCEPT ![a] = batch[a][Len(batch[a])]])
  OBVIOUS
<1>5. pc' \in [Threads -> Labels]
  BY ZenonT(40) DEF Labels
<1>6. batch' \in [Admins -> Seq(Conns)]
  BY <1>2, <1>3, <1>4
<1>7. cur' \in [Threads -> Conns \cup {NoConn}]
  BY <1>2, <1>4
<1>8. status' \in [Conns -> {"UNKNOWN", "IDLE", "INTRANS", "ACTIVE"}]
  BY DEF Discard
<1>9. TasksHeld'
  BY <1>1, <1>2, <1>3, <1>4, NewTask, RunTask DEF Discard, TasksHeld
<1>10. TypeOK'
  BY <1>5, <1>6, <1>7, <1>8, <1>9 DEF TasksHeld, GoodTasks
<1>11. ThreadsHeld'
  BY <1>1, <1>2, <1>3, <1>4 DEF ThreadsHeld, Holding
<1>12. WaitersHeld'
  BY <1>1, <1>2, <1>3, <1>4 DEF WaitersHeld, Threads
<1>13. ResizersOnly'
  BY <1>1, <1>2, <1>3, <1>4 DEF ResizersOnly, Threads
<1> QED
  BY <1>9, <1>10, <1>11, <1>12, <1>13

\* resize(), the computation of ngrow: types are kept.
LEMMA Type_resize ==
  ASSUME TypeInv, NEW a \in Admins, resize(a)
  PROVE  TypeInv'
<1> USE DEF TypeInv, TypeOK, resize, At, Goto,
            flagVars, sizeVars, growVars, taskVars, queueVars, clientVars,
            adminVars
<1>1. a \in Threads
  BY DEF Threads, Admins
<1>2. pc' \in [Threads -> Labels]
  BY <1>1 DEF Labels
<1>3. togrow' \in [Admins -> Nat]
  BY <1>1, ConstantsAssumption DEF NGrow, SizesOK
<1>4. TasksHeld'
  BY DEF TasksHeld
<1>5. TypeOK'
  BY <1>2, <1>3, <1>4 DEF TasksHeld, GoodTasks
<1>6. ThreadsHeld'
  BY <1>1 DEF ThreadsHeld, Holding
<1>7. WaitersHeld'
  BY <1>1 DEF WaitersHeld, Threads
<1>8. ResizersOnly'
  BY <1>1 DEF ResizersOnly, Threads
<1> QED
  BY <1>4, <1>5, <1>6, <1>7, <1>8

\* resize() in its lock: types are kept.
LEMMA Type_resize_lock ==
  ASSUME TypeInv, NEW a \in Admins, resize_lock(a)
  PROVE  TypeInv'
<1> USE DEF TypeInv, TypeOK, resize_lock, At, Goto,
            flagVars, sizeVars, growVars, taskVars, queueVars, clientVars,
            adminVars
<1>1. a \in Threads
  BY DEF Threads, Admins
<1>2. a \in Resizers
  BY DEF ResizersOnly
<1>3. ResizeTo[a][1] \in Nat /\ ResizeTo[a][2] \in Nat
  BY <1>2, ConstantsAssumption
<1>4. pc' \in [Threads -> Labels]
  BY DEF Labels
<1>5. min_size' \in Nat /\ max_size' \in Nat
  BY <1>3
<1>6. nconns' \in Int
  OBVIOUS
<1>7. TasksHeld'
  BY DEF TasksHeld
<1>8. TypeOK'
  BY <1>4, <1>5, <1>6, <1>7 DEF TasksHeld, GoodTasks
<1>9. ThreadsHeld'
  BY <1>1 DEF ThreadsHeld, Holding
<1>10. WaitersHeld'
  BY <1>1 DEF WaitersHeld, Threads
<1>11. ResizersOnly'
  BY <1>1 DEF ResizersOnly, Threads
<1> QED
  BY <1>7, <1>8, <1>9, <1>10, <1>11

\* resize() queues a task: types are kept.
LEMMA Type_resize_run ==
  ASSUME TypeInv, NEW a \in Admins, resize_run(a)
  PROVE  TypeInv'
<1> USE DEF TypeInv, TypeOK, resize_run, At, Goto,
            flagVars, sizeVars, growVars, taskVars, queueVars, clientVars,
            adminVars
<1>1. a \in Threads
  BY DEF Threads, Admins
<1>2. togrow' = togrow \/ (togrow[a] > 0 /\ togrow' = [togrow EXCEPT ![a] = togrow[a] - 1])
  OBVIOUS
<1>3. pc' \in [Threads -> Labels]
  BY ZenonT(40) DEF Labels
<1>4. togrow' \in [Admins -> Nat]
  <2> HIDE DEF resize_run
  <2>1. CASE togrow' = togrow
    BY <2>1
  <2>2. CASE togrow[a] > 0 /\ togrow' = [togrow EXCEPT ![a] = togrow[a] - 1]
    <3>1. togrow[a] - 1 \in Nat
      BY <2>2
    <3> QED
      BY <2>2, <3>1
  <2> QED
    BY <1>2, <2>1, <2>2
<1>5. TasksHeld'
  <2>1. run_task(AddConnection(FALSE)) \/ UNCHANGED tasks
    OBVIOUS
  <2> HIDE DEF resize_run
  <2> QED
    BY <2>1, NewTask, RunTask
<1>6. TypeOK'
  BY <1>3, <1>4, <1>5 DEF TasksHeld, GoodTasks
<1>7. ThreadsHeld'
  BY <1>1 DEF ThreadsHeld, Holding
<1>8. WaitersHeld'
  BY <1>1 DEF WaitersHeld, Threads
<1>9. ResizersOnly'
  BY <1>1 DEF ResizersOnly, Threads
<1> QED
  BY <1>5, <1>6, <1>7, <1>8, <1>9

\* wait(), the unlocked test of _closed: types are kept.
LEMMA Type_wait ==
  ASSUME TypeInv, NEW a \in Admins, wait(a)
  PROVE  TypeInv'
<1> USE DEF TypeInv, TypeOK, wait, At, Goto,
            flagVars, sizeVars, growVars, taskVars, queueVars, clientVars,
            adminVars
<1>1. a \in Threads
  BY DEF Threads, Admins
<1>2. pc' \in [Threads -> Labels]
  BY <1>1 DEF Labels
<1>3. TasksHeld'
  BY DEF TasksHeld
<1>4. TypeOK'
  BY <1>2, <1>3 DEF TasksHeld, GoodTasks
<1>5. ThreadsHeld'
  BY <1>1 DEF ThreadsHeld, Holding
<1>6. WaitersHeld'
  BY <1>1 DEF WaitersHeld, Threads
<1>7. ResizersOnly'
  BY <1>1 DEF ResizersOnly, Threads
<1> QED
  BY <1>3, <1>4, <1>5, <1>6, <1>7

\* wait() in its lock: types are kept.
LEMMA Type_wait_lock ==
  ASSUME TypeInv, NEW a \in Admins, wait_lock(a)
  PROVE  TypeInv'
<1> USE DEF TypeInv, TypeOK, wait_lock, At, Goto,
            flagVars, sizeVars, growVars, taskVars, queueVars, clientVars,
            adminVars
<1>1. a \in Threads
  BY DEF Threads, Admins
<1>2. pc' \in [Threads -> Labels]
  BY <1>1, ZenonT(40) DEF Labels
<1>3. full_event' \in {"none", "unset", "set"}
  BY <1>1
<1>4. TasksHeld'
  BY DEF TasksHeld
<1>5. TypeOK'
  BY <1>2, <1>3, <1>4 DEF TasksHeld, GoodTasks
<1>6. ThreadsHeld'
  BY <1>1 DEF ThreadsHeld, Holding
<1>7. WaitersHeld'
  BY <1>1 DEF WaitersHeld, Threads
<1>8. ResizersOnly'
  BY <1>1 DEF ResizersOnly, Threads
<1> QED
  BY <1>4, <1>5, <1>6, <1>7, <1>8

\* The end of wait(): types are kept.
LEMMA Type_wait_ends ==
  ASSUME TypeInv, NEW a \in Admins, wait_ends(a)
  PROVE  TypeInv'
<1> USE DEF TypeInv, TypeOK, wait_ends, At, Goto,
            flagVars, sizeVars, growVars, taskVars, queueVars, clientVars,
            adminVars
<1>1. a \in Threads
  BY DEF Threads, Admins
<1>2. pc' \in [Threads -> Labels]
  BY <1>1, ZenonT(40) DEF Labels
<1>3. full_event' \in {"none", "unset", "set"}
  BY <1>1
<1>4. TasksHeld'
  BY DEF TasksHeld
<1>5. TypeOK'
  BY <1>2, <1>3, <1>4 DEF TasksHeld, GoodTasks
<1>6. ThreadsHeld'
  BY <1>1 DEF ThreadsHeld, Holding
<1>7. WaitersHeld'
  BY <1>1 DEF WaitersHeld, Threads
<1>8. ResizersOnly'
  BY <1>1 DEF ResizersOnly, Threads
<1> QED
  BY <1>4, <1>5, <1>6, <1>7, <1>8

\* open(): types are kept.
LEMMA Type_open ==
  ASSUME TypeInv, open
  PROVE  TypeInv'
<1> USE DEF TypeInv, TypeOK, open, At, Goto,
            flagVars, sizeVars, growVars, taskVars, queueVars, clientVars,
            adminVars
<1>1. AddConnection(FALSE) \in Task /\ AddConnection(FALSE).kind = "add"
  BY NewTask
<1>2. GoodTasks([i \in 1..nconns |-> AddConnection(FALSE)])
  BY <1>1, CopiedTasks
<1>3. GoodTasks(<<Simple("schedule")>>)
  BY NewTask DEF GoodTasks
<1>4. tasks' = [i \in 1..nconns |-> AddConnection(FALSE)] \o <<Simple("schedule")>>
  OBVIOUS
<1>5. closed' \in BOOLEAN /\ opened' \in BOOLEAN
  OBVIOUS
<1>6. pc' \in [Threads -> Labels]
  BY DEF Labels
<1>7. TasksHeld'
  BY <1>2, <1>3, <1>4, ConcatTasks DEF TasksHeld
<1>8. TypeOK'
  BY <1>5, <1>6, <1>7 DEF TasksHeld, GoodTasks
<1>9. ThreadsHeld'
  BY <1>1 DEF ThreadsHeld, Holding
<1>10. WaitersHeld'
  BY <1>1 DEF WaitersHeld, Threads
<1>11. ResizersOnly'
  BY <1>1 DEF ResizersOnly, Threads
<1> QED
  BY <1>7, <1>8, <1>9, <1>10, <1>11

-----------------------------------------------------------------------------

\* The initial state satisfies the type invariant.
LEMMA TypeInit == Init => TypeInv
<1> SUFFICES ASSUME Init
             PROVE  TypeInv
  OBVIOUS
<1> USE DEF Init
<1>0. \A t \in Threads : pc[t] \in {"off", "idle", "start", "done"}
  OBVIOUS
<1>1. TypeOK
  <2>1. pc \in [Threads -> Labels]
    BY DEF Labels
  <2>2. slot \in [Positions -> Slot]
    BY DEF Slot, EmptySlot, NoConn
  <2>3. job \in [Workers -> [growing: BOOLEAN, retry: BOOLEAN]]
    BY DEF NoJob, Job
  <2>4. /\ cur \in [Threads -> Conns \cup {NoConn}]
        /\ pos \in [Clients -> Positions \cup {NoPos}]
        /\ fromget \in [Clients -> BOOLEAN] /\ togrow \in [Admins -> Nat]
        /\ status \in [Conns -> {"UNKNOWN", "IDLE", "INTRANS", "ACTIVE"}]
        /\ sched \in [DelayedKinds -> Nat]
    OBVIOUS
  <2>5. /\ pool \in Seq(Conns) /\ waiting \in Seq(Positions)
        /\ tasks \in Seq(Task)
        /\ batch \in [Admins -> Seq(Conns)]
        /\ doomed \in [Admins -> Seq(Positions)]
    OBVIOUS
  <2>6. min_size \in Nat /\ max_size \in Nat /\ nconns \in Int /\ nconns_min \in Nat
    BY ConstantsAssumption DEF SizesOK
  <2> QED
    BY <2>1, <2>2, <2>3, <2>4, <2>5, <2>6 DEF TypeOK
<1>2. TasksHeld
  BY DEF TasksHeld, GoodTasks
<1>3. ThreadsHeld /\ WaitersHeld /\ ResizersOnly
  <2> HIDE DEF Init
  <2> QED
    BY <1>0 DEF ThreadsHeld, WaitersHeld, ResizersOnly, Holding, Threads
<1> QED
  BY <1>1, <1>2, <1>3 DEF TypeInv

\* Every step keeps the type invariant: one lemma above for each action.
LEMMA TypeStep == TypeInv /\ [Next]_vars => TypeInv'
<1> SUFFICES ASSUME TypeInv, [Next]_vars
             PROVE  TypeInv'
  OBVIOUS
<1>0. ASSUME NEW t \in Threads, Return(t)
      PROVE  TypeInv'
  BY <1>0, Type_return, Type_add_early, Type_add_to_pool DEF Return
<1>1. ASSUME NEW c \in Clients, ClientStep(c)
      PROVE  TypeInv'
  <2>1. CASE Return(c)
    BY <1>0, <2>1 DEF Threads
  <2> QED
    BY <1>1, <2>1, Type_getconn, Type_getconn_timeout, Type_getconn_refused,
       Type_get_ready, Type_enqueue, Type_wait_broken, Type_wait_returns,
       Type_check_passes, Type_check_fails, Type_check_interrupted,
       Type_backoff, Type_putconn, Type_put
       DEF ClientStep, Request
<1>2. ASSUME NEW w \in Workers, WorkerStep(w)
      PROVE  TypeInv'
  <2>1. CASE Return(w)
    BY <1>0, <2>1 DEF Threads
  <2> QED
    BY <1>2, <2>1, Type_worker, Type_connect, Type_connect_fails, Type_grow,
       Type_shrink_pool, Type_shrink_close
       DEF WorkerStep, Work
<1>3. ASSUME NEW a \in Admins, AdminStep(a)
      PROVE  TypeInv'
  <2>1. CASE Return(a)
    BY <1>0, <2>1 DEF Threads
  <2> QED
    BY <1>3, <2>1, Type_close, Type_close_lock, Type_close_conns,
       Type_close_fail, Type_check, Type_check_next, Type_resize,
       Type_resize_lock, Type_resize_run, Type_wait, Type_wait_lock,
       Type_wait_ends
       DEF AdminStep, Administer
<1>4. CASE UNCHANGED vars
  BY <1>4 DEF vars, TypeInv, TypeOK, ThreadsHeld, WaitersHeld, ResizersOnly,
              TasksHeld
<1> QED
  BY <1>1, <1>2, <1>3, <1>4, Type_open, Type_tick DEF Next

\* Every variable keeps to its type, whatever the threads do.
THEOREM TypeCorrect == Spec => []TypeOK
<1>1. Spec => []TypeInv
  BY TypeInit, TypeStep, PTL DEF Spec
<1>2. TypeInv => TypeOK
  BY DEF TypeInv
<1> QED
  BY <1>1, <1>2, PTL

-----------------------------------------------------------------------------
(* The pool and the queue of requests                                       *)

\* Inductive together with the types.
QueueInv == NoIdleWhileWaiting /\ ClosedPoolEmpty

\* _add_to_pool puts a connection in the pool only when it found the pool
\* open and no request waiting, in the same critical section.
LEMMA QueueServe ==
  ASSUME TypeOK, QueueInv, NEW t \in Threads, _add_to_pool(t)
  PROVE  QueueInv'
<1>1. CASE ClosedForReal
  BY <1>1 DEF _add_to_pool, QueueInv, NoIdleWhileWaiting, ClosedPoolEmpty,
              queueVars, flagVars
<1>2. CASE ~ClosedForReal
  <2>1. ~closed /\ closed' = closed /\ Serve(cur[t])
    BY <1>2 DEF _add_to_pool, ClosedForReal, flagVars
  <2>2. CASE waiting' = <<>>
    BY <2>1, <2>2 DEF QueueInv, NoIdleWhileWaiting, ClosedPoolEmpty
  <2>3. CASE waiting' # <<>>
    <3>1. pool' = pool /\ waiting # <<>>
      BY <2>1, <2>3 DEF Serve
    <3> QED
      BY <2>1, <3>1 DEF QueueInv, NoIdleWhileWaiting, ClosedPoolEmpty
  <2> QED
    BY <2>2, <2>3
<1> QED
  BY <1>1, <1>2

\* The other steps only empty the pool or queue a request on an empty one.
LEMMA QueueStep == TypeInv /\ QueueInv /\ [Next]_vars => QueueInv'
<1> SUFFICES ASSUME TypeInv, QueueInv, [Next]_vars
             PROVE  QueueInv'
  OBVIOUS
<1> USE DEF QueueInv, NoIdleWhileWaiting, ClosedPoolEmpty, flagVars, queueVars
<1>t. TypeOK
  BY DEF TypeInv
<1>p. pool # <<>> => waiting = <<>> /\ ~closed
  OBVIOUS
<1>f. UNCHANGED <<pool, waiting, closed>> => QueueInv'
  OBVIOUS
<1>0. ASSUME NEW t \in Threads, Return(t)
      PROVE  QueueInv'
  BY <1>0, <1>f, <1>t, QueueServe
     DEF Return, _return_connection, _add_to_pool_early
<1>1. ASSUME NEW c \in Clients, ClientStep(c)
      PROVE  QueueInv'
  <2>1. CASE Return(c)
    BY <1>0, <2>1 DEF Threads
  <2>2. CASE _get_ready_connection(c) \/ getconn_enqueue(c)
    BY <2>2, <1>p DEF _get_ready_connection, getconn_enqueue
  <2>3. CASE \/ getconn(c) \/ getconn_timeout(c) \/ wait_broken(c)
             \/ check_interrupted(c) \/ getconn_refused(c) \/ wait_returns(c)
             \/ check_passes(c) \/ check_fails(c) \/ backoff(c) \/ putconn(c)
             \/ _putconn(c)
    BY <2>3, <1>f
       DEF getconn, getconn_timeout, wait_broken, check_interrupted,
           getconn_refused, wait_returns, check_passes, check_fails, backoff,
           putconn, _putconn
  <2> QED
    BY <1>1, <2>1, <2>2, <2>3 DEF ClientStep, Request
<1>2. ASSUME NEW w \in Workers, WorkerStep(w)
      PROVE  QueueInv'
  <2>1. CASE Return(w)
    BY <1>0, <2>1 DEF Threads
  <2>2. CASE _shrink_pool(w)
    BY <2>2, <1>p DEF _shrink_pool, CanShrink
  <2>3. CASE \/ worker(w) \/ _connect(w) \/ _add_connection_grow(w)
             \/ _shrink_close(w) \/ _connect_fails(w)
    BY <2>3, <1>f
       DEF worker, _connect, _add_connection_grow, _shrink_close, _connect_fails
  <2> QED
    BY <1>2, <2>1, <2>2, <2>3 DEF WorkerStep, Work
<1>3. ASSUME NEW a \in Admins, AdminStep(a)
      PROVE  QueueInv'
  <2>1. CASE Return(a)
    BY <1>0, <2>1 DEF Threads
  <2>2. CASE close_lock(a) \/ check(a)
    BY <2>2 DEF close_lock, check, TakeIdle
  <2>3. CASE \/ close(a) \/ close_conns(a) \/ close_fail(a) \/ check_next(a)
             \/ resize(a) \/ resize_lock(a) \/ resize_run(a) \/ wait(a)
             \/ wait_lock(a) \/ wait_ends(a)
    BY <2>3, <1>f
       DEF close, close_conns, close_fail, check_next, resize, resize_lock,
           resize_run, wait, wait_lock, wait_ends
  <2> QED
    BY <1>3, <2>1, <2>2, <2>3 DEF AdminStep, Administer
<1>4. CASE open
  BY <1>4 DEF open
<1>5. ASSUME NEW k \in DelayedKinds, tick(k)
      PROVE  QueueInv'
  BY <1>5, <1>f DEF tick
<1>6. CASE UNCHANGED vars
  BY <1>6, <1>f DEF vars
<1> QED
  BY <1>1, <1>2, <1>3, <1>4, <1>5, <1>6 DEF Next

\* No connection sits in the pool while a request is queued, and nothing
\* is left in a closed pool: _getconn_unchecked, _add_to_pool, _shrink_pool,
\* check() and close() keep the deques consistent.
THEOREM QueueCorrect == Spec => [](NoIdleWhileWaiting /\ ClosedPoolEmpty)
<1>1. Init => QueueInv
  BY DEF Init, QueueInv, NoIdleWhileWaiting, ClosedPoolEmpty
<1>2. QueueInv => NoIdleWhileWaiting /\ ClosedPoolEmpty
  BY DEF QueueInv
<1> QED
  BY <1>1, <1>2, TypeInit, TypeStep, QueueStep, PTL DEF Spec

\* No thread that was on its way when close() took the idle connections puts
\* one in the pool after it.
THEOREM ClosedPoolStaysEmpty == Spec => []ClosedPoolEmpty
<1>1. NoIdleWhileWaiting /\ ClosedPoolEmpty => ClosedPoolEmpty
  OBVIOUS
<1> QED
  BY <1>1, QueueCorrect, PTL

-----------------------------------------------------------------------------
(* Handing a connection over to a waiting client                            *)

\* Client c waits in position p.
WaitsOn(c, p) == pc[c] = "waiting" /\ pos[c] = p

\* Positions are queued once and without a connection; one that would accept
\* a connection, or has one, has a client that waits on it.
HandOver ==
  /\ \A i, j \in DOMAIN waiting : waiting[i] = waiting[j] => i = j
  /\ \A i \in DOMAIN waiting : slot[waiting[i]].conn = NoConn
  /\ \A i \in DOMAIN waiting :
       Accepts(waiting[i]) => \E c \in Clients : WaitsOn(c, waiting[i])
  /\ \A p \in Positions :
       slot[p].conn # NoConn => \E c \in Clients : WaitsOn(c, p)

\* What the steps that deliver nothing and end no wait leave alone.
KeepWaiting == /\ UNCHANGED <<slot, pos>>
               /\ \A c \in Clients : pc[c] = "waiting" => pc'[c] = "waiting"

\* A step that delivers nothing and ends no wait keeps HandOver.
LEMMA HandOverFrame ==
  ASSUME HandOver, KeepWaiting, UNCHANGED waiting \/ waiting' = <<>>
  PROVE  HandOver'
<1>1. \A c \in Clients, p \in Positions \cup {waiting[i] : i \in DOMAIN waiting} :
        WaitsOn(c, p) => WaitsOn(c, p)'
  BY DEF WaitsOn, KeepWaiting
<1>2. CASE UNCHANGED waiting
  BY <1>1, <1>2 DEF HandOver, KeepWaiting, Accepts
<1>3. CASE waiting' = <<>>
  BY <1>1, <1>3 DEF HandOver, KeepWaiting
<1> QED
  BY <1>2, <1>3

\* getconn() joins the queue with a position of its own.
LEMMA HandOver_enqueue ==
  ASSUME TypeInv, HandOver, NEW c \in Clients, getconn_enqueue(c)
  PROVE  HandOver'
<1> USE DEF TypeInv, TypeOK
<1>1. PICK p \in Positions : /\ FreshPos(p)
                             /\ waiting' = Append(waiting, p)
                             /\ slot' = [slot EXCEPT ![p] = EmptySlot]
                             /\ pos' = [pos EXCEPT ![c] = p]
  BY DEF getconn_enqueue
<1>2. pc[c] = "getconn" /\ pc' = [pc EXCEPT ![c] = "waiting"] /\ c \in Threads
  BY DEF getconn_enqueue, At, Goto, Threads
<1>3. \A i \in DOMAIN waiting : waiting[i] # p
  BY <1>1 DEF FreshPos, UsedPos, Elems
<1>4. WaitsOn(c, p)'
  BY <1>1, <1>2 DEF WaitsOn
<1>5. \A d \in Clients : d # c => pc'[d] = pc[d] /\ pos'[d] = pos[d]
  BY <1>1, <1>2
<1>6. \A d \in Clients : \A q : WaitsOn(d, q) => WaitsOn(d, q)'
  BY <1>2, <1>5 DEF WaitsOn
<1>7. /\ DOMAIN waiting' = 1..(Len(waiting) + 1)
      /\ waiting'[Len(waiting) + 1] = p
      /\ \A i \in DOMAIN waiting : waiting'[i] = waiting[i] /\ i <= Len(waiting)
      /\ \A i \in DOMAIN waiting' : i \in DOMAIN waiting \/ i = Len(waiting) + 1
  BY <1>1
<1>8. slot'[p] = EmptySlot /\ \A q \in Positions : q # p => slot'[q] = slot[q]
  BY <1>1
<1>9. \A i \in DOMAIN waiting : waiting[i] \in Positions
  OBVIOUS
<1> HIDE DEF TypeInv, TypeOK
<1>10. \A i, j \in DOMAIN waiting' : waiting'[i] = waiting'[j] => i = j
  BY <1>3, <1>7 DEF HandOver
<1>11. \A i \in DOMAIN waiting' : slot'[waiting'[i]].conn = NoConn
  BY <1>3, <1>7, <1>8, <1>9 DEF HandOver, EmptySlot
<1>12. \A i \in DOMAIN waiting' : slot'[waiting'[i]] = EmptySlot =>
         \E d \in Clients : pc'[d] = "waiting" /\ pos'[d] = waiting'[i]
  <2> SUFFICES ASSUME NEW i \in DOMAIN waiting', slot'[waiting'[i]] = EmptySlot
               PROVE  \E d \in Clients : pc'[d] = "waiting" /\ pos'[d] = waiting'[i]
    OBVIOUS
  <2>1. CASE i = Len(waiting) + 1
    BY <1>4, <1>7, <2>1 DEF WaitsOn
  <2>2. CASE i \in DOMAIN waiting
    <3>1. Accepts(waiting[i]) /\ waiting'[i] = waiting[i]
      BY <1>3, <1>7, <1>8, <1>9, <2>2 DEF Accepts
    <3>2. PICK d \in Clients : WaitsOn(d, waiting[i])
      BY <2>2, <3>1 DEF HandOver
    <3> QED
      BY <1>6, <3>1, <3>2 DEF WaitsOn
  <2> QED
    BY <1>7, <2>1, <2>2
<1>13. \A q \in Positions :
         slot'[q].conn # NoConn => \E d \in Clients : WaitsOn(d, q)'
  BY <1>6, <1>8 DEF HandOver, EmptySlot
<1> QED
  BY <1>10, <1>11, <1>12, <1>13 DEF HandOver, WaitsOn, Accepts

\* A wait that breaks makes its position refuse connections.
LEMMA HandOver_broken ==
  ASSUME TypeInv, HandOver, NEW c \in Clients, wait_broken(c)
  PROVE  HandOver'
<1>1. PICK e \in {"timeout", "interrupt"} :
        slot' = [slot EXCEPT ![pos[c]].error = e]
  BY DEF wait_broken
<1>2. UNCHANGED <<waiting, pc, pos>>
  BY DEF wait_broken, clientVars
<1>3. pos[c] \in Positions /\ slot \in [Positions -> Slot]
  BY DEF wait_broken, TypeInv, TypeOK, WaitersHeld, At
<1>4. \A q \in Positions : slot'[q].conn = slot[q].conn
  BY <1>1, <1>3 DEF Slot
<1>5. \A q \in Positions : Accepts(q)' => Accepts(q)
  BY <1>1, <1>3 DEF Accepts, Slot, EmptySlot
<1>6. \A i \in DOMAIN waiting : waiting[i] \in Positions
  BY DEF TypeInv, TypeOK
<1> QED
  BY <1>2, <1>4, <1>5, <1>6 DEF HandOver, WaitsOn

\* A client that leaves takes the connection of its position with it.
LEMMA HandOver_returns ==
  ASSUME TypeInv, HandOver, NEW c \in Clients, wait_returns(c)
  PROVE  HandOver'
<1>1. /\ pc[c] = "waiting" /\ slot[pos[c]] # EmptySlot /\ pos[c] \in Positions
      /\ slot \in [Positions -> Slot]
      /\ slot' = [slot EXCEPT ![pos[c]].conn = NoConn]
      /\ waiting' = waiting
  BY DEF wait_returns, At, TypeInv, TypeOK, WaitersHeld
<1>2. \A d \in Clients : d # c => pc'[d] = pc[d] /\ pos'[d] = pos[d]
  BY DEF wait_returns, Goto, TypeInv, TypeOK, Threads
<1>3. slot'[pos[c]].conn = NoConn
  BY <1>1 DEF Slot
<1>4. \A q \in Positions : q # pos[c] => slot'[q] = slot[q]
  BY <1>1
<1>5. \A i \in DOMAIN waiting : waiting[i] \in Positions
  BY DEF TypeInv, TypeOK
<1>6. \A i \in DOMAIN waiting : slot'[waiting[i]] = slot[waiting[i]]
  <2> SUFFICES ASSUME NEW i \in DOMAIN waiting, waiting[i] = pos[c]
               PROVE  slot'[pos[c]] = slot[pos[c]]
    BY <1>4, <1>5
  <2>1. slot[pos[c]].conn = NoConn
    BY DEF HandOver
  <2> QED
    BY <1>1, <2>1 DEF Slot
<1>7. ASSUME NEW i \in DOMAIN waiting, Accepts(waiting[i])
      PROVE  waiting[i] # pos[c]
  BY <1>1, <1>7 DEF Accepts
<1>8. \A d \in Clients : \A q : q # pos[c] /\ WaitsOn(d, q) => WaitsOn(d, q)'
  BY <1>2 DEF WaitsOn
<1>9. \A q \in Positions :
        slot'[q].conn # NoConn => \E d \in Clients : WaitsOn(d, q)'
  BY <1>3, <1>4, <1>8 DEF HandOver
<1>10. \A i \in DOMAIN waiting : Accepts(waiting[i])' =>
         \E d \in Clients : WaitsOn(d, waiting[i])'
  <2> SUFFICES ASSUME NEW i \in DOMAIN waiting, slot'[waiting[i]] = EmptySlot
               PROVE  \E d \in Clients : WaitsOn(d, waiting[i])'
    BY <1>1 DEF Accepts
  <2>1. Accepts(waiting[i])
    BY <1>6 DEF Accepts
  <2>2. PICK d \in Clients : WaitsOn(d, waiting[i])
    BY <2>1 DEF HandOver
  <2> QED
    BY <1>1, <1>7, <1>8, <2>1, <2>2 DEF WaitsOn
<1> QED
  BY <1>1, <1>6, <1>9, <1>10 DEF HandOver, WaitsOn, Accepts

\* _add_to_pool serves the first position that accepts, whose client waits.
LEMMA HandOver_serve ==
  ASSUME TypeInv, HandOver, NEW t \in Threads, _add_to_pool(t)
  PROVE  HandOver'
<1>1. pos' = pos /\ pc[t] = "add_lock" /\ pc' = [pc EXCEPT ![t] = After(t)]
  BY DEF _add_to_pool, CloseCur, Goto, At, clientVars
<1>2. \A c \in Clients : pc[c] = "waiting" => pc'[c] = "waiting"
  BY <1>1 DEF TypeInv, TypeOK, Threads
<1>3. \A c \in Clients : \A q : WaitsOn(c, q) => WaitsOn(c, q)'
  BY <1>1, <1>2 DEF WaitsOn
<1>4. CASE UNCHANGED slot
  <2>1. UNCHANGED waiting \/ waiting' = <<>>
    <3>1. CASE ClosedForReal
      BY <3>1 DEF _add_to_pool, queueVars
    <3>2. ASSUME NEW i \in DOMAIN waiting, Accepts(waiting[i]),
                 slot' = [slot EXCEPT ![waiting[i]].conn = cur[t]]
          PROVE  FALSE
      <4>1. waiting[i] \in Positions /\ slot[waiting[i]] = EmptySlot
        BY <3>2 DEF TypeInv, TypeOK, Accepts
      <4>2. slot'[waiting[i]].conn = cur[t]
        BY <3>2, <4>1 DEF TypeInv, TypeOK, Slot
      <4>3. cur[t] \in Conns
        BY <1>1 DEF TypeInv, ThreadsHeld, Holding
      <4> QED
        BY <1>4, <4>1, <4>2, <4>3, ConstantsAssumption DEF EmptySlot, NoConn
    <3>3. CASE ~ClosedForReal
      BY <3>2, <3>3 DEF _add_to_pool, Serve
    <3> QED
      BY <3>1, <3>3
  <2> QED
    BY <1>1, <1>2, <1>4, <2>1, HandOverFrame DEF KeepWaiting
<1>5. ASSUME NEW i \in DOMAIN waiting,
             Accepts(waiting[i]),
             slot' = [slot EXCEPT ![waiting[i]].conn = cur[t]],
             waiting' = SubSeq(waiting, i + 1, Len(waiting))
      PROVE  HandOver'
  <2>1. /\ waiting \in Seq(Positions) /\ slot \in [Positions -> Slot]
        /\ i \in 1..Len(waiting) /\ waiting[i] \in Positions
    BY DEF TypeInv, TypeOK
  <2>2. \A q \in Positions : q # waiting[i] => slot'[q] = slot[q]
    BY <1>5, <2>1
  <2>3. /\ DOMAIN waiting' = 1..(Len(waiting) - i)
        /\ \A j \in DOMAIN waiting' : /\ waiting'[j] = waiting[j + i]
                                      /\ j + i \in DOMAIN waiting
                                      /\ j + i # i
    BY <1>5, <2>1
  <2>4. \A j \in DOMAIN waiting' : waiting'[j] # waiting[i]
    BY <2>3 DEF HandOver
  <2>5. \A j \in DOMAIN waiting' : waiting'[j] \in Positions
    BY <2>1, <2>3
  <2>6. \A j, k \in DOMAIN waiting' : waiting'[j] = waiting'[k] => j = k
    <3> SUFFICES ASSUME NEW j \in DOMAIN waiting', NEW k \in DOMAIN waiting',
                        waiting'[j] = waiting'[k]
                 PROVE  j = k
      OBVIOUS
    <3>1. j + i = k + i
      BY <2>3 DEF HandOver
    <3> QED
      BY <2>1, <2>3, <3>1
  <2>7. \A j \in DOMAIN waiting' : slot'[waiting'[j]].conn = NoConn
    BY <2>2, <2>3, <2>4, <2>5 DEF HandOver
  <2>8. \A j \in DOMAIN waiting' : slot'[waiting'[j]] = EmptySlot =>
          \E c \in Clients : pc'[c] = "waiting" /\ pos'[c] = waiting'[j]
    <3> SUFFICES ASSUME NEW j \in DOMAIN waiting', slot'[waiting'[j]] = EmptySlot
                 PROVE  \E c \in Clients :
                          pc'[c] = "waiting" /\ pos'[c] = waiting'[j]
      OBVIOUS
    <3>1. Accepts(waiting[j + i]) /\ waiting'[j] = waiting[j + i]
      BY <2>2, <2>3, <2>4, <2>5 DEF Accepts
    <3>2. PICK c \in Clients : WaitsOn(c, waiting[j + i])
      BY <2>3, <3>1 DEF HandOver
    <3> QED
      BY <1>3, <3>1, <3>2 DEF WaitsOn
  <2>9. \A q \in Positions : slot'[q].conn # NoConn =>
          \E c \in Clients : WaitsOn(c, q)'
    BY <1>3, <1>5, <2>2 DEF HandOver
  <2> QED
    BY <2>6, <2>7, <2>8, <2>9 DEF HandOver, WaitsOn, Accepts
<1> QED
  BY <1>4, <1>5 DEF _add_to_pool, Serve, queueVars

\* close() fails positions without touching their connections.
LEMMA HandOver_fail ==
  ASSUME TypeInv, HandOver, NEW a \in Admins, close_fail(a)
  PROVE  HandOver'
<1>1. /\ waiting \in Seq(Positions) /\ slot \in [Positions -> Slot]
      /\ waiting' = waiting /\ pos' = pos
  BY DEF close_fail, TypeInv, TypeOK, clientVars
<1>2. \A c \in Clients : pc[c] = "waiting" => pc'[c] = "waiting"
  BY ThreadsAssumption DEF close_fail, Goto, TypeInv, TypeOK, Threads
<1>3. \A c \in Clients : \A q : WaitsOn(c, q) => WaitsOn(c, q)'
  BY <1>1, <1>2 DEF WaitsOn
<1>4. CASE UNCHANGED slot
  BY <1>1, <1>2, <1>4, HandOverFrame DEF KeepWaiting
<1>5. CASE doomed[a] # <<>> /\ slot' = [slot EXCEPT ![Head(doomed[a])].error = "closed"]
  <2>1. Head(doomed[a]) \in Positions
    <3>1. doomed[a] \in Seq(Positions)
      BY DEF TypeInv, TypeOK
    <3> QED
      BY <1>5, <3>1
  <2>2. \A q \in Positions : slot'[q].conn = slot[q].conn
    BY <1>1, <1>5, <2>1 DEF Slot
  <2>3. \A q \in Positions : Accepts(q)' => Accepts(q)
    BY <1>1, <1>5, <2>1 DEF Accepts, Slot, EmptySlot
  <2>4. \A i \in DOMAIN waiting : waiting[i] \in Positions
    BY <1>1
  <2> QED
    BY <1>1, <1>3, <2>2, <2>3, <2>4 DEF HandOver, WaitsOn, Accepts
<1> QED
  BY <1>4, <1>5 DEF close_fail

\* Every step keeps HandOver.
LEMMA HandOverStep == TypeInv /\ HandOver /\ [Next]_vars => HandOver'
<1> SUFFICES ASSUME TypeInv, HandOver, [Next]_vars
             PROVE  HandOver'
  OBVIOUS
<1>t. pc \in [Threads -> Labels] /\ Clients \subseteq Threads
  BY DEF TypeInv, TypeOK, Threads
<1>d. \A c \in Clients : c \notin Workers /\ c \notin Admins
  BY ThreadsAssumption
<1>f. KeepWaiting /\ (UNCHANGED waiting \/ waiting' = <<>>) => HandOver'
  BY HandOverFrame
<1>0. ASSUME NEW t \in Threads, Return(t)
      PROVE  HandOver'
  <2>1. CASE _return_connection(t) \/ _add_to_pool_early(t)
    BY <2>1, <1>f, <1>t
       DEF _return_connection, _add_to_pool_early, CloseCur, KeepWaiting, At,
           Goto, queueVars, clientVars
  <2> QED
    BY <1>0, <2>1, HandOver_serve DEF Return
<1>1. ASSUME NEW c \in Clients, ClientStep(c)
      PROVE  HandOver'
  <2>1. CASE Return(c)
    BY <1>0, <2>1 DEF Threads
  <2>2. CASE \/ getconn(c) \/ getconn_timeout(c) \/ check_interrupted(c)
             \/ getconn_refused(c) \/ check_passes(c) \/ check_fails(c)
    BY <2>2, <1>f, <1>t
       DEF getconn, getconn_timeout, check_interrupted, getconn_refused,
           check_passes, check_fails, KeepWaiting, At, Goto, queueVars,
           clientVars
  <2>3. CASE \/ backoff(c) \/ putconn(c) \/ _putconn(c)
             \/ _get_ready_connection(c)
    BY <2>3, <1>f, <1>t
       DEF backoff, putconn, _putconn, _get_ready_connection, KeepWaiting, At,
           Goto, queueVars, clientVars
  <2> QED
    BY <1>1, <2>1, <2>2, <2>3, HandOver_enqueue, HandOver_broken,
       HandOver_returns DEF ClientStep, Request
<1>2. ASSUME NEW w \in Workers, WorkerStep(w)
      PROVE  HandOver'
  <2>1. CASE Return(w)
    BY <1>0, <2>1 DEF Threads
  <2>2. CASE worker(w)
    BY <2>2, <1>d, <1>f, <1>t
       DEF worker, KeepWaiting, Goto, queueVars, clientVars
  <2>3. CASE \/ _connect(w) \/ _add_connection_grow(w) \/ _shrink_pool(w)
             \/ _shrink_close(w) \/ _connect_fails(w)
    BY <2>3, <1>d, <1>f, <1>t
       DEF _connect, _add_connection_grow, _shrink_pool, _shrink_close,
           _connect_fails, KeepWaiting, Goto, queueVars, clientVars
  <2> QED
    BY <1>2, <2>1, <2>2, <2>3 DEF WorkerStep, Work
<1>3. ASSUME NEW a \in Admins, AdminStep(a)
      PROVE  HandOver'
  <2>1. CASE Return(a)
    BY <1>0, <2>1 DEF Threads
  <2>2. CASE \/ close(a) \/ close_lock(a) \/ close_conns(a) \/ check(a)
             \/ check_next(a) \/ resize(a)
    BY <2>2, <1>d, <1>f, <1>t
       DEF close, close_lock, close_conns, check, check_next, resize,
           KeepWaiting, Goto, queueVars, clientVars
  <2>3. CASE \/ resize_lock(a) \/ resize_run(a) \/ wait(a) \/ wait_lock(a)
             \/ wait_ends(a)
    BY <2>3, <1>d, <1>f, <1>t
       DEF resize_lock, resize_run, wait, wait_lock, wait_ends,
           KeepWaiting, Goto, queueVars, clientVars
  <2> QED
    BY <1>3, <2>1, <2>2, <2>3, HandOver_fail DEF AdminStep, Administer
<1>4. CASE open
  BY <1>4, <1>d, <1>f, <1>t DEF open, KeepWaiting, queueVars, clientVars
<1>5. ASSUME NEW k \in DelayedKinds, tick(k)
      PROVE  HandOver'
  BY <1>5, <1>f DEF tick, KeepWaiting, queueVars, clientVars
<1>6. CASE UNCHANGED vars
  BY <1>6, <1>f DEF vars, KeepWaiting
<1> QED
  BY <1>1, <1>2, <1>3, <1>4, <1>5, <1>6 DEF Next

\* WaitingClient.set() gives no connection to nobody: whoever accepted one
\* still waits and returns it, even if it timed out or was interrupted.
THEOREM HandOverCorrect == Spec => []AcceptedIsDelivered
<1>1. Init => HandOver
  BY DEF Init, HandOver, EmptySlot
<1>2. HandOver => AcceptedIsDelivered
  BY DEF HandOver, AcceptedIsDelivered, WaitsOn, WaitResult, At
<1> QED
  BY <1>1, <1>2, TypeInit, TypeStep, HandOverStep, PTL DEF Spec
=============================================================================
