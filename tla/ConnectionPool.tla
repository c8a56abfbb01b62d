--------------------------- MODULE ConnectionPool ---------------------------
(***************************************************************************)
(* The threaded connection pool, gaussdb_pool.pool.ConnectionPool.         *)
(*                                                                         *)
(* Client threads call getconn()/putconn(); worker threads consume the     *)
(* queue of maintenance tasks; the scheduler thread moves delayed tasks    *)
(* back to that queue; other threads call close(), check(), resize() and   *)
(* wait().  What the code does while holding pool._lock is one action, as  *)
(* is every use of a WaitingClient's condition; the code between two such  *)
(* sections (a callback, a connection attempt, an unlocked read of         *)
(* _closed) ends one action and starts another.                            *)
(*                                                                         *)
(* Connections and queue positions are Python objects: an identity that    *)
(* nothing refers to any more may be taken again, the least one first      *)
(* because identities are interchangeable.  Time is abstracted: whatever   *)
(* depends on the clock (a timeout, an expiry date, a give-up time) may    *)
(* happen whenever the code would test for it.                             *)
(***************************************************************************)
EXTENDS Integers, Sequences, FiniteSets

CONSTANTS
  Clients,      \* threads that call getconn() and putconn()
  Workers,      \* worker threads (num_workers)
  Closers,      \* threads that call close() once
  Checkers,     \* threads that call check(), again and again
  Resizers,     \* threads that call resize() once
  Waiters,      \* threads that call wait() once
  Programs,     \* which of these threads there are: sets of them
  Conns,        \* identities of Connection objects, positive integers
  Positions,    \* identities of WaitingClient objects, positive integers
  MinSize, MaxSize,  \* the constructor's min_size and max_size
  MaxWaiting,   \* max_waiting, 0 for no limit
  ResizeTo,     \* the <<min_size, max_size>> each resizer asks for
  HasReset,     \* is a reset callback configured?
  HasCheck,     \* is a check callback configured?
  ConnectFails, \* may a connection attempt (or configure) fail?
  Interrupts    \* calls a KeyboardInterrupt may break: "wait", "check"

Admins  == Closers \cup Checkers \cup Resizers \cup Waiters
Threads == Clients \cup Workers \cup Admins
NoConn  == 0
NoPos   == 0

\* What BasePool._check_size accepts.
SizesOK(min, max) == min \in Nat /\ max \in Nat /\ min <= max /\ max > 0

ASSUME ConstantsAssumption ==
  /\ Conns \subseteq Nat \ {0} /\ Positions \subseteq Nat \ {0}
  /\ SizesOK(MinSize, MaxSize) /\ MaxWaiting \in Nat
  /\ ResizeTo \in [Resizers -> Nat \X Nat]
  /\ \A r \in Resizers : SizesOK(ResizeTo[r][1], ResizeTo[r][2])
  /\ HasReset \in BOOLEAN /\ HasCheck \in BOOLEAN /\ ConnectFails \in BOOLEAN
  /\ Interrupts \subseteq {"wait", "check"}
ASSUME ThreadsAssumption ==
  /\ IsFiniteSet(Workers)
  /\ Clients \cap Workers = {} /\ (Clients \cup Workers) \cap Admins = {}
  /\ Closers \cap (Checkers \cup Resizers \cup Waiters) = {}
  /\ Checkers \cap (Resizers \cup Waiters) = {} /\ Resizers \cap Waiters = {}

VARIABLES
  closed, opened,      \* _closed, _opened
  min_size, max_size,  \* _min_size, _max_size
  nconns, nconns_min,  \* _nconns, _nconns_min
  growing,             \* _growing
  pool,                \* _pool: the deque of idle connections
  waiting,             \* _waiting: the deque of queue positions
  full_event,          \* _pool_full_event: "none", "unset" or "set"
  tasks,               \* _tasks: the queue of the workers
  sched,               \* how many of each delayed task _sched holds
  slot,                \* the conn and error of each WaitingClient
  status,              \* transaction_status of each connection
  pc,                  \* where each thread is
  cur,                 \* the connection in each thread's local variable
  pos,                 \* the position each client waits on
  fromget,             \* from_getconn of the return a client executes
  job,                 \* growing and retry of the task each worker runs
  batch,               \* connections a check() or close() took from _pool
  doomed,              \* positions a close() took from _waiting
  togrow               \* ngrow of each resize() in progress

sizeVars   == <<min_size, max_size>>
growVars   == <<nconns, growing>>
clientVars == <<pos, fromget>>
adminVars  == <<batch, doomed, togrow>>
queueVars  == <<waiting, slot>>
taskVars   == <<tasks, sched>>
flagVars   == <<closed, opened>>
vars == <<closed, opened, min_size, max_size, nconns, nconns_min, growing,
          pool, waiting, full_event, tasks, sched, slot, status, pc, cur, pos,
          fromget, job, batch, doomed, togrow>>

\* The places where a thread of each kind may be.
Labels == {"idle", "getconn", "waiting", "checking", "using", "putconn",
           "backoff", "returning", "add_check", "add_lock",
           "off", "connecting", "grow", "shrinking", "shrunk", "stopped",
           "start", "close_lock", "gather", "fail", "check_next",
           "resize_lock", "resize_run", "wait_lock", "await_full", "done"}

-----------------------------------------------------------------------------
(* Maintenance tasks.  An AddConnection carries the growing flag and an     *)
(* AttemptWithBackoff, of which only "delayed at least once" matters.       *)

Task == [kind: {"add", "return", "shrink", "schedule", "stop"},
         conn: Conns \cup {NoConn}, growing: BOOLEAN, retry: BOOLEAN]
Simple(k) == [kind |-> k, conn |-> NoConn, growing |-> FALSE, retry |-> FALSE]

AddConnection(g) == [Simple("add") EXCEPT !.growing = g]
RetryConnection(g) == [AddConnection(g) EXCEPT !.retry = TRUE]
ReturnConnection(x) == [Simple("return") EXCEPT !.conn = x]

\* The delayed tasks: retried attempts (growing or not) and ShrinkPool.
DelayedKinds == {"add", "grow", "shrink"}
Delayed(k) == CASE k = "shrink" -> Simple("shrink")
                [] k = "grow"   -> RetryConnection(TRUE)
                [] OTHER        -> RetryConnection(FALSE)

\* What a worker keeps of the AddConnection it runs.
Job(g, r) == [growing |-> g, retry |-> r]
NoJob == Job(FALSE, FALSE)

run_task(t) == tasks' = Append(tasks, t)
schedule_task(k) == sched' = [sched EXCEPT ![k] = @ + 1]

-----------------------------------------------------------------------------
(* Objects and threads.                                                     *)

Elems(s) == {s[i] : i \in DOMAIN s}
Slot == [conn: Conns \cup {NoConn},
         error: {"none", "timeout", "interrupt", "closed"}]
EmptySlot == [conn |-> NoConn, error |-> "none"]
Goto(t, l) == pc' = [pc EXCEPT ![t] = l]
At(t, l) == pc[t] = l

Referenced(x) ==
  \/ x \in Elems(pool)
  \/ \E t \in Threads : cur[t] = x
  \/ \E p \in Positions : slot[p].conn = x
  \/ \E i \in DOMAIN tasks : tasks[i].conn = x
  \/ \E a \in Admins : x \in Elems(batch[a])

\* The connection a new Connection object gets as identity.
Fresh(x) == /\ x \in Conns /\ ~Referenced(x)
            /\ \A y \in Conns : y < x => Referenced(y)

UsedPos(p) == \/ p \in Elems(waiting)
              \/ \E c \in Clients : pos[c] = p
              \/ \E a \in Admins : p \in Elems(doomed[a])
FreshPos(p) == /\ p \in Positions /\ ~UsedPos(p)
               /\ \A q \in Positions : q < p => UsedPos(q)

\* WaitingClient.set() and fail() succeed on a position still in this state.
Accepts(p) == slot[p] = EmptySlot

Init ==
  /\ closed = TRUE /\ opened = FALSE
  /\ min_size = MinSize /\ max_size = MaxSize
  /\ nconns = MinSize /\ nconns_min = MinSize /\ growing = FALSE
  /\ pool = <<>> /\ waiting = <<>> /\ full_event = "none"
  /\ tasks = <<>> /\ sched = [k \in DelayedKinds |-> 0]
  /\ slot = [p \in Positions |-> EmptySlot]
  /\ status = [x \in Conns |-> "UNKNOWN"]
  /\ \E calling \in Programs :
       pc = [t \in Threads |-> IF t \in Workers THEN "off"
                               ELSE IF t \in Clients THEN "idle"
                               ELSE IF t \in calling THEN "start" ELSE "done"]
  /\ cur = [t \in Threads |-> NoConn]
  /\ pos = [c \in Clients |-> NoPos] /\ fromget = [c \in Clients |-> FALSE]
  /\ job = [w \in Workers |-> NoJob]
  /\ batch = [a \in Admins |-> <<>>] /\ doomed = [a \in Admins |-> <<>>]
  /\ togrow = [a \in Admins |-> 0]

\* open(): start the workers, one AddConnection per initial connection and
\* the trampoline that schedules ShrinkPool.  Reopening raises.
open ==
  /\ closed /\ ~opened
  /\ closed' = FALSE /\ opened' = TRUE
  /\ tasks' = [i \in 1..nconns |-> AddConnection(FALSE)]
                 \o <<Simple("schedule")>>
  /\ pc' = [t \in Threads |-> IF t \in Workers THEN "idle" ELSE pc[t]]
  /\ UNCHANGED <<sizeVars, growVars, nconns_min, pool, full_event, sched,
                 queueVars, status, cur, clientVars, job, adminVars>>

-----------------------------------------------------------------------------
(* getconn()                                                                *)

\* getconn() up to the critical section: the unlocked test of _closed.  On a
\* pool that is closed, or not open yet, it raises and nothing changes.
getconn(c) ==
  /\ At(c, "idle") /\ ~closed
  /\ Goto(c, "getconn")
  /\ UNCHANGED <<flagVars, sizeVars, growVars, nconns_min, pool, full_event,
                 taskVars, queueVars, status, cur, clientVars, job, adminVars>>

CanGrow_OffByOne == nconns + 1 < max_size /\ ~growing

\* _maybe_grow_pool's condition: only one task at a time grows the pool.
CanGrow == nconns < max_size /\ ~growing

_maybe_grow_pool ==
  \/ /\ CanGrow
     /\ nconns' = nconns + 1 /\ growing' = TRUE
     /\ run_task(AddConnection(TRUE))
  \/ /\ ~CanGrow
     /\ UNCHANGED <<nconns, growing, tasks>>

\* Mutant of NewMin: counts the connection taken twice.
NewMin_OffByOne == IF Len(pool) - 2 < nconns_min THEN Len(pool) - 2
                                                 ELSE nconns_min

\* The minimum of idle connections once one of them is taken.
NewMin == IF Len(pool) - 1 < nconns_min THEN Len(pool) - 1 ELSE nconns_min

\* _getconn_unchecked, a connection is ready: take it out of the pool.
_get_ready_connection(c) ==
  /\ At(c, "getconn") /\ pool # <<>>
  /\ cur' = [cur EXCEPT ![c] = Head(pool)]
  /\ pool' = Tail(pool)
  /\ nconns_min' = NewMin
  /\ Goto(c, "checking")
  /\ UNCHANGED <<flagVars, sizeVars, growVars, full_event, taskVars, queueVars,
                 status, clientVars, job, adminVars>>

\* _get_ready_connection raises PoolTimeout: the deadline is past.
getconn_timeout(c) ==
  /\ At(c, "getconn")
  /\ Goto(c, "idle")
  /\ UNCHANGED <<flagVars, sizeVars, growVars, nconns_min, pool, full_event,
                 taskVars, queueVars, status, cur, clientVars, job, adminVars>>

\* _get_ready_connection raises TooManyRequests: no connection, a full queue.
QueueFull == MaxWaiting > 0 /\ Len(waiting) >= MaxWaiting
getconn_refused(c) ==
  /\ At(c, "getconn") /\ pool = <<>> /\ QueueFull
  /\ Goto(c, "idle")
  /\ UNCHANGED <<flagVars, sizeVars, growVars, nconns_min, pool, full_event,
                 taskVars, queueVars, status, cur, clientVars, job, adminVars>>

\* _getconn_unchecked, no connection ready: join the queue, maybe grow.
getconn_enqueue(c) ==
  /\ At(c, "getconn") /\ pool = <<>> /\ ~QueueFull
  /\ \E p \in Positions :
       /\ FreshPos(p)
       /\ waiting' = Append(waiting, p)
       /\ slot' = [slot EXCEPT ![p] = EmptySlot]
       /\ pos' = [pos EXCEPT ![c] = p]
  /\ _maybe_grow_pool
  /\ Goto(c, "waiting")
  /\ UNCHANGED <<flagVars, sizeVars, nconns_min, pool, full_event, sched,
                 status, cur, fromget, job, adminVars>>

\* WaitingClient.wait() wakes up without a notification: the timeout expired,
\* or an exception such as KeyboardInterrupt broke it.  A set() or a fail()
\* may have come between the end of the wait and the reacquisition of the
\* condition's lock: the error of the former is overwritten.
wait_broken(c) ==
  /\ At(c, "waiting") /\ slot[pos[c]].error \in {"none", "closed"}
  /\ \E e \in {"timeout"} \cup (IF "wait" \in Interrupts THEN {"interrupt"}
                                                         ELSE {}) :
       slot' = [slot EXCEPT ![pos[c]].error = e]
  /\ UNCHANGED <<flagVars, sizeVars, growVars, nconns_min, pool, waiting,
                 full_event, taskVars, status, pc, cur, clientVars, job,
                 adminVars>>

\* Mutant of WaitResult: the error wins over the connection.
WaitResult_ErrorFirst(s) == IF s.error # "none" THEN NoConn ELSE s.conn

\* The end of WaitingClient.wait(): the connection wins over the error.
WaitResult(s) == s.conn

wait_returns(c) ==
  LET s == slot[pos[c]] IN
  /\ At(c, "waiting") /\ s # EmptySlot
  /\ cur' = [cur EXCEPT ![c] = WaitResult(s)]
  /\ Goto(c, IF WaitResult(s) # NoConn THEN "checking" ELSE "idle")
  /\ pos' = [pos EXCEPT ![c] = NoPos]
  /\ slot' = [slot EXCEPT ![pos[c]].conn = NoConn]
  /\ UNCHANGED <<flagVars, sizeVars, growVars, nconns_min, pool, waiting,
                 full_event, taskVars, status, fromget, job, adminVars>>

\* _check_connection succeeds (or there is no check): the client owns it.
check_passes(c) ==
  /\ At(c, "checking")
  /\ Goto(c, "using")
  /\ UNCHANGED <<flagVars, sizeVars, growVars, nconns_min, pool, full_event,
                 taskVars, queueVars, status, cur, clientVars, job, adminVars>>

\* The status whoever used connection x may leave it in.  A connection that
\* the server dropped is found out by the first use of it.
LeftIn(x) == IF status[x] = "UNKNOWN" THEN {"UNKNOWN"}
             ELSE {"IDLE", "INTRANS", "ACTIVE", "UNKNOWN"}

\* The check callback raises: the connection goes back with from_getconn.
check_fails(c) ==
  /\ At(c, "checking") /\ HasCheck
  /\ \E s \in LeftIn(cur[c]) : status' = [status EXCEPT ![cur[c]] = s]
  /\ Goto(c, "putconn") /\ fromget' = [fromget EXCEPT ![c] = TRUE]
  /\ UNCHANGED <<flagVars, sizeVars, growVars, nconns_min, pool, full_event,
                 taskVars, queueVars, cur, pos, job, adminVars>>

\* A KeyboardInterrupt in the check callback is no Exception: it leaves
\* getconn(), and the connection, in a local variable only, is collected.
check_interrupted(c) ==
  /\ At(c, "checking") /\ HasCheck /\ "check" \in Interrupts
  /\ status' = [status EXCEPT ![cur[c]] = "UNKNOWN"]
  /\ cur' = [cur EXCEPT ![c] = NoConn]
  /\ Goto(c, "idle")
  /\ UNCHANGED <<flagVars, sizeVars, growVars, nconns_min, pool, full_event,
                 taskVars, queueVars, clientVars, job, adminVars>>

\* After a failed check: give up with PoolTimeout, or sleep and try again.
backoff(c) ==
  /\ At(c, "backoff")
  /\ Goto(c, "idle") \/ Goto(c, "getconn")
  /\ fromget' = [fromget EXCEPT ![c] = FALSE]
  /\ UNCHANGED <<flagVars, sizeVars, growVars, nconns_min, pool, full_event,
                 taskVars, queueVars, status, cur, pos, job, adminVars>>

-----------------------------------------------------------------------------
(* putconn() and the return of a connection                                 *)

\* putconn(): _maybe_close_connection reads _closed without the lock.
putconn(c) ==
  /\ At(c, "using")
  /\ \/ /\ closed
        /\ status' = [status EXCEPT ![cur[c]] = "UNKNOWN"]
        /\ cur' = [cur EXCEPT ![c] = NoConn]
        /\ Goto(c, "idle")
     \/ /\ ~closed
        /\ \E s \in LeftIn(cur[c]) : status' = [status EXCEPT ![cur[c]] = s]
        /\ Goto(c, "putconn")
        /\ UNCHANGED cur
  /\ UNCHANGED <<flagVars, sizeVars, growVars, nconns_min, pool, full_event,
                 taskVars, queueVars, clientVars, job, adminVars>>

\* Where a client goes on when _putconn is over.
AfterPut(c) == IF fromget[c] THEN "backoff" ELSE "idle"

\* _putconn(): to a worker when there is a reset callback, here otherwise.
_putconn(c) ==
  /\ At(c, "putconn")
  /\ \/ /\ HasReset
        /\ run_task(ReturnConnection(cur[c]))
        /\ cur' = [cur EXCEPT ![c] = NoConn]
        /\ Goto(c, AfterPut(c))
     \/ /\ ~HasReset
        /\ Goto(c, "returning")
        /\ UNCHANGED <<cur, tasks>>
  /\ UNCHANGED <<flagVars, sizeVars, growVars, nconns_min, pool, full_event,
                 sched, queueVars, status, clientVars, job, adminVars>>

\* Where a thread goes on when the connection in its hands is dealt with.
After(t) ==
  IF t \in Clients THEN AfterPut(t)
  ELSE IF t \in Workers THEN IF job[t].growing THEN "grow" ELSE "idle"
  ELSE "check_next"

\* Mutant of Replace: nothing takes the place of the dropped connection.
Replace_Forget(t) ==
  /\ cur' = [cur EXCEPT ![t] = NoConn]
  /\ UNCHANGED tasks

\* Drop the connection of thread t and queue the attempt to replace it.
Replace(t) ==
  /\ run_task(AddConnection(FALSE))
  /\ cur' = [cur EXCEPT ![t] = NoConn]

\* _reset_connection: the status it can leave a connection in (INTRANS stands
\* for INERROR too).  A transaction is rolled back, unless that fails; the
\* reset callback may fail; a connection in the middle of a query is closed.
ResetStatus(s) == CASE s \in {"UNKNOWN", "ACTIVE"} -> {"UNKNOWN"}
                    [] s = "IDLE" /\ ~HasReset -> {"IDLE"}
                    [] OTHER -> {"IDLE", "UNKNOWN"}

\* _return_connection: reset the connection; replace it if it is broken, or
\* past its _expire_at (then it is closed); else go on with _add_to_pool.
_return_connection(t) ==
  /\ At(t, "returning")
  /\ \E s \in ResetStatus(status[cur[t]]) :
       \/ /\ status' = [status EXCEPT ![cur[t]] = "UNKNOWN"]
          /\ Replace(t) /\ Goto(t, After(t))
       \/ /\ s # "UNKNOWN"
          /\ status' = [status EXCEPT ![cur[t]] = s]
          /\ Goto(t, "add_check")
          /\ UNCHANGED <<cur, tasks>>
  /\ UNCHANGED <<flagVars, sizeVars, growVars, nconns_min, pool, full_event,
                 sched, queueVars, clientVars, job, adminVars>>

\* Mutant of CloseCur: forgets to close the connection.
CloseCur_Open(t) ==
  /\ cur' = [cur EXCEPT ![t] = NoConn]
  /\ Goto(t, After(t))
  /\ UNCHANGED status

\* Close the connection of t and let it go on.
CloseCur(t) ==
  /\ status' = [status EXCEPT ![cur[t]] = "UNKNOWN"]
  /\ cur' = [cur EXCEPT ![t] = NoConn]
  /\ Goto(t, After(t))

\* _add_to_pool, before the lock: bail out early from a closed pool.
_add_to_pool_early(t) ==
  /\ At(t, "add_check")
  /\ \/ closed /\ CloseCur(t)
     \/ ~closed /\ Goto(t, "add_lock") /\ UNCHANGED <<status, cur>>
  /\ UNCHANGED <<flagVars, sizeVars, growVars, nconns_min, pool, full_event,
                 taskVars, queueVars, clientVars, job, adminVars>>

\* Mutant of Notify: looks at the pool before the connection is in.
Notify_Early == full_event' = IF full_event = "unset" /\ Len(pool) >= min_size
                              THEN "set" ELSE full_event

\* Set the event of wait() if the connection just added fills the pool.
Notify == full_event' = IF full_event = "unset" /\ Len(pool) + 1 >= min_size
                        THEN "set" ELSE full_event

\* Mutant of Serve: back to the pool, whoever waits.
Serve_PoolFirst(x) ==
  /\ pool' = Append(pool, x)
  /\ Notify
  /\ UNCHANGED queueVars

\* Mutant of Serve: takes the positions from the wrong end of the deque.
Serve_Lifo(x) ==
  \/ \E i \in DOMAIN waiting :
       /\ Accepts(waiting[i])
       /\ \A j \in DOMAIN waiting : j > i => ~Accepts(waiting[j])
       /\ slot' = [slot EXCEPT ![waiting[i]].conn = x]
       /\ waiting' = SubSeq(waiting, 1, i - 1)
       /\ UNCHANGED <<pool, full_event>>
  \/ /\ \A i \in DOMAIN waiting : ~Accepts(waiting[i])
     /\ waiting' = <<>>
     /\ pool' = Append(pool, x)
     /\ Notify
     /\ UNCHANGED slot

\* Give x to the first position that accepts it, dropping the ones before,
\* else put it in the pool and tell the thread that waits for a full pool.
Serve(x) ==
  \/ \E i \in DOMAIN waiting :
       /\ Accepts(waiting[i])
       /\ \A j \in DOMAIN waiting : j < i => ~Accepts(waiting[j])
       /\ slot' = [slot EXCEPT ![waiting[i]].conn = x]
       /\ waiting' = SubSeq(waiting, i + 1, Len(waiting))
       /\ UNCHANGED <<pool, full_event>>
  \/ /\ \A i \in DOMAIN waiting : ~Accepts(waiting[i])
     /\ waiting' = <<>>
     /\ pool' = Append(pool, x)
     /\ Notify
     /\ UNCHANGED slot

\* Mutant of ClosedForReal: relies on the early test only.
ClosedForReal_Skip == FALSE

\* _add_to_pool's test of _closed once the lock is held.
ClosedForReal == closed

\* _add_to_pool, the critical section.
_add_to_pool(t) ==
  /\ At(t, "add_lock")
  /\ \/ /\ ClosedForReal
        /\ CloseCur(t)
        /\ UNCHANGED <<queueVars, pool, full_event>>
     \/ /\ ~ClosedForReal
        /\ Serve(cur[t])
        /\ cur' = [cur EXCEPT ![t] = NoConn]
        /\ Goto(t, After(t))
        /\ UNCHANGED status
  /\ UNCHANGED <<flagVars, sizeVars, growVars, nconns_min, taskVars,
                 clientVars, job, adminVars>>

-----------------------------------------------------------------------------
(* Workers and scheduler                                                    *)

\* worker(): take a task and run() it.
worker(w) ==
  /\ At(w, "idle") /\ tasks # <<>>
  /\ tasks' = Tail(tasks)
  /\ LET tk == Head(tasks)
         runs(k) == ~closed /\ tk.kind = k IN
     \/ /\ tk.kind = "stop"
        /\ Goto(w, "stopped") /\ UNCHANGED <<cur, status, job, sched>>
     \/ \* run() discards the task; the connection of a return is collected
        /\ closed /\ tk.kind # "stop"
        /\ status' = [x \in Conns |-> IF x = tk.conn THEN "UNKNOWN"
                                                     ELSE status[x]]
        /\ UNCHANGED <<pc, cur, job, sched>>
     \/ /\ runs("add")
        /\ Goto(w, "connecting")
        /\ job' = [job EXCEPT ![w] = Job(tk.growing, tk.retry)]
        /\ UNCHANGED <<cur, status, sched>>
     \/ /\ runs("return")
        /\ Goto(w, "returning")
        /\ cur' = [cur EXCEPT ![w] = tk.conn]
        /\ UNCHANGED <<status, job, sched>>
     \/ /\ runs("shrink")
        /\ schedule_task("shrink")
        /\ Goto(w, "shrinking") /\ UNCHANGED <<cur, status, job>>
     \/ /\ runs("schedule")
        /\ schedule_task("shrink") /\ UNCHANGED <<pc, cur, status, job>>
  /\ UNCHANGED <<flagVars, sizeVars, growVars, nconns_min, pool, full_event,
                 queueVars, clientVars, adminVars>>

\* _add_connection: _connect() succeeds.
_connect(w) ==
  /\ At(w, "connecting")
  /\ \E x \in Conns : /\ Fresh(x)
                      /\ cur' = [cur EXCEPT ![w] = x]
                      /\ status' = [status EXCEPT ![x] = "IDLE"]
  /\ job' = [job EXCEPT ![w].retry = FALSE]
  /\ Goto(w, "add_check")
  /\ UNCHANGED <<flagVars, sizeVars, growVars, nconns_min, pool, full_event,
                 taskVars, queueVars, clientVars, adminVars>>

\* _add_connection: the attempt fails and is scheduled again, or, once it has
\* been delayed and its time is over, given up.
_connect_fails(w) ==
  /\ At(w, "connecting") /\ ConnectFails
  /\ \/ /\ schedule_task(IF job[w].growing THEN "grow" ELSE "add")
        /\ UNCHANGED growVars
     \/ /\ job[w].retry
        /\ nconns' = nconns - 1
        /\ growing' = (growing /\ ~job[w].growing)
        /\ UNCHANGED sched
  /\ job' = [job EXCEPT ![w] = NoJob]
  /\ Goto(w, "idle")
  /\ UNCHANGED <<flagVars, sizeVars, nconns_min, pool, full_event, tasks,
                 queueVars, status, cur, clientVars, adminVars>>

\* _add_connection, a growing task has added its connection: keep on growing
\* or let another request start it again.
KeepGrowing == \/ nconns < min_size
               \/ nconns < max_size /\ waiting # <<>>
_add_connection_grow(w) ==
  /\ At(w, "grow")
  /\ \/ /\ KeepGrowing
        /\ nconns' = nconns + 1
        /\ run_task(AddConnection(TRUE))
        /\ UNCHANGED growing
     \/ /\ ~KeepGrowing
        /\ growing' = FALSE
        /\ UNCHANGED <<nconns, tasks>>
  /\ job' = [job EXCEPT ![w] = NoJob]
  /\ Goto(w, "idle")
  /\ UNCHANGED <<flagVars, sizeVars, nconns_min, pool, full_event, sched,
                 queueVars, status, cur, clientVars, adminVars>>

\* _shrink_pool's condition.
CanShrink == nconns > min_size /\ nconns_min > 0 /\ pool # <<>>
_shrink_pool(w) ==
  /\ At(w, "shrinking")
  /\ \/ /\ CanShrink
        /\ cur' = [cur EXCEPT ![w] = Head(pool)]
        /\ pool' = Tail(pool)
        /\ nconns' = nconns - 1
        /\ nconns_min' = Len(pool) - 1
        /\ Goto(w, "shrunk")
     \/ /\ ~CanShrink
        /\ nconns_min' = Len(pool)
        /\ Goto(w, "idle")
        /\ UNCHANGED <<cur, pool, nconns>>
  /\ UNCHANGED <<flagVars, sizeVars, growing, full_event, taskVars, queueVars,
                 status, clientVars, job, adminVars>>

\* _shrink_pool, outside the lock: close the connection taken out.
_shrink_close(w) ==
  /\ At(w, "shrunk")
  /\ status' = [status EXCEPT ![cur[w]] = "UNKNOWN"]
  /\ cur' = [cur EXCEPT ![w] = NoConn]
  /\ Goto(w, "idle")
  /\ UNCHANGED <<flagVars, sizeVars, growVars, nconns_min, pool, full_event,
                 taskVars, queueVars, clientVars, job, adminVars>>

\* The scheduler thread calls tick() of a delayed task, which discards it on
\* a closed pool and gives it to the workers otherwise.
tick(k) ==
  /\ opened /\ sched[k] > 0
  /\ sched' = [sched EXCEPT ![k] = @ - 1]
  /\ \/ closed /\ UNCHANGED tasks
     \/ ~closed /\ run_task(Delayed(k))
  /\ UNCHANGED <<flagVars, sizeVars, growVars, nconns_min, pool, full_event,
                 queueVars, status, pc, cur, clientVars, job, adminVars>>

-----------------------------------------------------------------------------
(* close(), check(), resize(), wait()                                       *)

\* close(): the unlocked test of _closed.
close(a) ==
  /\ At(a, "start") /\ a \in Closers
  /\ Goto(a, IF closed THEN "done" ELSE "close_lock")
  /\ UNCHANGED <<flagVars, sizeVars, growVars, nconns_min, pool, full_event,
                 taskVars, queueVars, status, cur, clientVars, job, adminVars>>

\* Mutant of StopTasks: a single StopWorker for all the workers.
StopTasks_One == 1

\* _signal_stop_worker: a StopWorker for each worker in the list, which the
\* first close() empties.
StopTasks == IF closed THEN 0 ELSE Cardinality(Workers)

\* Mutant of TakeIdle: copies the deque without clearing it.
TakeIdle_Copy(a) ==
  /\ batch' = [batch EXCEPT ![a] = pool]
  /\ UNCHANGED pool

\* Take every idle connection out of the pool.
TakeIdle(a) ==
  /\ batch' = [batch EXCEPT ![a] = pool]
  /\ pool' = <<>>

\* close(): set the flag, take clients and connections, stop the workers.
close_lock(a) ==
  /\ At(a, "close_lock")
  /\ closed' = TRUE
  /\ doomed' = [doomed EXCEPT ![a] = waiting] /\ waiting' = <<>>
  /\ TakeIdle(a)
  /\ tasks' = tasks \o [i \in 1..StopTasks |-> Simple("stop")]
  /\ Goto(a, "gather")
  /\ UNCHANGED <<opened, sizeVars, growVars, nconns_min, full_event, sched,
                 slot, status, cur, clientVars, job, togrow>>

\* close(): gather() ends when every worker has stopped, or times out.
\* Then the connections are closed.
close_conns(a) ==
  /\ At(a, "gather")
  /\ status' = [x \in Conns |-> IF x \in Elems(batch[a]) THEN "UNKNOWN"
                                                         ELSE status[x]]
  /\ batch' = [batch EXCEPT ![a] = <<>>]
  /\ Goto(a, "fail")
  /\ UNCHANGED <<flagVars, sizeVars, growVars, nconns_min, pool, full_event,
                 taskVars, queueVars, cur, clientVars, job, doomed, togrow>>

\* close(): fail() the clients taken out of the queue, one by one.
close_fail(a) ==
  /\ At(a, "fail")
  /\ \/ /\ doomed[a] # <<>>
        /\ LET p == Head(doomed[a]) IN
             slot' = IF Accepts(p) THEN [slot EXCEPT ![p].error = "closed"]
                                   ELSE slot
        /\ doomed' = [doomed EXCEPT ![a] = Tail(@)]
        /\ UNCHANGED pc
     \/ /\ doomed[a] = <<>>
        /\ Goto(a, "done")
        /\ UNCHANGED <<slot, doomed>>
  /\ UNCHANGED <<flagVars, sizeVars, growVars, nconns_min, pool, full_event,
                 taskVars, waiting, status, cur, clientVars, job, batch,
                 togrow>>

\* check(): take every idle connection out of the pool, maybe grow.
check(a) ==
  /\ At(a, "start") /\ a \in Checkers /\ opened
  /\ TakeIdle(a)
  /\ _maybe_grow_pool
  /\ Goto(a, "check_next")
  /\ UNCHANGED <<flagVars, sizeVars, nconns_min, full_event, sched, queueVars,
                 status, cur, clientVars, job, doomed, togrow>>

\* check(): drop a connection and queue the attempt to replace it.
Discard(x) ==
  /\ status' = [status EXCEPT ![x] = "UNKNOWN"]
  /\ run_task(AddConnection(FALSE))

\* check(): the last connection of the list is expired, broken or good.
check_next(a) ==
  /\ At(a, "check_next")
  /\ \/ /\ batch[a] = <<>>
        /\ Goto(a, "start")
        /\ UNCHANGED <<tasks, status, cur, batch>>
     \/ /\ batch[a] # <<>>
        /\ batch' = [batch EXCEPT ![a] = SubSeq(@, 1, Len(@) - 1)]
        /\ LET x == batch[a][Len(batch[a])] IN
           \/ /\ Discard(x)
              /\ UNCHANGED <<pc, cur>>
           \/ /\ cur' = [cur EXCEPT ![a] = x]
              /\ Goto(a, "add_check")
              /\ UNCHANGED <<tasks, status>>
  /\ UNCHANGED <<flagVars, sizeVars, growVars, nconns_min, pool, full_event,
                 sched, queueVars, clientVars, job, doomed, togrow>>

\* resize(): compute ngrow from _min_size, without the lock.
NGrow(a) == LET d == ResizeTo[a][1] - min_size IN IF d > 0 THEN d ELSE 0
resize(a) ==
  /\ At(a, "start") /\ a \in Resizers /\ opened
  /\ togrow' = [togrow EXCEPT ![a] = NGrow(a)]
  /\ Goto(a, "resize_lock")
  /\ UNCHANGED <<flagVars, sizeVars, growVars, nconns_min, pool, full_event,
                 taskVars, queueVars, status, cur, clientVars, job, batch,
                 doomed>>

\* resize(): the critical section.
resize_lock(a) ==
  /\ At(a, "resize_lock")
  /\ min_size' = ResizeTo[a][1] /\ max_size' = ResizeTo[a][2]
  /\ nconns' = nconns + togrow[a]
  /\ Goto(a, "resize_run")
  /\ UNCHANGED <<flagVars, growing, nconns_min, pool, full_event, taskVars,
                 queueVars, status, cur, clientVars, job, adminVars>>

\* resize(): one AddConnection for each connection to grow.
resize_run(a) ==
  /\ At(a, "resize_run")
  /\ \/ /\ togrow[a] > 0
        /\ run_task(AddConnection(FALSE))
        /\ togrow' = [togrow EXCEPT ![a] = @ - 1]
        /\ UNCHANGED pc
     \/ /\ togrow[a] = 0
        /\ Goto(a, "done")
        /\ UNCHANGED <<tasks, togrow>>
  /\ UNCHANGED <<flagVars, sizeVars, growVars, nconns_min, pool, full_event,
                 sched, queueVars, status, cur, clientVars, job, batch,
                 doomed>>

\* wait(): the unlocked test of _closed.
wait(a) ==
  /\ At(a, "start") /\ a \in Waiters /\ ~closed
  /\ Goto(a, "wait_lock")
  /\ UNCHANGED <<flagVars, sizeVars, growVars, nconns_min, pool, full_event,
                 taskVars, queueVars, status, cur, clientVars, job, adminVars>>

\* wait(): fail if somebody else waits, return if the pool is full, else
\* create the event to wait on.
wait_lock(a) ==
  /\ At(a, "wait_lock")
  /\ \/ /\ full_event # "none" \/ Len(pool) >= min_size
        /\ Goto(a, "done") /\ UNCHANGED full_event
     \/ /\ full_event = "none" /\ Len(pool) < min_size
        /\ full_event' = "unset" /\ Goto(a, "await_full")
  /\ UNCHANGED <<flagVars, sizeVars, growVars, nconns_min, pool, taskVars,
                 queueVars, status, cur, clientVars, job, adminVars>>

\* wait(): the event is set and removed; or the wait times out: close().
wait_ends(a) ==
  /\ At(a, "await_full")
  /\ \/ /\ full_event = "set"
        /\ full_event' = "none" /\ Goto(a, "done")
     \/ /\ Goto(a, IF closed THEN "done" ELSE "close_lock")
        /\ UNCHANGED full_event
  /\ UNCHANGED <<flagVars, sizeVars, growVars, nconns_min, pool, taskVars,
                 queueVars, status, cur, clientVars, job, adminVars>>

-----------------------------------------------------------------------------
\* The steps a thread takes by itself once it has started a call.
Return(t) == _return_connection(t) \/ _add_to_pool_early(t) \/ _add_to_pool(t)

Request(c) == _get_ready_connection(c) \/ getconn_refused(c)
              \/ getconn_enqueue(c) \/ wait_returns(c) \/ check_passes(c)
              \/ check_fails(c) \/ backoff(c) \/ putconn(c) \/ _putconn(c)
              \/ Return(c)
ClientStep(c) == getconn(c) \/ getconn_timeout(c) \/ wait_broken(c)
                 \/ check_interrupted(c) \/ Request(c)

Work(w) == worker(w) \/ _connect(w) \/ _add_connection_grow(w)
           \/ _shrink_pool(w) \/ _shrink_close(w) \/ Return(w)
WorkerStep(w) == Work(w) \/ _connect_fails(w)

Administer(a) == \/ close_lock(a) \/ close_conns(a) \/ close_fail(a)
                 \/ check_next(a) \/ Return(a)
                 \/ resize_lock(a) \/ resize_run(a) \/ wait_lock(a)
AdminStep(a) == \/ close(a) \/ check(a) \/ resize(a) \/ wait(a)
                \/ wait_ends(a) \/ Administer(a)

Next == \/ open
        \/ \E c \in Clients : ClientStep(c)
        \/ \E w \in Workers : WorkerStep(w)
        \/ \E a \in Admins : AdminStep(a)
        \/ \E k \in DelayedKinds : tick(k)

Spec == Init /\ [][Next]_vars

\* Threads that have started a call go on with it, workers consume the queue
\* and the scheduler's clock advances.  Nobody has to ask for a connection, and
\* no timeout or interrupt has to happen.
Fairness == /\ \A c \in Clients : WF_vars(Request(c))
            /\ \A w \in Workers : WF_vars(Work(w))
            /\ \A a \in Admins : WF_vars(Administer(a))
            /\ \A k \in DelayedKinds : WF_vars(tick(k))
FairSpec == Spec /\ Fairness

-----------------------------------------------------------------------------
(* Properties                                                               *)

\* The values of every variable.
TypeOK ==
  /\ closed \in BOOLEAN /\ opened \in BOOLEAN
  /\ min_size \in Nat /\ max_size \in Nat
  /\ nconns \in Int /\ nconns_min \in Nat /\ growing \in BOOLEAN
  /\ pool \in Seq(Conns) /\ waiting \in Seq(Positions)
  /\ full_event \in {"none", "unset", "set"}
  /\ tasks \in Seq(Task) /\ sched \in [DelayedKinds -> Nat]
  /\ slot \in [Positions -> Slot]
  /\ status \in [Conns -> {"UNKNOWN", "IDLE", "INTRANS", "ACTIVE"}]
  /\ pc \in [Threads -> Labels]
  /\ cur \in [Threads -> Conns \cup {NoConn}]
  /\ pos \in [Clients -> Positions \cup {NoPos}]
  /\ fromget \in [Clients -> BOOLEAN]
  /\ job \in [Workers -> [growing: BOOLEAN, retry: BOOLEAN]]
  /\ batch \in [Admins -> Seq(Conns)] /\ doomed \in [Admins -> Seq(Positions)]
  /\ togrow \in [Admins -> Nat]

IsOpen == opened /\ ~closed

\* No connection is in two places: in the deque twice, with two threads, with
\* a thread and in the pool, in a slot or in a task.  Every hand-over between
\* getconn, putconn, the workers, check() and close() moves the connection.
Places(x) ==
  Cardinality({i \in DOMAIN pool : pool[i] = x})
  + Cardinality({t \in Threads : cur[t] = x})
  + Cardinality({p \in Positions : slot[p].conn = x})
  + Cardinality({i \in DOMAIN tasks : tasks[i].conn = x})
  + Cardinality(UNION {{a} \X {i \in DOMAIN batch[a] : batch[a][i] = x} :
                         a \in Admins})
NoSharing == \A x \in Conns : Places(x) <= 1

\* _nconns counts exactly the connections in the pool, given to clients or
\* being prepared: whatever fails, expires, is checked, replaced, reset or
\* given up, in any interleaving, no connection is lost or counted twice.
InPool    == Len(pool)
Out       == Cardinality({t \in Threads : cur[t] # NoConn /\ ~At(t, "shrunk")})
             + Cardinality({p \in Positions : slot[p].conn # NoConn})
             + Cardinality(UNION {{a} \X DOMAIN batch[a] : a \in Admins})
Preparing == Cardinality({i \in DOMAIN tasks :
                            tasks[i].kind \in {"add", "return"}})
             + sched["add"] + sched["grow"]
             + Cardinality({w \in Workers : At(w, "connecting")})
             + Cardinality(UNION {{a} \X (1..togrow[a]) :
                              a \in {b \in Admins : At(b, "resize_run")}})
Accounting == IsOpen => nconns = InPool + Out + Preparing

\* The pool keeps below max_size, however growth, shrinking and replacement
\* interleave, if nobody resizes it.
SizeBounded == Resizers = {} => nconns <= max_size

\* _growing is set exactly while one growing AddConnection is queued, delayed
\* or running: growth is neither started twice nor forgotten forever.
Growers == Cardinality({i \in DOMAIN tasks : tasks[i].growing})
           + sched["grow"]
           + Cardinality({w \in Workers : job[w].growing})
OneGrower == IsOpen => Growers = IF growing THEN 1 ELSE 0

\* A connection never sits in the pool while a request is queued: _add_to_pool
\* and _getconn_unchecked decide in one critical section each.
NoIdleWhileWaiting == pool # <<>> => waiting = <<>>

\* A connection in the pool is ready to use: open and in no transaction, so
\* the client that pops it never gets what another client left behind.
PoolIsIdle == \A i \in DOMAIN pool : status[pool[i]] = "IDLE"

\* What the counters and flags of the pool say of its connections is so, after
\* any interleaving of requests, returns, failures and growth.
PoolSound == Accounting /\ SizeBounded /\ OneGrower /\ PoolIsIdle

\* A position that accepted a connection belongs to a client that is about to
\* return it from getconn(), even if its timeout expires or it is interrupted
\* at the same time: set() never gives a connection to nobody.
AcceptedIsDelivered ==
  \A p \in Positions : slot[p].conn # NoConn =>
    \E c \in Clients : At(c, "waiting") /\ pos[c] = p
       /\ WaitResult(slot[p]) = slot[p].conn

\* No connection enters a closed pool, which nobody would close again.
ClosedPoolEmpty == closed => pool = <<>>

\* The event of wait() is set as soon as the pool is full, while min_size is
\* not changed by resize().
FullIsNotified == full_event = "unset" => Len(pool) < min_size

\* A queued client gets a connection (or an error), if attempts succeed and
\* clients return what they take: no lost wake-up between growth, returns,
\* check() and shrinking.
EveryWaiterServed == \A c \in Clients : At(c, "waiting") ~> ~At(c, "waiting")

\* After close() every connection ends up closed: the ones in the pool, the
\* ones being prepared or returned, the ones clients hold.
CloseReleases == opened /\ closed ~> \A x \in Conns : status[x] = "UNKNOWN"

\* After close() every worker terminates, also if two threads close at once.
WorkersStop == opened /\ closed ~> \A w \in Workers : At(w, "stopped")
=============================================================================
