------------------------ MODULE AsyncConnectionPool ------------------------
(***************************************************************************)
(* The asyncio pools: gaussdb_pool.pool_async.AsyncConnectionPool and its  *)
(* subclass AsyncNullConnectionPool, which overrides some of its methods.  *)
(*                                                                         *)
(* Tasks of one event loop are not preempted: an action is all the code a  *)
(* task runs from where it was suspended to where it suspends again, calls *)
(* and critical sections included.  pool._lock is held over a suspension   *)
(* in one place only, the null pool's connection attempt inside getconn(); *)
(* whoever finds it held, or finds others queued for it, queues.  The      *)
(* locks of the scheduler and of the WaitingClients never make a task      *)
(* wait.  A task may be cancelled wherever it is suspended.                *)
(*                                                                         *)
(* A client waits on one position at a time, so _waiting holds clients;    *)
(* the position of one that stopped waiting stays there as Gone.  Time is  *)
(* abstracted: what depends on the clock may happen whenever it is tested. *)
(***************************************************************************)
EXTENDS Integers, Sequences, FiniteSets

CONSTANTS
  Setups,       \* the pools to start from (see Setup)
  Clients,      \* tasks that call getconn() and putconn()
  Workers,      \* worker tasks (num_workers)
  Closers,      \* tasks that call close() once
  Checkers,     \* tasks that call check(), again and again
  Waiters,      \* tasks that call wait() once
  Conns,        \* identities of AsyncConnection objects, positive integers
  MaxWaiting,   \* max_waiting, 0 for no limit
  Cancels       \* the places where a task may be cancelled

Admins == Closers \cup Checkers \cup Waiters
Tasks  == Clients \cup Workers \cup Admins
NoConn == 0
Failed == -1    \* what fail() leaves in the position of a client
Gone   == "gone"

\* A pool and its surroundings: its class and its sizes, whether it has reset and check
\* callbacks, whether connection attempts (or configure) may fail, the
\* administrative calls made on it, the <<min_size, max_size>> of a resize().
Setup == [kind: {"pool", "null"}, min: Nat, max: Nat, reset: BOOLEAN, check: BOOLEAN,
          fails: BOOLEAN, calls: SUBSET {"close", "check", "wait"},
          sizes: SUBSET (Nat \X Nat)]

ASSUME AsyncConstantsAssumption ==
  /\ Conns \subseteq Nat \ {0}
  /\ MaxWaiting \in Nat
  /\ \A s \in Setups :
       /\ s.min \in Nat /\ s.max \in Nat /\ s.min <= s.max
       /\ \/ s.kind = "pool" /\ s.max > 0
          \/ s.kind = "null" /\ s.min = 0
       /\ s.calls \subseteq {"close", "check", "wait"}
       /\ s.reset \in BOOLEAN /\ s.check \in BOOLEAN /\ s.fails \in BOOLEAN
       /\ \A z \in s.sizes : z[1] \in Nat /\ z[2] \in Nat \ {0} /\ z[1] <= z[2]
ASSUME AsyncTasksAssumption ==
  /\ IsFiniteSet(Workers) /\ Gone \notin Clients
  /\ Clients \cap Workers = {} /\ (Clients \cup Workers) \cap Admins = {}
  /\ Closers \cap (Checkers \cup Waiters) = {} /\ Checkers \cap Waiters = {}

VARIABLES
  setup,               \* the pool's class and surroundings: never changes
  closed, opened,      \* _closed, _opened
  min_size, max_size,  \* _min_size, _max_size
  nconns, nconns_min,  \* _nconns, _nconns_min
  growing,             \* _growing
  pool,                \* _pool: the deque of idle connections
  waiting,             \* _waiting: the clients queued, and Gone ones
  full_event,          \* _pool_full_event: "none", "unset" or "set"
  tasks,               \* _tasks: the queue of the workers
  sched,               \* how many of each delayed task _sched holds
  slot,                \* the conn or the error in each client's position
  status,              \* transaction_status of each connection
  pc,                  \* where each task is suspended
  cur,                 \* the connection in each task's local variable
  fromget,             \* from_getconn of the return a client executes
  job,                 \* growing and retry of the task each worker runs
  batch,               \* connections a check() or close() took from _pool
  doomed               \* clients a close() took from _waiting

flagVars  == <<setup, closed, opened>>
sizeVars  == <<min_size, max_size>>
countVars == <<nconns, nconns_min, growing>>
queueVars == <<waiting, slot>>
poolVars  == <<pool, full_event>>
taskVars  == <<tasks, sched>>
adminVars == <<batch, doomed>>
vars == <<setup, closed, opened, min_size, max_size, nconns, nconns_min,
          growing, pool, waiting, full_event, tasks, sched, slot, status, pc,
          cur, fromget, job, batch, doomed>>

\* Where a task may be suspended.  The ones of LockLabels queue for _lock.
LockLabels == {"getconn", "putconn", "adding", "giveup", "closing"}
Labels == LockLabels \cup
  {"idle", "connecting", "waiting", "checking", "sleeping", "using",
   "returning", "off", "stopped", "start", "gather", "check_next",
   "await_full", "done"}

-----------------------------------------------------------------------------
(* Maintenance tasks, connections, tasks of the event loop.                 *)

MaintenanceTask == [kind: {"add", "return", "shrink", "schedule", "stop"},
                    conn: Conns \cup {NoConn}, growing: BOOLEAN,
                    retry: BOOLEAN]
Simple(k) == [kind |-> k, conn |-> NoConn, growing |-> FALSE, retry |-> FALSE]
AddConnection(g, r) == [Simple("add") EXCEPT !.growing = g, !.retry = r]
ReturnConnection(x) == [Simple("return") EXCEPT !.conn = x]

\* The delayed tasks: a retried AddConnection, growing or not, or ShrinkPool.
DelayedKinds == {"add", "grow", "shrink"}
Delayed(k) == IF k = "shrink" THEN Simple("shrink")
                              ELSE AddConnection(k = "grow", TRUE)

Job(g, r) == [growing |-> g, retry |-> r]
NoJob == Job(FALSE, FALSE)

Members(s) == {s[i] : i \in DOMAIN s}
At(t, l) == pc[t] = l
Goto(t, l) == pc' = [pc EXCEPT ![t] = l]
Hold(t, x) == cur' = [cur EXCEPT ![t] = x]
Mark(x, s) == status' = [status EXCEPT ![x] = s]

\* run_task(): what is queued behind the StopWorkers of a closed pool will not
\* run, and is left out unless it keeps a connection referenced.
run_task(t) ==
  tasks' = IF closed /\ t.conn = NoConn THEN tasks ELSE Append(tasks, t)
schedule_task(k) == sched' = [sched EXCEPT ![k] = @ + 1]

Referenced(x) ==
  \/ x \in Members(pool)
  \/ \E t \in Tasks : cur[t] = x
  \/ \E c \in Clients : slot[c] = x
  \/ \E i \in DOMAIN tasks : tasks[i].conn = x
  \/ \E a \in Admins : x \in Members(batch[a])
Fresh(x) == /\ x \in Conns /\ ~Referenced(x)
            /\ \A y \in Conns : y < x => Referenced(y)

\* The lock: held by the client that connects inside it, or wanted by others.
LockHeld == \E c \in Clients : At(c, "connecting")
FreeFor(t) == ~LockHeld /\ \A u \in Tasks \ {t} : pc[u] \notin LockLabels

kind == setup.kind
HasReset == setup.reset
HasCheck == setup.check
ConnectFails == setup.fails

\* BasePool.__init__.
Init ==
  /\ setup \in Setups
  /\ closed = TRUE /\ opened = FALSE
  /\ min_size = setup.min /\ max_size = setup.max
  /\ nconns = min_size /\ nconns_min = min_size /\ growing = FALSE
  /\ pool = <<>> /\ waiting = <<>> /\ full_event = "none"
  /\ tasks = <<>> /\ sched = [k \in DelayedKinds |-> 0]
  /\ slot = [c \in Clients |-> NoConn]
  /\ status = [x \in Conns |-> "UNKNOWN"]
  /\ pc = [t \in Tasks |-> IF t \in Workers THEN "off"
                           ELSE IF t \in Clients THEN "idle" ELSE "start"]
  /\ cur = [t \in Tasks |-> NoConn]
  /\ fromget = [c \in Clients |-> FALSE]
  /\ job = [w \in Workers |-> NoJob]
  /\ batch = [a \in Admins |-> <<>>] /\ doomed = [a \in Admins |-> <<>>]

\* _start_initial_tasks(): the connections to make and the trampoline that
\* schedules ShrinkPool; nothing in a null pool.
InitialTasks ==
  IF kind = "null" THEN <<>>
  ELSE [i \in 1..nconns |-> AddConnection(FALSE, FALSE)]
         \o <<Simple("schedule")>>

\* open(): start the scheduler, the workers and the initial tasks.
open ==
  /\ closed /\ ~opened
  /\ closed' = FALSE /\ opened' = TRUE
  /\ tasks' = InitialTasks
  /\ pc' = [t \in Tasks |-> IF t \in Workers THEN "idle" ELSE pc[t]]
  /\ UNCHANGED <<setup, sizeVars, countVars, poolVars, sched, queueVars,
                 status, cur, fromget, job, adminVars>>

-----------------------------------------------------------------------------
(* getconn()                                                                *)

\* _maybe_grow_pool (a null pool does not grow).
CanGrow == kind = "pool" /\ nconns < max_size /\ ~growing
_maybe_grow_pool ==
  IF CanGrow THEN /\ nconns' = nconns + 1 /\ growing' = TRUE
                  /\ run_task(AddConnection(TRUE, FALSE))
             ELSE UNCHANGED <<nconns, growing, tasks>>

QueueFull == MaxWaiting > 0 /\ Len(waiting) >= MaxWaiting

\* Where a client that got a connection goes: to the check, if there is one.
Checked == IF HasCheck THEN "checking" ELSE "using"

\* _getconn_unchecked: join the queue, and let the pool grow.
Enqueue(c) ==
  /\ waiting' = Append(waiting, c)
  /\ slot' = [slot EXCEPT ![c] = NoConn]
  /\ _maybe_grow_pool
  /\ Goto(c, "waiting")
  /\ UNCHANGED <<nconns_min, pool, cur>>

\* Mutant of LeastIdle: counts the connection taken twice.
LeastIdle_Twice == IF Len(pool) - 2 < nconns_min THEN Len(pool) - 2
                                                 ELSE nconns_min

\* The minimum of idle connections once one of them is taken.
LeastIdle == IF Len(pool) - 1 < nconns_min THEN Len(pool) - 1 ELSE nconns_min

\* _get_ready_connection: pop an idle connection.
PopIdle(c) ==
  /\ Hold(c, Head(pool))
  /\ pool' = Tail(pool)
  /\ nconns_min' = LeastIdle
  /\ Goto(c, Checked)
  /\ UNCHANGED <<nconns, growing, queueVars, tasks>>

\* The null pool makes a new connection for a client if it has room for it.
NullHasRoom == max_size = 0 \/ nconns < max_size

\* _getconn_unchecked, once it has the lock: pop a connection, or (null pool) connect holding the lock, or join the queue, or
\* refuse with TooManyRequests.  The pool may have been closed meanwhile.
Acquire(c) ==
  /\ \/ kind = "pool" /\ pool # <<>> /\ PopIdle(c)
     \/ /\ kind = "null" /\ NullHasRoom
        /\ Goto(c, "connecting")
        /\ UNCHANGED <<countVars, pool, queueVars, tasks, cur>>
     \/ /\ IF kind = "pool" THEN pool = <<>> ELSE ~NullHasRoom
        /\ \/ ~QueueFull /\ Enqueue(c)
           \/ /\ QueueFull
              /\ Goto(c, "idle")
              /\ UNCHANGED <<countVars, pool, queueVars, tasks, cur>>
  /\ fromget' = [fromget EXCEPT ![c] = FALSE]
  /\ UNCHANGED <<flagVars, sizeVars, full_event, sched, status, job,
                 adminVars>>

\* Only move on, to the queue of the lock or elsewhere.
MoveTo(t, l) ==
  /\ Goto(t, l)
  /\ UNCHANGED <<flagVars, sizeVars, countVars, poolVars, taskVars, queueVars,
                 status, cur, fromget, job, adminVars>>

\* getconn(): raise if the pool is closed, else go on to the lock.
getconn(c) ==
  /\ At(c, "idle") /\ ~closed
  /\ \/ FreeFor(c) /\ Acquire(c)
     \/ ~FreeFor(c) /\ MoveTo(c, "getconn")
getconn_locked(c) == At(c, "getconn") /\ ~LockHeld /\ Acquire(c)

\* The null pool's connection for a client is ready; the lock is released.
null_connected(c) ==
  /\ At(c, "connecting")
  /\ \E x \in Conns : Fresh(x) /\ Hold(c, x) /\ Mark(x, "IDLE")
  /\ nconns' = nconns + 1
  /\ Goto(c, Checked)
  /\ UNCHANGED <<flagVars, sizeVars, nconns_min, growing, poolVars, taskVars,
                 queueVars, fromget, job, adminVars>>

\* It cannot be made: getconn() raises, and releases the lock.
null_connect_fails(c) ==
  /\ At(c, "connecting") /\ ConnectFails
  /\ Goto(c, "idle")
  /\ UNCHANGED <<flagVars, sizeVars, countVars, poolVars, taskVars, queueVars,
                 status, cur, fromget, job, adminVars>>

\* Mutant of LeaveQueue: the position of a client that gave up stays valid.
LeaveQueue_Stays(c) == waiting

\* WaitingClient.wait() ends with an error: set() will find it and fail.
LeaveQueue(c) == [i \in DOMAIN waiting |->
                    IF waiting[i] = c THEN Gone ELSE waiting[i]]

\* WaitingClient.wait() ends: with the connection or the error it was given
\* (the connection wins over a timeout or a cancellation that came with it),
\* or, nothing having come, with PoolTimeout.
wait_returns(c) ==
  /\ At(c, "waiting") /\ slot[c] # NoConn
  /\ IF slot[c] = Failed THEN Goto(c, "idle") /\ UNCHANGED cur
                         ELSE Goto(c, Checked) /\ Hold(c, slot[c])
  /\ slot' = [slot EXCEPT ![c] = NoConn]
  /\ UNCHANGED <<flagVars, sizeVars, countVars, poolVars, taskVars, waiting,
                 status, fromget, job, adminVars>>
wait_times_out(c) ==
  /\ At(c, "waiting") /\ slot[c] = NoConn
  /\ waiting' = LeaveQueue(c)
  /\ doomed' = [a \in Admins |-> [i \in DOMAIN doomed[a] |->
                  IF doomed[a][i] = c THEN Gone ELSE doomed[a][i]]]
  /\ Goto(c, "idle")
  /\ UNCHANGED <<flagVars, sizeVars, countVars, poolVars, taskVars, slot,
                 status, cur, fromget, job, batch>>

\* _check_connection succeeds: getconn() returns.
check_passes(c) ==
  /\ At(c, "checking")
  /\ Goto(c, "using")
  /\ UNCHANGED <<flagVars, sizeVars, countVars, poolVars, taskVars, queueVars,
                 status, cur, fromget, job, adminVars>>

\* The backoff after a failed check is over: PoolTimeout, or another attempt,
\* which does not look at _closed again.
backoff_gives_up(c) ==
  /\ At(c, "sleeping")
  /\ Goto(c, "idle") /\ fromget' = [fromget EXCEPT ![c] = FALSE]
  /\ UNCHANGED <<flagVars, sizeVars, countVars, poolVars, taskVars, queueVars,
                 status, cur, job, adminVars>>
backoff_retries(c) ==
  /\ At(c, "sleeping")
  /\ \/ FreeFor(c) /\ Acquire(c)
     \/ ~FreeFor(c) /\ MoveTo(c, "getconn")

-----------------------------------------------------------------------------
(* putconn() and the return of a connection                                 *)

\* Where a task goes on when the connection in its hands is dealt with.
After(t) == IF t \in Clients /\ (fromget[t] \/ At(t, "checking"))
            THEN "sleeping" ELSE "idle"

\* Mutant of Serve: the connection goes to the first position, Gone or not.
Serve_Blind(x) ==
  IF waiting # <<>>
  THEN /\ waiting' = Tail(waiting)
       /\ slot' = IF Head(waiting) = Gone THEN slot
                  ELSE [slot EXCEPT ![Head(waiting)] = x]
       /\ Mark(x, "IDLE")
       /\ UNCHANGED poolVars
  ELSE /\ pool' = Append(pool, x) /\ Mark(x, "IDLE")
       /\ UNCHANGED <<queueVars, full_event>>

\* _add_to_pool's critical section: connection x goes to the first client
\* still waiting; else to the pool, telling wait() if that fills it; a null
\* pool closes it instead, and tells wait() or counts one connection less.
Serve(x) ==
  \/ \E i \in DOMAIN waiting :
       /\ waiting[i] # Gone /\ \A j \in 1..(i - 1) : waiting[j] = Gone
       /\ slot' = [slot EXCEPT ![waiting[i]] = x]
       /\ waiting' = SubSeq(waiting, i + 1, Len(waiting))
       /\ Mark(x, "IDLE")
       /\ UNCHANGED poolVars
  \/ /\ \A i \in DOMAIN waiting : waiting[i] = Gone
     /\ waiting' = <<>> /\ UNCHANGED slot
     /\ \/ /\ kind = "pool"
           /\ pool' = Append(pool, x) /\ Mark(x, "IDLE")
           /\ full_event' = IF full_event = "unset" /\ Len(pool) + 1 >= min_size
                            THEN "set" ELSE full_event
        \/ /\ kind = "null"
           /\ Mark(x, "UNKNOWN")
           /\ full_event' = IF full_event = "none" THEN "none" ELSE "set"
           /\ UNCHANGED pool

\* What that makes of _nconns.
AddCount ==
  IF /\ kind = "null" /\ full_event = "none"
     /\ \A i \in DOMAIN waiting : waiting[i] = Gone
  THEN nconns - 1 ELSE nconns

\* Mutant of Add: like the null pool, does not look at _closed.
Add_Blind(x) == Serve(x)

\* _add_to_pool(): a pool closes the connection if it is closed itself; the
\* null pool does not look.
Add(x) ==
  \/ closed /\ kind = "pool" /\ Mark(x, "UNKNOWN")
     /\ UNCHANGED <<poolVars, queueVars>>
  \/ ~(closed /\ kind = "pool") /\ Serve(x)

\* The task goes on to _add_to_pool() with x: at once, or when the lock is
\* free.
AddOrQueue(t, x) ==
  \/ /\ FreeFor(t)
     /\ Add(x) /\ nconns' = AddCount
     /\ Hold(t, NoConn) /\ Goto(t, After(t))
  \/ /\ ~FreeFor(t)
     /\ Hold(t, x) /\ Mark(x, "IDLE") /\ Goto(t, "adding")
     /\ UNCHANGED <<poolVars, queueVars, nconns>>

\* Mutant of Settle: a broken or expired connection is not replaced.
Settle_Forget(t, x, s) ==
  \/ /\ Mark(x, "UNKNOWN") /\ Hold(t, NoConn) /\ Goto(t, After(t))
     /\ UNCHANGED <<tasks, poolVars, queueVars, nconns>>
  \/ s = "IDLE" /\ AddOrQueue(t, x) /\ UNCHANGED tasks

\* The rest of _return_connection, after _reset_connection left x in status
\* s: replace it if it is broken or expired, else add it to the pool.
Settle(t, x, s) ==
  \/ /\ run_task(AddConnection(FALSE, FALSE))
     /\ Mark(x, "UNKNOWN") /\ Hold(t, NoConn) /\ Goto(t, After(t))
     /\ UNCHANGED <<poolVars, queueVars, nconns>>
  \/ s = "IDLE" /\ AddOrQueue(t, x) /\ UNCHANGED tasks

\* _putconn of a connection left in status s: to a worker if there is a reset
\* callback; else here, and a transaction left open takes a rollback first.
Put(c, s) ==
  LET x == cur[c] IN
  \/ /\ HasReset
     /\ run_task(ReturnConnection(x)) /\ Mark(x, s)
     /\ Hold(c, NoConn) /\ Goto(c, After(c))
     /\ UNCHANGED <<poolVars, queueVars, nconns>>
  \/ /\ ~HasReset /\ s = "INTRANS"
     /\ Mark(x, s) /\ Goto(c, "returning")
     /\ UNCHANGED <<cur, tasks, poolVars, queueVars, nconns>>
  \/ /\ ~HasReset /\ s # "INTRANS"
     /\ Settle(c, x, IF s = "IDLE" THEN s ELSE "UNKNOWN")

\* The status whoever used connection x may leave it in.
LeftIn(x) == IF status[x] = "UNKNOWN" THEN {"UNKNOWN"}
             ELSE {"IDLE", "INTRANS", "ACTIVE", "UNKNOWN"}

\* The check callback raises an Exception: _putconn, then sleep.
check_fails(c) ==
  /\ At(c, "checking") /\ HasCheck
  /\ \E s \in LeftIn(cur[c]) : Put(c, s)
  /\ fromget' = [fromget EXCEPT ![c] = TRUE]
  /\ UNCHANGED <<flagVars, sizeVars, nconns_min, growing, sched, job,
                 adminVars>>

\* _maybe_close_connection's condition in a null pool.
NobodyWaits == waiting = <<>>

\* putconn(), the connection left in status s, with the lock if the pool is a
\* null pool: close it if the pool is closed (or, in a null pool, if nobody
\* waits for it), else _putconn.
PutOrClose(c, s) ==
  \/ /\ closed \/ (kind = "null" /\ NobodyWaits)
     /\ Mark(cur[c], "UNKNOWN") /\ Hold(c, NoConn) /\ Goto(c, "idle")
     /\ nconns' = IF kind = "null" THEN nconns - 1 ELSE nconns
     /\ UNCHANGED <<tasks, poolVars, queueVars>>
  \/ /\ ~closed /\ (kind = "null" => ~NobodyWaits)
     /\ Put(c, s)
putconn(c) ==
  /\ At(c, "using")
  /\ \E s \in LeftIn(cur[c]) :
       \/ FreeFor(c) /\ PutOrClose(c, s)
       \/ /\ ~FreeFor(c)
          /\ Mark(cur[c], s) /\ Goto(c, "putconn")
          /\ UNCHANGED <<cur, tasks, poolVars, queueVars, nconns>>
  /\ UNCHANGED <<flagVars, sizeVars, nconns_min, growing, sched, fromget, job,
                 adminVars>>
putconn_locked(c) ==
  /\ At(c, "putconn") /\ ~LockHeld
  /\ PutOrClose(c, status[cur[c]])
  /\ UNCHANGED <<flagVars, sizeVars, nconns_min, growing, sched, fromget, job,
                 adminVars>>

\* The rollback or the reset callback of _reset_connection ends, or fails and
\* has the connection closed.
reset_ends(t) ==
  /\ At(t, "returning")
  /\ \E s \in {"IDLE", "UNKNOWN"} : Settle(t, cur[t], s)
  /\ UNCHANGED <<flagVars, sizeVars, nconns_min, growing, sched, fromget, job,
                 adminVars>>

-----------------------------------------------------------------------------
(* Workers and scheduler                                                    *)

\* _shrink_pool: close an idle connection if it was not needed.
CanShrink == nconns > min_size /\ nconns_min > 0 /\ pool # <<>>
_shrink_pool ==
  IF CanShrink
  THEN /\ Mark(Head(pool), "UNKNOWN") /\ pool' = Tail(pool)
       /\ nconns' = nconns - 1 /\ nconns_min' = Len(pool) - 1
  ELSE /\ nconns_min' = Len(pool)
       /\ UNCHANGED <<status, pool, nconns>>

\* worker(): take a task and run it up to its first suspension.
worker(w) ==
  /\ At(w, "idle") /\ tasks # <<>>
  /\ LET tk == Head(tasks)
         x  == tk.conn
         runs(k) == ~closed /\ tk.kind = k IN
     \/ /\ tk.kind = "stop"
        /\ tasks' = Tail(tasks) /\ Goto(w, "stopped")
        /\ UNCHANGED <<cur, status, job, sched, pool, nconns, nconns_min>>
     \/ \* run() discards the task, and the connection in it is collected
        /\ closed /\ tk.kind # "stop"
        /\ tasks' = Tail(tasks)
        /\ status' = [y \in Conns |-> IF y = x THEN "UNKNOWN" ELSE status[y]]
        /\ UNCHANGED <<pc, cur, job, sched, pool, nconns, nconns_min>>
     \/ /\ runs("add")
        /\ tasks' = Tail(tasks) /\ Goto(w, "connecting")
        /\ job' = [job EXCEPT ![w] = Job(tk.growing, tk.retry)]
        /\ UNCHANGED <<cur, status, sched, pool, nconns, nconns_min>>
     \/ \* a broken connection is replaced; another is reset (see reset_ends)
        /\ runs("return")
        /\ \/ /\ status[x] \in {"UNKNOWN", "ACTIVE"} /\ Mark(x, "UNKNOWN")
              /\ tasks' = Append(Tail(tasks), AddConnection(FALSE, FALSE))
              /\ UNCHANGED <<pc, cur>>
           \/ /\ status[x] \notin {"UNKNOWN", "ACTIVE"}
              /\ tasks' = Tail(tasks) /\ Goto(w, "returning") /\ Hold(w, x)
              /\ UNCHANGED status
        /\ UNCHANGED <<job, sched, pool, nconns, nconns_min>>
     \/ /\ runs("shrink")
        /\ tasks' = Tail(tasks) /\ schedule_task("shrink")
        /\ _shrink_pool
        /\ UNCHANGED <<pc, cur, job>>
     \/ /\ runs("schedule")
        /\ tasks' = Tail(tasks) /\ schedule_task("shrink")
        /\ UNCHANGED <<pc, cur, status, job, pool, nconns, nconns_min>>
  /\ UNCHANGED <<flagVars, sizeVars, growing, full_event, queueVars, fromget,
                 adminVars>>

\* _add_connection, a growing task has added its connection: one connection
\* more if there are not min_size, or if clients wait and there is room.
KeepGrowing == \/ nconns < min_size
               \/ nconns < max_size /\ waiting' # <<>>

\* _add_connection: _connect() succeeds; the connection is added to the pool
\* and, if the task is a growing one, the pool may go on growing.
_add_connection(w) ==
  /\ At(w, "connecting") /\ w \in Workers
  /\ \E x \in Conns :
       /\ Fresh(x)
       /\ \/ /\ ~job[w].growing
             /\ AddOrQueue(w, x)
             /\ UNCHANGED <<growing, tasks>>
          \/ /\ job[w].growing
             /\ Add(x) /\ Goto(w, "idle")
             /\ IF KeepGrowing
                THEN /\ nconns' = nconns + 1
                     /\ run_task(AddConnection(TRUE, FALSE))
                     /\ UNCHANGED growing
                ELSE growing' = FALSE /\ UNCHANGED <<nconns, tasks>>
             /\ UNCHANGED cur
  /\ job' = [job EXCEPT ![w] = NoJob]
  /\ UNCHANGED <<flagVars, sizeVars, nconns_min, sched, fromget, adminVars>>

\* _add_to_pool of a task that had to queue for the lock (null pool).
add_locked(t) ==
  /\ At(t, "adding") /\ ~LockHeld
  /\ Add(cur[t]) /\ nconns' = AddCount
  /\ Hold(t, NoConn) /\ Goto(t, After(t))
  /\ UNCHANGED <<flagVars, sizeVars, nconns_min, growing, taskVars, fromget,
                 job, adminVars>>

\* _add_connection: the attempt fails.  It is scheduled again, or, once it has
\* been delayed and its time is over, given up: that takes the lock.
_connect_fails(w) ==
  /\ At(w, "connecting") /\ w \in Workers /\ ConnectFails
  /\ \/ /\ schedule_task(IF job[w].growing THEN "grow" ELSE "add")
        /\ Goto(w, "idle") /\ job' = [job EXCEPT ![w] = NoJob]
        /\ UNCHANGED <<nconns, growing>>
     \/ /\ job[w].retry /\ FreeFor(w)
        /\ nconns' = nconns - 1
        /\ growing' = (growing /\ ~job[w].growing)
        /\ Goto(w, "idle") /\ job' = [job EXCEPT ![w] = NoJob]
        /\ UNCHANGED sched
     \/ /\ job[w].retry /\ ~FreeFor(w)
        /\ Goto(w, "giveup")
        /\ UNCHANGED <<nconns, growing, sched, job>>
  /\ UNCHANGED <<flagVars, sizeVars, nconns_min, poolVars, tasks, queueVars,
                 status, cur, fromget, adminVars>>
give_up_locked(w) ==
  /\ At(w, "giveup") /\ ~LockHeld
  /\ nconns' = nconns - 1
  /\ Goto(w, "idle") /\ job' = [job EXCEPT ![w] = NoJob]
  /\ UNCHANGED <<flagVars, sizeVars, nconns_min, growing, poolVars, taskVars,
                 queueVars, status, cur, fromget, adminVars>>

\* The scheduler task calls tick(), which discards a task of a closed pool.
tick(k) ==
  /\ opened /\ sched[k] > 0
  /\ sched' = [sched EXCEPT ![k] = @ - 1]
  /\ IF closed THEN UNCHANGED tasks ELSE run_task(Delayed(k))
  /\ UNCHANGED <<flagVars, sizeVars, countVars, poolVars, queueVars, status,
                 pc, cur, fromget, job, adminVars>>

-----------------------------------------------------------------------------
(* close(), check(), resize(), wait()                                       *)

\* _signal_stop_worker(): a StopWorker for each worker still in the list.
StopTasks == IF closed THEN <<>>
             ELSE [i \in 1..Cardinality(Workers) |-> Simple("stop")]

\* close()'s critical section: set the flag, take clients and connections,
\* stop the workers; then wait for them.
Close(a) ==
  /\ closed' = TRUE
  /\ doomed' = [doomed EXCEPT ![a] = waiting] /\ waiting' = <<>>
  /\ batch' = [batch EXCEPT ![a] = pool] /\ pool' = <<>>
  /\ tasks' = tasks \o StopTasks
  /\ Goto(a, "gather")
  /\ UNCHANGED <<setup, opened, sizeVars, countVars, full_event, sched, slot,
                 status, cur, fromget, job>>
CloseOrQueue(a) == \/ FreeFor(a) /\ Close(a)
                   \/ ~FreeFor(a) /\ MoveTo(a, "closing")
close(a) ==
  /\ a \in Closers /\ "close" \in setup.calls /\ At(a, "start") /\ ~closed
  /\ CloseOrQueue(a)
close_locked(a) == At(a, "closing") /\ ~LockHeld /\ Close(a)

\* Mutant of FailAll: only the first client of the queue is failed.
FailAll_First(a) == [c \in Clients |->
                       IF doomed[a] # <<>> /\ Head(doomed[a]) = c
                       THEN Failed ELSE slot[c]]

\* close(): fail() the clients that still wait.
FailAll(a) == [c \in Clients |-> IF c \in Members(doomed[a]) THEN Failed
                                                            ELSE slot[c]]

\* close(), after the workers terminated or the timeout of agather(): close
\* the connections, fail the clients.
close_ends(a) ==
  /\ At(a, "gather")
  /\ status' = [x \in Conns |-> IF x \in Members(batch[a]) THEN "UNKNOWN"
                                                           ELSE status[x]]
  /\ slot' = FailAll(a)
  /\ batch' = [batch EXCEPT ![a] = <<>>]
  /\ doomed' = [doomed EXCEPT ![a] = <<>>]
  /\ Goto(a, "done")
  /\ UNCHANGED <<flagVars, sizeVars, countVars, poolVars, taskVars, waiting,
                 cur, fromget, job>>

\* check(): take every idle connection, maybe grow (no-op in a null pool).
check(a) ==
  /\ a \in Checkers /\ "check" \in setup.calls
  /\ At(a, "start") /\ opened /\ kind = "pool"
  /\ batch' = [batch EXCEPT ![a] = pool] /\ pool' = <<>>
  /\ _maybe_grow_pool
  /\ Goto(a, IF pool = <<>> THEN "start" ELSE "check_next")
  /\ UNCHANGED <<flagVars, sizeVars, nconns_min, full_event, sched, queueVars,
                 status, cur, fromget, job, doomed>>

\* check(): the last connection of the list is expired or broken, and is
\* replaced, or good.
check_next(a) ==
  /\ At(a, "check_next")
  /\ LET x == batch[a][Len(batch[a])]
         rest == SubSeq(batch[a], 1, Len(batch[a]) - 1) IN
     /\ batch' = [batch EXCEPT ![a] = rest]
     /\ Goto(a, IF rest = <<>> THEN "start" ELSE "check_next")
     /\ \/ /\ Mark(x, "UNKNOWN")
           /\ run_task(AddConnection(FALSE, FALSE))
           /\ UNCHANGED <<poolVars, queueVars>>
        \/ Add(x) /\ UNCHANGED tasks
  /\ UNCHANGED <<flagVars, sizeVars, countVars, sched, cur, fromget, job,
                 doomed>>

\* resize(): nothing is suspended between the computation of ngrow and the
\* AddConnections.  The min_size of a null pool remains 0.
resize(sizes) ==
  LET ngrow == IF sizes[1] > min_size THEN sizes[1] - min_size ELSE 0 IN
  /\ opened /\ sizes # <<min_size, max_size>>
  /\ kind = "null" => sizes[1] = 0 /\ ~LockHeld
  /\ min_size' = sizes[1] /\ max_size' = sizes[2]
  /\ nconns' = nconns + ngrow
  /\ tasks' = tasks \o [i \in 1..ngrow |-> AddConnection(FALSE, FALSE)]
  /\ UNCHANGED <<flagVars, nconns_min, growing, poolVars, sched, queueVars,
                 status, pc, cur, fromget, job, adminVars>>

\* wait(): fail if somebody else waits, return if the pool is full, else
\* wait for the event; a null pool has a connection made for a test.
wait(a) ==
  /\ a \in Waiters /\ "wait" \in setup.calls
  /\ At(a, "start") /\ ~closed /\ ~LockHeld
  /\ IF full_event # "none" \/ (kind = "pool" /\ Len(pool) >= min_size)
     THEN Goto(a, "done") /\ UNCHANGED <<full_event, tasks>>
     ELSE /\ full_event' = "unset" /\ Goto(a, "await_full")
          /\ IF kind = "null" THEN run_task(AddConnection(FALSE, FALSE))
                              ELSE UNCHANGED tasks
  /\ UNCHANGED <<flagVars, sizeVars, countVars, pool, sched, queueVars, status,
                 cur, fromget, job, adminVars>>

\* wait(): the event is set, and removed; or the wait times out, and the pool
\* is closed.
wait_ends(a) ==
  /\ At(a, "await_full") /\ full_event = "set" /\ ~LockHeld
  /\ full_event' = "none" /\ Goto(a, "done")
  /\ UNCHANGED <<flagVars, sizeVars, countVars, pool, taskVars, queueVars,
                 status, cur, fromget, job, adminVars>>
wait_timeout(a) ==
  /\ At(a, "await_full") /\ full_event = "unset"
  /\ \/ ~closed /\ CloseOrQueue(a)
     \/ closed /\ MoveTo(a, "done")

-----------------------------------------------------------------------------
(* Cancellation                                                             *)

\* CancelledError is no Exception: no handler returns the connection in the
\* local variable of the task, which is collected, and nothing replaces it.
\* close() does not go on to the connections and clients it took.
cancel(t) ==
  /\ t \in Clients \cup Admins /\ pc[t] \in Cancels
  /\ At(t, "waiting") => slot[t] = NoConn
  /\ status' = [x \in Conns |->
                  IF x = cur[t] \/ (t \in Admins /\ x \in Members(batch[t]))
                  THEN "UNKNOWN" ELSE status[x]]
  /\ Hold(t, NoConn)
  /\ Goto(t, IF t \in Clients THEN "idle" ELSE "done")
  /\ IF At(t, "waiting") THEN waiting' = LeaveQueue(t) ELSE UNCHANGED waiting
  /\ doomed' = [a \in Admins |->
                  IF a = t THEN <<>>
                  ELSE [i \in DOMAIN doomed[a] |->
                          IF doomed[a][i] = t THEN Gone ELSE doomed[a][i]]]
  /\ batch' = [a \in Admins |-> IF a = t THEN <<>> ELSE batch[a]]
  /\ fromget' = [c \in Clients |-> c # t /\ fromget[c]]
  /\ UNCHANGED <<flagVars, sizeVars, countVars, poolVars, taskVars, slot, job>>

-----------------------------------------------------------------------------
Request(c) == \/ getconn_locked(c) \/ null_connected(c) \/ wait_returns(c)
              \/ check_passes(c) \/ check_fails(c) \/ backoff_retries(c)
              \/ putconn(c) \/ putconn_locked(c) \/ reset_ends(c)
              \/ add_locked(c)
ClientStep(c) == \/ getconn(c) \/ backoff_gives_up(c) \/ null_connect_fails(c)
                 \/ wait_times_out(c) \/ Request(c)
Work(w) == \/ worker(w) \/ _add_connection(w) \/ reset_ends(w)
           \/ add_locked(w) \/ give_up_locked(w)
WorkerStep(w) == Work(w) \/ _connect_fails(w)
Administer(a) == close_locked(a) \/ close_ends(a) \/ check_next(a)
AdminStep(a) == \/ close(a) \/ check(a) \/ wait(a) \/ wait_ends(a)
                \/ wait_timeout(a) \/ Administer(a)

Next == \/ open
        \/ \E c \in Clients : ClientStep(c)
        \/ \E w \in Workers : WorkerStep(w)
        \/ \E a \in Admins : AdminStep(a)
        \/ \E t \in Clients \cup Admins : cancel(t)
        \/ \E k \in DelayedKinds : tick(k)
        \/ \E sizes \in setup.sizes : resize(sizes)

Spec == Init /\ [][Next]_vars

\* A task that can run runs: the event loop is fair, callbacks and connection
\* attempts end, clients return what they take, and a client whose checks go
\* on failing reaches its deadline.  No other timeout, no cancellation and no
\* new request has to come.
Fairness == /\ \A c \in Clients : WF_vars(Request(c))
            /\ \A c \in Clients : SF_vars(backoff_gives_up(c))
            /\ \A w \in Workers : WF_vars(Work(w))
            /\ \A a \in Admins : WF_vars(Administer(a))
            /\ \A k \in DelayedKinds : WF_vars(tick(k))
FairSpec == Spec /\ Fairness

-----------------------------------------------------------------------------
(* Properties                                                               *)

\* The values of every variable.
AsyncTypeOK ==
  /\ setup \in Setups /\ closed \in BOOLEAN /\ opened \in BOOLEAN
  /\ min_size \in Nat /\ max_size \in Nat
  /\ nconns \in Int /\ nconns_min \in Nat /\ growing \in BOOLEAN
  /\ pool \in Seq(Conns) /\ waiting \in Seq(Clients \cup {Gone})
  /\ full_event \in {"none", "unset", "set"}
  /\ tasks \in Seq(MaintenanceTask) /\ sched \in [DelayedKinds -> Nat]
  /\ slot \in [Clients -> Conns \cup {NoConn, Failed}]
  /\ status \in [Conns -> {"UNKNOWN", "IDLE", "INTRANS", "ACTIVE"}]
  /\ pc \in [Tasks -> Labels] /\ cur \in [Tasks -> Conns \cup {NoConn}]
  /\ fromget \in [Clients -> BOOLEAN]
  /\ job \in [Workers -> [growing: BOOLEAN, retry: BOOLEAN]]
  /\ batch \in [Admins -> Seq(Conns)]
  /\ doomed \in [Admins -> Seq(Clients \cup {Gone})]

\* A null pool's wait() has a connection made that is not counted, and while
\* it waits the connections that others return are not counted off: _nconns
\* stays wrong, and clients may queue for a connection that nobody holds.
Counted == kind = "null" => "wait" \notin setup.calls

\* _nconns counts the connections idle, given to clients or being prepared,
\* wherever the tasks of the loop are suspended and whichever of them is
\* cancelled while it waits for a connection, for the lock, for a null pool's
\* connection attempt or in its backoff.
Out == Cardinality({t \in Tasks : cur[t] # NoConn})
       + Cardinality({c \in Clients : slot[c] \in Conns})
       + Cardinality(UNION {{a} \X DOMAIN batch[a] : a \in Admins})
Preparing == Cardinality({i \in DOMAIN tasks :
                            tasks[i].kind \in {"add", "return"}})
             + sched["add"] + sched["grow"]
             + Cardinality({w \in Workers :
                              pc[w] \in {"connecting", "giveup"}})
AsyncAccounting ==
  opened /\ ~closed /\ Counted => nconns = Len(pool) + Out + Preparing

\* A request that is queued is answered, in both kinds of pool, if attempts
\* succeed and clients return what they take: growth, returns, check(), the
\* replacement of broken connections and other clients that time out or are
\* cancelled lose no wake-up, and close() fails whoever waits.  The one
\* exception: a request that joins the queue after the pool was closed.
AsyncWaiterServed ==
  \A c \in Clients :
    At(c, "waiting") /\ ~closed /\ ~ConnectFails /\ Counted
      ~> ~At(c, "waiting")

\* After close() every connection ends up closed: idle ones, ones held by
\* clients, being connected, being reset or in the hands of check().
AsyncCloseReleases ==
  opened /\ closed ~> \A x \in Conns : status[x] = "UNKNOWN"
=============================================================================
