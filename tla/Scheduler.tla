----------------------------- MODULE Scheduler -----------------------------
(***************************************************************************)
(* The pool's scheduler, gaussdb_pool.sched.Scheduler: a heap of tasks     *)
(* ordered by time, a lock and an event.  Threads that call enter() read   *)
(* the clock, push under the lock and set the event after it; the runner   *)
(* thread looks at the heap under the lock and blocks on the event until   *)
(* the first task is due.                                                  *)
(*                                                                         *)
(* The heap is a set: q[0] is a task of the least time, any of them if     *)
(* several have it (heapq compares times only).  The clock is a counter    *)
(* bounded by MaxTime; the 600 seconds the runner blocks on an empty heap  *)
(* are longer than that.                                                   *)
(***************************************************************************)
EXTENDS Integers, FiniteSets

CONSTANTS
  Callers,     \* threads that call enter(), once for each task
  Tasks,       \* the tasks they enter: one call of enter() for each
  StopTasks,   \* the tasks without an action, which stop the runner
  Delays,      \* the delays they ask for
  MaxTime      \* bound of the clock

ASSUME SchedulerAssumption ==
  /\ StopTasks \subseteq Tasks /\ Delays \subseteq Nat /\ MaxTime \in Nat

NoTask == "no task"
Forever == -1    \* EMPTY_QUEUE_TIMEOUT
Unset == -1      \* time of a task that nobody entered yet

VARIABLES
  now,      \* monotonic()
  time,     \* Task.time of each task
  queue,    \* _queue
  event,    \* _event
  caller,   \* where each caller is, and the task it enters
  runner,   \* where run() is: "look", "act", "block", "stopped"
  task,     \* task of run()
  wake,     \* when the wait of run() times out
  done      \* tasks whose action ran
vars == <<now, time, queue, event, caller, runner, task, wake, done>>

Idle == [at |-> "idle", task |-> NoTask]
At(c, l) == caller[c].at = l

Init ==
  /\ now = 0 /\ time = [t \in Tasks |-> Unset]
  /\ queue = {} /\ event = FALSE
  /\ caller = [c \in Callers |-> Idle]
  /\ runner = "look" /\ task = NoTask /\ wake = Forever /\ done = {}

\* enter(): the time of the task is computed before the lock is taken.
enter(c, t, d) ==
  /\ At(c, "idle") /\ time[t] = Unset
  /\ time' = [time EXCEPT ![t] = now + d]
  /\ caller' = [caller EXCEPT ![c] = [at |-> "push", task |-> t]]
  /\ UNCHANGED <<now, queue, event, runner, task, wake, done>>

\* Mutants of First: only a push on an empty heap is first; none is.
First_OnlyEmpty(t) == queue = {}
First_Never(t) == FALSE

\* enterabs(): is the task just pushed q[0]?  heappush moves it past its
\* parents only if its time is less than theirs.
First(t) == \A u \in queue : time[t] < time[u]

\* enterabs(), the critical section.
enterabs(c) ==
  /\ At(c, "push")
  /\ queue' = queue \cup {caller[c].task}
  /\ caller' = [caller EXCEPT ![c] =
                  IF First(caller[c].task) THEN [@ EXCEPT !.at = "set"] ELSE Idle]
  /\ UNCHANGED <<now, time, event, runner, task, wake, done>>

\* enterabs(), outside the lock: wake the runner up.
set_event(c) ==
  /\ At(c, "set")
  /\ event' = TRUE
  /\ caller' = [caller EXCEPT ![c] = Idle]
  /\ UNCHANGED <<now, time, queue, runner, task, wake, done>>

\* Is t the task q[0]?
IsHead(t) == t \in queue /\ \A u \in queue : time[t] <= time[u]

\* run(): has the time of the task come?
Due(t) == time[t] <= now

\* Mutant of Wake: the difference is taken the wrong way round.
Wake_Swapped(t) == now + (now - time[t])

\* run(): when a wait of task.time - now ends.
Wake(t) == now + (time[t] - now)

\* run(), the critical section: take the first task if it is due, otherwise
\* compute how long to wait; clear the event.
look ==
  /\ runner = "look"
  /\ event' = FALSE
  /\ \/ \E t \in queue : /\ IsHead(t) /\ Due(t)
                         /\ queue' = queue \ {t}
                         /\ task' = t /\ runner' = "act"
                         /\ UNCHANGED wake
     \/ \E t \in queue : /\ IsHead(t) /\ ~Due(t)
                         /\ wake' = Wake(t) /\ runner' = "block"
                         /\ UNCHANGED <<queue, task>>
     \/ /\ queue = {}
        /\ wake' = Forever /\ runner' = "block"
        /\ UNCHANGED <<queue, task>>
  /\ UNCHANGED <<now, time, caller, done>>

\* run(): call the action, or stop if the task has none.
act ==
  /\ runner = "act"
  /\ \/ /\ task \in StopTasks
        /\ runner' = "stopped" /\ UNCHANGED done
     \/ /\ task \notin StopTasks
        /\ done' = done \cup {task} /\ runner' = "look"
  /\ task' = NoTask
  /\ UNCHANGED <<now, time, queue, event, caller, wake>>

\* run(): the event is set, or the wait times out.
unblock ==
  /\ runner = "block"
  /\ event \/ (wake # Forever /\ wake <= now)
  /\ runner' = "look"
  /\ UNCHANGED <<now, time, queue, event, caller, task, wake, done>>

\* The clock advances.
tick == /\ now < MaxTime
        /\ now' = now + 1
        /\ UNCHANGED <<time, queue, event, caller, runner, task, wake, done>>

Run == look \/ act \/ unblock
Finish(c) == enterabs(c) \/ set_event(c)

Next == \/ \E c \in Callers : \/ Finish(c)
                              \/ \E t \in Tasks, d \in Delays : enter(c, t, d)
        \/ Run
        \/ tick
Spec == Init /\ [][Next]_vars

\* The runner and the threads inside enter() go on, and time passes.
Fairness == /\ WF_vars(Run) /\ WF_vars(tick)
            /\ \A c \in Callers : WF_vars(Finish(c))
FairSpec == Spec /\ Fairness

-----------------------------------------------------------------------------
(* Properties                                                               *)

TypeOK ==
  /\ now \in 0..MaxTime /\ time \in [Tasks -> Nat \cup {Unset}]
  /\ queue \subseteq Tasks /\ event \in BOOLEAN
  /\ caller \in [Callers -> [at: {"idle", "push", "set"},
                             task: Tasks \cup {NoTask}]]
  /\ runner \in {"look", "act", "block", "stopped"}
  /\ task \in Tasks \cup {NoTask} /\ wake \in Nat \cup {Forever}
  /\ done \subseteq Tasks

\* The runner never sleeps past a task: if its event is not set and nobody is
\* about to set it, its wait ends no later than the time of any queued task.
\* enterabs() sets the event after releasing the lock, and run() clears it
\* before blocking; no order of the two loses the wake-up.
NoLostWakeup ==
  runner = "block" /\ ~event =>
    \/ \E c \in Callers : At(c, "set")
    \/ \A t \in queue : wake # Forever /\ wake <= time[t]

\* A task whose time can come is run, unless the runner is told to stop.
EveryTaskRuns ==
  \A t \in Tasks : t \in queue /\ time[t] <= MaxTime
                     ~> t \notin queue \/ runner = "stopped"
=============================================================================
