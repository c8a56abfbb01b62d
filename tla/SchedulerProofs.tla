-------------------------- MODULE SchedulerProofs --------------------------
(***************************************************************************)
(* Theorems about Scheduler, for any threads, tasks, delays and bound of   *)
(* the clock.                                                              *)
(***************************************************************************)
EXTENDS Scheduler, TLAPS

\* Where a thread inside enter() is, the task it enters has a time; so has
\* every task in the heap.
TimesSet == /\ \A c \in Callers : caller[c].at # "idle" =>
                 caller[c].task \in Tasks /\ time[caller[c].task] # Unset
            /\ \A t \in queue : time[t] # Unset
            /\ runner = "act" => task \in Tasks

\* The inductive invariant.
Inv == TypeOK /\ TimesSet /\ NoLostWakeup

\* The initial state satisfies the invariant.
LEMMA InvInit == Init => Inv
<1> SUFFICES ASSUME Init
             PROVE  Inv
  OBVIOUS
<1>1. /\ now = 0 /\ time = [t \in Tasks |-> Unset] /\ queue = {}
      /\ event = FALSE /\ caller = [c \in Callers |-> Idle]
      /\ runner = "look" /\ task = NoTask /\ wake = Forever /\ done = {}
  BY DEF Init
<1>2. now \in 0..MaxTime
  BY <1>1, SchedulerAssumption
<1>3. Idle \in [at: {"idle", "push", "set"}, task: Tasks \cup {NoTask}]
  BY DEF Idle
<1>4. caller \in [Callers -> [at: {"idle", "push", "set"},
                              task: Tasks \cup {NoTask}]]
  BY <1>1, <1>3
<1>5. TypeOK
  BY <1>1, <1>2, <1>4 DEF TypeOK
<1>6. TimesSet /\ NoLostWakeup
  BY <1>1 DEF TimesSet, NoLostWakeup, Idle
<1> QED
  BY <1>5, <1>6 DEF Inv

\* The times of tasks are natural numbers once they are set.
LEMMA Times ==
  ASSUME Inv, NEW t \in queue
  PROVE  t \in Tasks /\ time[t] \in Nat
  BY DEF Inv, TypeOK, TimesSet, Unset

\* enter() gives a task its time.
LEMMA Inv_enter ==
  ASSUME Inv, NEW c \in Callers, NEW t \in Tasks, NEW d \in Delays,
         enter(c, t, d)
  PROVE  Inv'
<1> USE DEF Inv, enter, At
<1>1. now + d \in Nat /\ now \in Nat
  BY SchedulerAssumption DEF TypeOK
<1>2. TypeOK'
  BY <1>1 DEF TypeOK
<1>3. TimesSet'
  BY <1>1 DEF TypeOK, TimesSet, Unset
<1>4. NoLostWakeup'
  <2>1. \A u \in queue : time'[u] = time[u]
    BY DEF TypeOK, TimesSet
  <2>2. \A e \in Callers : At(e, "set") => caller'[e] = caller[e]
    BY DEF TypeOK
  <2> QED
    BY <2>1, <2>2 DEF NoLostWakeup
<1> QED
  BY <1>2, <1>3, <1>4

\* A push that is not the first leaves a task that is due before it.
LEMMA Inv_enterabs ==
  ASSUME Inv, NEW c \in Callers, enterabs(c)
  PROVE  Inv'
<1> DEFINE t == caller[c].task
<1>0. /\ caller[c].at = "push" /\ queue' = queue \cup {t}
      /\ caller' = [caller EXCEPT ![c] =
                      IF First(t) THEN [@ EXCEPT !.at = "set"] ELSE Idle]
      /\ UNCHANGED <<now, time, event, runner, task, wake, done>>
  BY DEF enterabs, At
<1>1. t \in Tasks /\ time[t] \in Nat
  BY <1>0 DEF Inv, TypeOK, TimesSet, Unset
<1>2. /\ caller \in [Callers -> [at: {"idle", "push", "set"},
                                 task: Tasks \cup {NoTask}]]
      /\ \A e \in Callers : e # c => caller'[e] = caller[e]
  BY <1>0 DEF Inv, TypeOK
<1>3. /\ First(t) => caller'[c] = [at |-> "set", task |-> t]
      /\ ~First(t) => caller'[c] = Idle
  BY <1>0, <1>2
<1>4. TypeOK'
  BY <1>0, <1>1, <1>2, <1>3 DEF Inv, TypeOK, Idle
<1>5. TimesSet'
  BY <1>0, <1>1, <1>2, <1>3 DEF Inv, TimesSet, Idle, Unset
<1>6. NoLostWakeup'
  <2> SUFFICES ASSUME runner = "block", ~event,
                      \A e \in Callers : caller'[e].at # "set"
               PROVE  \A u \in queue' : wake # Forever /\ wake <= time[u]
    BY <1>0 DEF NoLostWakeup, At
  <2>1. PICK v \in queue : ~(time[t] < time[v])
    BY <1>3 DEF First
  <2>2. \A e \in Callers : caller[e].at # "set"
    BY <1>0, <1>2
  <2>3. \A u \in queue : wake # Forever /\ wake <= time[u]
    BY <2>2 DEF Inv, NoLostWakeup, At
  <2>4. wake \in Nat /\ time[v] \in Nat /\ wake <= time[v]
    BY <2>3, Times DEF Inv, TypeOK
  <2> QED
    BY <1>0, <1>1, <2>1, <2>3, <2>4
<1> QED
  BY <1>4, <1>5, <1>6 DEF Inv

\* run() blocks until the time of the first task.
LEMMA Inv_look ==
  ASSUME Inv, look
  PROVE  Inv'
<1>1. UNCHANGED <<now, time, caller, done>> /\ event' = FALSE
  BY DEF look
<1>2. CASE \E t \in queue : /\ IsHead(t) /\ Due(t)
                            /\ queue' = queue \ {t}
                            /\ task' = t /\ runner' = "act"
                            /\ UNCHANGED wake
  BY <1>1, <1>2 DEF Inv, TypeOK, TimesSet, NoLostWakeup
<1>3. ASSUME NEW t \in queue, IsHead(t), wake' = Wake(t), runner' = "block",
             UNCHANGED <<queue, task>>
      PROVE  Inv'
  <2>1. wake' = time[t] /\ time[t] \in Nat
    BY <1>3, Times DEF Wake, Inv, TypeOK
  <2>2. NoLostWakeup'
    BY <1>1, <1>3, <2>1 DEF NoLostWakeup, IsHead, Forever
  <2> QED
    BY <1>1, <1>3, <2>1, <2>2 DEF Inv, TypeOK, TimesSet
<1>4. CASE /\ queue = {} /\ wake' = Forever /\ runner' = "block"
           /\ UNCHANGED <<queue, task>>
  BY <1>1, <1>4 DEF Inv, TypeOK, TimesSet, NoLostWakeup
<1> QED
  BY <1>2, <1>3, <1>4 DEF look

\* Every step keeps the invariant.
LEMMA InvStep == Inv /\ [Next]_vars => Inv'
<1> SUFFICES ASSUME Inv, [Next]_vars
             PROVE  Inv'
  OBVIOUS
<1> USE DEF Inv
<1>1. ASSUME NEW c \in Callers, set_event(c)
      PROVE  Inv'
  BY <1>1 DEF set_event, TypeOK, TimesSet, NoLostWakeup, Idle, At
<1>2. CASE act
  <2>1. task \in Tasks /\ runner' \in {"look", "stopped"} /\ task' = NoTask
    BY <1>2 DEF act, TimesSet
  <2>2. done' \subseteq Tasks
    BY <1>2, <2>1 DEF act, TypeOK
  <2>3. UNCHANGED <<now, time, queue, event, caller, wake>>
    BY <1>2 DEF act
  <2> QED
    BY <2>1, <2>2, <2>3 DEF TypeOK, TimesSet, NoLostWakeup, At
<1>3. CASE unblock
  BY <1>3 DEF unblock, TypeOK, TimesSet, NoLostWakeup, At
<1>4. CASE tick
  BY <1>4, SchedulerAssumption DEF tick, TypeOK, TimesSet, NoLostWakeup, At
<1>5. CASE UNCHANGED vars
  BY <1>5 DEF vars, TypeOK, TimesSet, NoLostWakeup, At
<1> QED
  BY <1>1, <1>2, <1>3, <1>4, <1>5, Inv_enter, Inv_enterabs, Inv_look
     DEF Next, Finish, Run

\* Every variable keeps to its type, and the runner never sleeps past the
\* time of a task: no order of enter() and run() loses a wake-up.
THEOREM NeverSleepsPast == Spec => [](TypeOK /\ NoLostWakeup)
<1>1. Inv => TypeOK /\ NoLostWakeup
  BY DEF Inv
<1> QED
  BY <1>1, InvInit, InvStep, PTL DEF Spec

\* A thread has a task only while it enters it, and a task has a time once it
\* is entered; the times are those of the clock.
THEOREM SchedulerTypes == Spec => []TypeOK
<1>1. TypeOK /\ NoLostWakeup => TypeOK
  OBVIOUS
<1> QED
  BY <1>1, NeverSleepsPast, PTL
=============================================================================
