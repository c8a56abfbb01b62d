CONSTANTS
  c1 = c1  c2 = c2  t1 = t1  t2 = t2  stop = stop
  Callers = {c1, c2}
  Tasks = {t1, t2, stop}
  StopTasks = {stop}
  Delays = {0, 2}
  MaxTime = 2
SPECIFICATION FairSpec
CHECK_DEADLOCK FALSE
INVARIANTS TypeOK NoLostWakeup
PROPERTIES EveryTaskRuns
