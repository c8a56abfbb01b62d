CONSTANTS
  t1 = t1  t2 = t2  q1 = q1  q2 = q2  drop = drop
  Threads = {t1}
  Queries = {q1, q2}
  Kind <- Kinds
  Threshold = 1  PreparedMax = 1
  Fails = FALSE  HasClose = TRUE
  MaxLevel = 0  MaxNames = 3  MaxCount = 2  MaxQueue = 4
SPECIFICATION Spec
INVARIANTS LimitKept
