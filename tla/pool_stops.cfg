CONSTANTS
  c1 = c1  c2 = c2  w1 = w1  w2 = w2  a1 = a1  a2 = a2
  r1 = r1  k1 = k1  q1 = q1
  Clients = {c1}  Workers = {w1, w2}  Closers = {a1}  Checkers = {}
  Resizers = {r1}  Waiters = {q1}
  Conns = {1, 2, 3}  Positions = {1}
  MinSize = 1  MaxSize = 1  MaxWaiting = 1
  HasReset = FALSE  HasCheck = TRUE  ConnectFails = FALSE  Interrupts = {"check"}
  Programs <- CloseOrResize
  ResizeTo <- ResizeUp
SPECIFICATION FairSpec
CHECK_DEADLOCK FALSE
INVARIANTS ClosedPoolEmpty FullIsNotified
PROPERTIES CloseReleases WorkersStop
