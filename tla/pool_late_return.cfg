CONSTANTS
  c1 = c1  c2 = c2  w1 = w1  w2 = w2  a1 = a1  a2 = a2
  r1 = r1  k1 = k1  q1 = q1
  Clients = {c1}  Workers = {w1}  Closers = {a1}  Checkers = {}
  Resizers = {}  Waiters = {}
  Conns = {1, 2, 3, 4}  Positions = {1, 2}
  MinSize = 1  MaxSize = 1  MaxWaiting = 0
  HasReset = TRUE  HasCheck = FALSE  ConnectFails = FALSE  Interrupts = {}
  Programs <- Together
  ResizeTo <- NoResize
SPECIFICATION FairSpec
CHECK_DEADLOCK FALSE
PROPERTY CloseReleases
