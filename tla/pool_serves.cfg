CONSTANTS
  c1 = c1  c2 = c2  w1 = w1  w2 = w2  a1 = a1  a2 = a2
  r1 = r1  k1 = k1  q1 = q1
  Clients = {c1, c2}  Workers = {w1}  Closers = {}  Checkers = {k1}
  Resizers = {}  Waiters = {}
  Conns = {1, 2, 3}  Positions = {1, 2}
  MinSize = 0  MaxSize = 1  MaxWaiting = 0
  HasReset = TRUE  HasCheck = FALSE  ConnectFails = FALSE  Interrupts = {}
  Programs <- Together
  ResizeTo <- NoResize
SPECIFICATION FairSpec
INVARIANT NoSharing
PROPERTIES EveryWaiterServed ServesInOrder
