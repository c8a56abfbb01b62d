CONSTANTS
  c1 = c1  c2 = c2  w1 = w1  w2 = w2  a1 = a1  k1 = k1  q1 = q1
  Setups <- AllSetups
  Clients = {c1, c2}  Workers = {w1}  Closers = {a1}  Checkers = {k1}
  Waiters = {q1}
  Conns = {1, 2, 3, 4, 5}
  MaxWaiting = 2
  Cancels = {"waiting", "sleeping", "getconn", "connecting"}
SPECIFICATION FairSpec
CHECK_DEADLOCK FALSE
INVARIANTS AsyncTypeOK AsyncAccounting
PROPERTIES AsyncWaiterServed AsyncCloseReleases
