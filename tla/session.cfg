SPECIFICATION Spec
CONSTANTS
  Threads = {t1}
  a = a
  b = b
  c = c
  Blocks = {a, b, c}
  NameOf <- OneName
  Forced = {a}
  Rows = {r}
  Xids = {x}
  Losses = TRUE
SYMMETRY Symmetry
INVARIANTS TypeOK WorkFollowsBlocks TpcIsOpen
PROPERTIES EndsAlone RollbackReachesTarget
