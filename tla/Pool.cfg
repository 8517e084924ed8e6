SPECIFICATION PoolSpec
CONSTANTS
  Ctx = {c1, c2}
  NoCtx = NoCtx
  Addr = {m1, m2, m3, m4, m5}
  PoolSize = 2
SYMMETRY PoolSymmetry
INVARIANTS PoolTypeOK OnePlace NoDanglingCtx
PROPERTIES PoolImplementsFlow
CHECK_DEADLOCK FALSE
