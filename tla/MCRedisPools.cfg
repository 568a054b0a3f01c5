SPECIFICATION Spec
CONSTANTS
  Backends = {b1, b2, b3}
  Ops = {o1}
  Nil = Nil
  MaxChanges = 3
INVARIANTS TypeOK RestingPoolsMatch SteadyKeepPool
PROPERTY PoolsConverge
CHECK_DEADLOCK FALSE
