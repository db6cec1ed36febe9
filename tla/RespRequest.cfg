SPECIFICATION Spec
CONSTANTS
  User = {u1, u2}
  Request <- MCRequest
  DefaultCapacity = 20
  MaxPoolSize = 1
  MaxBulkSize = 9
  MaxArrayLen = 5
  MaxDepth = 2
INVARIANT PoolReady
INVARIANT CommandKept
SYMMETRY Symmetry
CHECK_DEADLOCK FALSE
