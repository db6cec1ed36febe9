SPECIFICATION NodeSpec
CONSTANTS
  Key = {k1}
  Value = {v1}
  Missing = Missing
  NoEntry = NoEntry
  Configs <- MCConfigs
  Proposals <- MCProposals
  FirstIndex = 0
  MaxIndex = 2
  MaxCrashes = 0
  HasKvCf = TRUE
  CheckpointExists = {FALSE}
  NodeId = {1}
  MaxTerm = 1
  MaxBatch = 2
  MaxConflicts = 1
  MaxLag = 0
PROPERTY ConflictsRemoved
CHECK_DEADLOCK FALSE
