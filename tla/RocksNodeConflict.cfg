SPECIFICATION NodeSpec
CONSTANTS
  Key = {k1}
  Value = {v1}
  Missing = Missing
  NoEntry = NoEntry
  Configs <- MCConfigs
  Proposals <- MCWrites
  FirstIndex = 0
  MaxIndex = 2
  MaxCrashes = 0
  HasKvCf = TRUE
  CheckpointExists = {FALSE}
  NodeId = {}
  MaxTerm = 2
  MaxBatch = 1
  MaxConflicts = 1
  MaxLag = 1
INVARIANT AppliedWithinLog
INVARIANT Reopenable
INVARIANT ReaderTermsNeverLower
CHECK_DEADLOCK FALSE
