SPECIFICATION NodeSpec
CONSTANTS
  Key = {k1}
  Value = {v1}
  Missing = Missing
  NoEntry = NoEntry
  Configs <- MCConfigs
  Proposals <- MCProposals
  FirstIndex = 0
  MaxIndex = 1
  MaxCrashes = 1
  HasKvCf = TRUE
  CheckpointExists = {TRUE}
  NodeId = {1}
  MaxTerm = 1
  MaxBatch = 2
  MaxConflicts = 0
  MaxLag = 2
INVARIANT VoteKept
INVARIANT RestartCanReplay
INVARIANT ReaderTermsNeverLower
CHECK_DEADLOCK FALSE
