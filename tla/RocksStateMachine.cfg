SPECIFICATION FairSpec
CONSTANTS
  Key = {k1, k2}
  Value = {v1, v2}
  Missing = Missing
  NoEntry = NoEntry
  Configs <- MCConfigs
  FirstIndex = 1
  MaxIndex = 2
  MaxCrashes = 2
  HasKvCf = TRUE
  CheckpointExists = {TRUE, FALSE}
INVARIANT TypeOK
INVARIANT AppliedIsBacked
INVARIANT SnapshotMembershipFresh
INVARIANT VotersKept
PROPERTY EventuallyApplied
PROPERTY AppliedNeverRegresses
CHECK_DEADLOCK FALSE
