SPECIFICATION Spec
CONSTANTS
  Replica = {r1, r2}
  Key = {k1}
  Value = {v1, v2}
  Missing = Missing
  NoEntry = NoEntry
  Configs <- MCConfigs
  FirstIndex = 0
  MaxIndex = 3
  MaxRestarts = 1
SYMMETRY Symmetry
INVARIANT ReplicasAgree
INVARIANT SnapshotExact
INVARIANT AnswersAgree
CHECK_DEADLOCK FALSE
