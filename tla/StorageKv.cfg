SPECIFICATION Spec
CONSTANTS
  Thread = {t1}
  Cf = {"data_raft_log", "data_raft_state"}
  MaxKey = 2
  Options <- MCOptions
  Path = {inside, outside}
  Resolvable = {inside}
  MaxOps = 2
  MaxWrites = 2
  MaxCrashes = 1
INVARIANT WritesWhole
INVARIANT SyncedKept
INVARIANT ScanExact
INVARIANT SnapshotKept
CHECK_DEADLOCK FALSE
