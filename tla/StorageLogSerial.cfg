SPECIFICATION Spec
CONSTANTS
  Thread = {t1}
  Value = {v1}
  NoEntry = NoEntry
  MaxIndex = 3
  AllowTruncate = TRUE
INVARIANT NoGaps
INVARIANT CacheCurrent
PROPERTY NeverOverwritten
