SPECIFICATION Spec
CONSTANTS
  Entry = {e1, e2}
  NoEntry = NoEntry
  Vote = {w1, w2}
  NoVote = NoVote
  FirstIndex = 0
  MaxIndex = 4
  MaxBatch = 3
INVARIANT Held
PROPERTY ImplementsLogStore
