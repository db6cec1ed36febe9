SPECIFICATION Spec
CONSTANTS
  Sendable <- MCSendable
  MaxFrames = 2
  MaxBulkSize = 5
  MaxArrayLen = 2
  MaxDepth = 2
  Cuts = {"crlf", "marker", "nested"}
INVARIANT SafeCutsRoundTrip
INVARIANT LimitsEnforced
INVARIANT MarkerLossShows
INVARIANT SwallowedLinesShow
INVARIANT PanicOnlyAtTerminator
CHECK_DEADLOCK FALSE
