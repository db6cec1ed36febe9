SPECIFICATION Spec
CONSTANTS
  Reader = {r1}
  MaxIndex = 4
  MaxTerm = 2
  Driver = {}
INVARIANT TermsExact
INVARIANT RangeStable
INVARIANT InitialStateInOrder
CHECK_DEADLOCK FALSE
