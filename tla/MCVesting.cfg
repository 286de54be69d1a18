SPECIFICATION Spec
CONSTANTS
  I128MAX = 1000
  MIN_STREAM_AMOUNT = 1
  MIN_VALID_AMOUNT = 1
  MaxTotal = 7
  MaxEnd = 6
INVARIANTS
  VestingIsExact
  ExtendingSlows
  TopUpAddsAtMost
  ViewsAgree
  SummaryConsistent
PROPERTIES
  VestingIsMonotone
CHECK_DEADLOCK FALSE
