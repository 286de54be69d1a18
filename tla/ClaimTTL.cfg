SPECIFICATION Spec
CONSTANTS
  BUMP_THRESHOLD = 1
  BUMP_EXTEND = 4
  Instance = Instance
  MinTTLs = {1}
  MaxStreams = 1
INVARIANTS
  MonthlyAccessKeepsAlive
