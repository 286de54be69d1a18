SPECIFICATION FairSpec
CONSTANTS
  BUMP_THRESHOLD = 1
  BUMP_EXTEND = 3
  Instance = Instance
  MinTTLs = {1, 4}
  MaxStreams = 2
INVARIANTS
  TypeOK
  RecentlyUsedLive
PROPERTIES
  RentPaidRarely
  
