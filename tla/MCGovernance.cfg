SPECIFICATION FairSpec
CONSTANTS
  Accounts = {alice, bob, carol}
  Addresses = {alice, bob, carol, contract}
  Hashes = {v1, v2}
  None = None
  ADMIN_TIMELOCK_DELAY = 3
  U64MAX = 8
INVARIANTS
  TypeOK
  PendingIsAnnounced
PROPERTIES
  TransfersWaitDelay
  TransfersCarriedOut
CHECK_DEADLOCK FALSE
