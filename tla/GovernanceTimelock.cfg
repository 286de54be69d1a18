SPECIFICATION Spec
CONSTANTS
  Accounts = {alice, bob}
  Addresses = {alice, bob}
  Hashes = {v1}
  None = None
  ADMIN_TIMELOCK_DELAY = 3
  U64MAX = 8
PROPERTIES
  AdminNotChangedImmediately
CHECK_DEADLOCK FALSE
