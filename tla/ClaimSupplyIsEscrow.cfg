SPECIFICATION Spec
CONSTANTS
  alice = alice
  bob = bob
  Accounts = {alice, bob}
  Contract = Contract
  Funds <- MCFunds
  Requests <- MCRequests
  Batches <- MCBatches
  Amounts = {0, 1}
  Caps = {0, 3}
  U64MAX = 5
  I128MAX = 7
  MIN_STREAM_AMOUNT = 1
  MIN_VALID_AMOUNT = 1
  MaxStreams = 2
INVARIANTS
  SupplyIsEscrow
CHECK_DEADLOCK FALSE
