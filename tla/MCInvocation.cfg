SPECIFICATION InvocationSpec
CONSTANTS
  alice = alice
  bob = bob
  Accounts = {alice, bob}
  Contract = Contract
  Funds <- MCFunds
  Requests <- MCRequests
  Batches <- MCBatches
  Amounts = {0, 1, 5}
  Caps = {0, 3}
  U64MAX = 3
  I128MAX = 5
  MIN_STREAM_AMOUNT = 1
  MIN_VALID_AMOUNT = 1
  MaxStreams = 4
INVARIANTS
  InvocationTypeOK
  
PROPERTIES
  AtomicInvocations
  RefusalsJustified
  
