SPECIFICATION FairSpec
CONSTANTS
  alice = alice
  bob = bob
  Accounts = {alice, bob}
  Contract = Contract
  Funds <- MCFunds
  Requests <- MCRequests
  Batches <- MCBatches
  Amounts = {1}
  Caps = {3}
  U64MAX = 4
  I128MAX = 5
  MIN_STREAM_AMOUNT = 1
  MIN_VALID_AMOUNT = 1
  MaxStreams = 2
PROPERTIES
  StreamsSettle
CHECK_DEADLOCK FALSE
