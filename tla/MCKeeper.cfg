SPECIFICATION FairKeeperSpec
CONSTANTS
  w1 = w1
  w2 = w2
  Rows <- MCRows
  Wallets <- MCWallets
  Offers <- MCOffers
  MaxCalls = 2
  MaxRequests = 4
  MaxFaults = 1
INVARIANTS KeeperTypeOK StreamsAreBound OneStreamPerPermit
PROPERTIES CapsPartOnlyMidStart HeldEnds
CHECK_DEADLOCK FALSE
