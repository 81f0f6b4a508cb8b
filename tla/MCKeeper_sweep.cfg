SPECIFICATION KeeperSpec
CONSTANTS
  w1 = w1
  w2 = w2
  Rows <- MCRows
  Wallets <- MCWallets
  Offers <- MCOffers
  MaxCalls = 2
  MaxRequests = 4
  MaxFaults = 0
PROPERTY SweepSparesStarted
CHECK_DEADLOCK FALSE
