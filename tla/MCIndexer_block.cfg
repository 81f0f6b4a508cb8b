SPECIFICATION PipelineSpec
CONSTANTS
  p = p
  t1 = t1
  Rate = 50
  MaxEscrow = 50
  MaxDuration = 1
  Merchant = p
  Subscriber = p
  Addr <- MCAddr
  Amounts = {}
  Deadlines = {}
  Steps <- MCSteps
  MaxTime = 3
  FeeChoices = {}
  Treasuries <- MCTreasuries
  Together <- SameBlock
  AtHead = FALSE
  MaxTries = 2
  MaxLogs = 5
  MaxFaults = 1
INVARIANTS BooksMatchChain MerchantToldOnce FinalTotalsExact RowFollowsNewestTurn SecondsUnlessMisread
PROPERTY OnlyOvertakenRevives
CHECK_DEADLOCK FALSE
