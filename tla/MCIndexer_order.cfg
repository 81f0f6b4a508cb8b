SPECIFICATION PipelineSpec
CONSTANTS
  p = p
  t1 = t1
  Rate = 50
  MaxEscrow = 50
  MaxDuration = 1
  Merchant = p
  Subscriber = p
  Addr <- MCAddr
  Amounts = {}
  Deadlines = {}
  Steps <- MCSteps
  MaxTime = 3
  FeeChoices = {}
  Treasuries <- MCTreasuries
  Together <- SameBlock
  AtHead = TRUE
  MaxTries = 1
  MaxLogs = 7
  MaxFaults = 1
INVARIANT SecondsElapsedExact
CHECK_DEADLOCK FALSE
