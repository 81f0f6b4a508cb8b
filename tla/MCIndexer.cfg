SPECIFICATION FairPipelineSpec
CONSTANTS
  p = p
  t1 = t1
  Rate = 50
  MaxEscrow = 50
  MaxDuration = 1
  Merchant = p
  Subscriber = p
  Addr <- MCAddr
  Amounts = {}
  Deadlines = {}
  Steps <- MCSteps
  MaxTime = 3
  FeeChoices = {}
  Treasuries <- MCTreasuries
  Together <- SameTx
  AtHead = TRUE
  MaxTries = 1
  MaxLogs = 7
  MaxFaults = 1
INVARIANTS PipelineTypeOK BooksMatchChain SecondsElapsedExact RowMirrorsStream
PROPERTY EndedRowCloses
CHECK_DEADLOCK FALSE
