SPECIFICATION Spec
CONSTANTS
  merchant = merchant
  subscriber = subscriber
  k1 = k1
  t1 = t1
  Rate = 15
  MaxEscrow = 50
  Merchant = merchant
  Subscriber = subscriber
  Addr <- MCAddr
  Amounts <- MCAmounts
  Deadlines <- MCDeadlines
  Steps <- MCSteps
  MaxTime = 7
  FeeChoices <- MCFeeChoices
  Treasuries <- MCTreasuries
PROPERTY AccrualFrozenAtCap
