SPECIFICATION DeliveriesSpec
CONSTANTS
  d1 = d1
  d2 = d2
  s1 = s1
  s2 = s2
  Ids <- MCIds
  Slots <- MCSlots
  MaxAttempts = 2
  RetryDelay <- MCRetryDelay
  LockTime = 2
  AttemptTime = 1
  WarnAfter = 1
  DisableAfter = 2
  MaxResends = 1
  MaxCrashes = 1
INVARIANT EveryPostLogged
