SPECIFICATION PartsSpec
CONSTANTS
  d1 = d1
  s1 = s1
  s2 = s2
  c1 = c1
  c2 = c2
  m1 = m1
  m2 = m2
  Ids <- MCIds
  Slots <- MCSlots
  MaxAttempts = 3
  RetryDelay <- MCRetryDelay
  LockTime = 2
  AttemptTime = 1
  WarnAfter = 1
  DisableAfter = 2
  MaxResends = 1
  MaxCrashes = 1
  Events = 1
  Clis <- MCClis
  MaxConnects = 2
  MaxAsked = 1
  MaxLost = 1
  MaxCancelAttempts = 2
  MaxRuns = 1
  MaxMishaps = 1
  Meters <- MCMeters
  Stuck <- MCStuck
  Unheard <- MCUnheard
  Batch = 2
  SettleGas = 80000
  CapEndGas = 150000
  BatchGasUsed = 20000
  MaxFailures = 1
  MaxChanges = 1
  MaxScripts = 1
  MaxCutShort = 1
INVARIANTS PartsTypeOK OneAnswer RunsAreMetered
PROPERTIES EveryDeliveryEnds FramesEnd MetersEnd CapReachesTheRow EndIsShown SeedComesBack
CHECK_DEADLOCK FALSE
