SPECIFICATION RulesSpec
CONSTANTS
  d1 = d1
  d2 = d2
  s1 = s1
  s2 = s2
  Ids <- MCIds
  Slots <- MCSlots
  MaxAttempts = 2
  RetryDelay <- MCRetryDelay
  LockTime = 2
  AttemptTime = 1
  WarnAfter = 1
  DisableAfter = 2
  MaxResends = 1
  MaxCrashes = 1
  Posters = {1, 2}
  Graces = {0, 1, 2}
  MaxRolls = 2
  MaxKeys = 3
  Rolls = {1, 2}
  KeyGraces = {0, 2, 3}
  HOUR = 2
  DAY = 3
  MaxCutOff = 1
  Requests <- MCRequests
  PerWallet = 1
  PerIp = 1
  PerDay = 2
  PerMerchant = 1
  MaxCuts = 1
INVARIANTS RulesTypeOK OneHolder TriesCounted GraceHonoured StopsAnnounced DropsWithinLimits
PROPERTIES FinalIsFinal DisabledAfterFailures
SYMMETRY Symmetry
CHECK_DEADLOCK FALSE
