SPECIFICATION FairSpec
CONSTANTS
  Plans <- MCPlans
  MaxCalls = 5
  LastInstant = 3
  MaxAttempts = 2
  PerHour = 2
  Cooldown = 1
  Hour = 2
  Expiry = 1
  MaxFailed = 2
  Lockout = 2
  RefreshTTL = 2
  NoOne = NoOne
CHECK_DEADLOCK FALSE
INVARIANTS CutoffExact OneHeir
PROPERTIES GuessingBounded EveryRequestAnswered
