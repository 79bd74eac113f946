SPECIFICATION Spec
CONSTANTS
  Writers = {w1}
  MaxAttempts = 3
  MaxFaults = 1
  MaxCrashes = 0
  CanFault <- AllButRollback
  FixedId = TRUE
  Exclusive = TRUE
  RecoveryMode = "never"
PROPERTIES StrayIsHarmless
CHECK_DEADLOCK FALSE
