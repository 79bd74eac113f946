SPECIFICATION Spec
CONSTANTS
  Writers = {w1}
  MaxAttempts = 3
  MaxFaults = 2
  MaxCrashes = 2
  CanFault <- AllButRollback
  FixedId = FALSE
  Exclusive = TRUE
  RecoveryMode = "onNextUse"
INVARIANTS LastGoodKept RestoredWhenQuiet
PROPERTIES RefinesContract
CHECK_DEADLOCK FALSE
