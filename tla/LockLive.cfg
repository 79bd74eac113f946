SPECIFICATION FairSpec
CONSTANTS
  Procs = {p1, p2}
  MaxAttempts = 2
  MaxGrants = 2
  Releases = TRUE
  Expires = TRUE
  MaxCrashes = 1
  Leftovers <- StaleBoth
PROPERTIES EveryCallerServed LiveLockStays
CHECK_DEADLOCK FALSE
