SPECIFICATION Spec
CONSTANTS
  Procs = {p1, p2}
  MaxAttempts = 3
  MaxGrants = 1
  Releases = FALSE
  Expires = FALSE
  MaxCrashes = 0
  Leftovers <- StaleLock
INVARIANTS MutualExclusion
CHECK_DEADLOCK FALSE
