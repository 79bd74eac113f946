SPECIFICATION Spec
CONSTANTS
  r0 = r0
  r1 = r1
  r2 = r2
  f1 = f1
  f2 = f2
  Runs = {r1, r2}
  Flows = {f1, f2}
  Selected <- Disjoint
  Earlier = {}
  MaxFaults = 0
  MaxCrashes = 0
INVARIANTS OthersKept
CHECK_DEADLOCK FALSE
