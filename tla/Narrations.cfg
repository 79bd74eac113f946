SPECIFICATION FairSpec
CONSTANTS
  r1 = r1
  r2 = r2
  j1 = j1
  j2 = j2
  Runs = {r1, r2}
  Jobs = {j1, j2}
  Batch <- Opposite
  Drafts = {"mixed", "rejected"}
  MaxFaults = 1
  MaxCrashes = 1
INVARIANTS CompletedHasSections AcceptedIsNotLost
PROPERTIES RecordKeepsOthers RunEnds
CHECK_DEADLOCK FALSE
