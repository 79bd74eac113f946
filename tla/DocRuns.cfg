SPECIFICATION FairSpec
CONSTANTS
  Calls = {c1, c2}
  MaxRuns = 2
  MaxFaults = 1
  MaxCrashes = 1
  MaxCancels = 1
  ProfileMayVanish = TRUE
INVARIANTS UnfinishedTouchedNothing
PROPERTIES ManifestFollowsMachine RunEnds CancelIsHonoured
CHECK_DEADLOCK FALSE
