SPECIFICATION FairSpec
CONSTANTS
  r1 = r1
  r2 = r2
  f1 = f1
  f2 = f2
  k1 = k1
  k2 = k2
  Runs = {r1, r2}
  Flows = {f1, f2}
  Keys = {f1, f2, k1, k2}
  Refs <- Cyclic
  Readable = {f1, f2, k1}
  Yaml = {f1}
  Mode = "migration"
  MaxRequests = 2
  MaxFaults = 2
  MaxCrashes = 1
  MaxResumes = 1
INVARIANTS SealedVerifies ReadyIsClosed ClosedUnlessTruncated
PROPERTIES RunEnds
CHECK_DEADLOCK FALSE
