SPECIFICATION Spec
CONSTANTS
  Unset = Unset
  r1 = r1
  r2 = r2
  f1 = f1
  f2 = f2
  Runs = {r1, r2}
  Flows = {f1, f2}
  Unpublished = {f2}
  Scopes <- SomeScopes
  MaxVersion = 2
  MaxEdits = 2
  MaxFulls = 1
  MaxFaults = 1
INVARIANTS SkippedIsCurrent GraphCovers
PROPERTIES CarriesTheRest
CHECK_DEADLOCK FALSE
