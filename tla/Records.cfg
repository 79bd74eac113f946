SPECIFICATION RecordsSpec
CONSTANTS
  r0 = r0
  r1 = r1
  r2 = r2
  f1 = f1
  f2 = f2
  Runs = {r0, r1, r2}
  Flows = {f1, f2}
  Selected <- Overlapping
  Earlier = {r0}
  MaxFaults = 1
  MaxCrashes = 1
  w1 = w1
  w2 = w2
  SwapAttempts = 3
  SwapFaults = 2
  SwapCrashes = 1
  Versions = {1, 2}
  Texts = {1, 2}
  Formats = {"yaml", "json"}
  Resources = {q}
  Digests = {d}
  Users = {u}
  Lost = Lost
  Garbled = Garbled
  MaxWrites = 2
  MaxDamage = 2
  NoSubject = NoSubject
  Fabricated = Fabricated
  Sections = {purpose}
  Strange = Strange
  MaxAttempts = 2
  MaxDraft = 3
  MaxKept = 2
  MaxChars = 3
  Absent = Absent
  Gone = Gone
  MaxEdits = 2
  MaxListItems = 3
  Nodes = {1, 2, 3}
  Missing = 4
  Start = 1
  Depths = {1, 3}
  MaxJourneys = 4
INVARIANTS UndisturbedDropsNothing LastGoodKept SealHolds NarrationIsGrounded
INVARIANTS EverythingRepresented BehaviourIsReviewed CoverageRegressionBlocks MovementIsNoChange
INVARIANTS AnalysisIsExact JourneysAreHonest
PROPERTIES UndisturbedKeepsOthers
CHECK_DEADLOCK FALSE
