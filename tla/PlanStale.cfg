SPECIFICATION ServicesSpec
CONSTANTS
  None = None
  Writers = {p1, p2}
  Ids = {i1, i2}
  ProfileFiles = {g1, g2}
  Clients = {k1, k2}
  MaxCommands = 3
  MaxFaults = 1
  Callers = {c1, c2}
  MaxRequests = 3
  MaxRetries = 1
  EarlyRefresh = 1
  Lifetimes = {2}
  MaxTime = 3
  MaxCalls = 2
  Flows = {f1, f2, f3, f4, f5}
  PageSize = 2
  MaxPages = 3
  MaxRows = 4
  MaxChanges = 2
  Cached = {f1, f2, f3}
  CacheLimit = 2
  Languages = {en, ar}
  MaxPublished = 2
  MaxLoads = 4
  MaxCommit = 2
  MaxRuns = 3
  MaxEdits = 2
  Planned = {d1, d2}
  Unpinned = Unpinned
  PolicyMax = 1
  Expiry = 0
  MaxVersion = 2
  MaxClock = 1
  MaxMoves = 2
  MaxPlans = 2
INVARIANTS PlannedVersionIsDocumented
CHECK_DEADLOCK FALSE
