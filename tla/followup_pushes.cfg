SPECIFICATION SceneSpec
CONSTANTS
  None = None
  p1 = p1
  p2 = p2
  j1 = j1
  a1 = a1
  SyncJobs = {p1, p2}
  AsyncJobs = {j1}
  Authors = {a1}
  NumCases = 2
  Lineage = TRUE
  MaxReceives = 2
  MaxFaults = 2
INVARIANTS KeptIsAttached AnnouncedVersionIsComplete AnnouncedIsGraded
PROPERTY NobodyWaitsForEver
CHECK_DEADLOCK FALSE
