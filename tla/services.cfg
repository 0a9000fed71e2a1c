SPECIFICATION SceneSpec
CONSTANTS
  Emitters = {"verdict", "snapshot"}
  Viewers = {"candidate", "proctor"}
  MaxEvents = 3
  MaxLost = 1
  None = None
  Flights = {f1, f2}
  MaxTokens = 3
  Topics = {t1, t2, t3}
  Movers = {m1, m2}
  Root = Root
  Nowhere = Nowhere
  Paths <- MCPaths
  Calls = {c1, c2}
  Window = 2
  LimitAuth = 1
  LimitDefault = 2
  MaxTime = 2
  MaxCalls = 3
  Editors = {e1, e2}
  Questions = {1, 2, 3}
  TopicsOf <- MCTopicsOf
  Entries <- MCEntries
  MaxEntries = 2
  MaxVersions = 3
  Unset = Unset
  Signals = {s1, s2}
  MaxSignals = 4
  Blank = "_"
  Outputs <- MCOutputs
  OutputCap = 3
  CaptureCap = 2
  MaxCases = 2
  Absent = 8
  Values <- MCValues
  Lengths = {0, 2}
  Letter = 9
  ValueSpread = 1
  LengthSpread = 1
  MaxVars = 1
  Examples <- MCExamples
  MaxAttempts = 3
  Ordinals = {1, 2}
  Languages = {"python", "java"}
  MaxDeeds = 3
  MaxRecords = 5
  MaxText = 6
  Founders = {fo1, fo2}
  Admins = {ad1}
  Nobody = Nobody
  Contents = {1, 2}
  NoText = 0
  MaxRows = 2
  MaxTyping = 3
  Subjects = {"a", "b"}
  Weights <- MCWeights
  Lows = {1, 4}
  Highs = {3, 6}
  Counts = {0, 1}
  Durations = {0, 90, 1441}
  MaxMix = 2
INVARIANTS TypeOK ViewersSeeTheLog RotationIsExact TreeStaysATree FactoryCasesAreSound CountersAreExact ConsoleTellsTheTruth RoomKeepsItsWork SignalsAreSound
CHECK_DEADLOCK FALSE
