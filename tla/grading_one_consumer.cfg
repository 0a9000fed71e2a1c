SPECIFICATION FairSpec
CONSTANTS
  None = None
  s1 = s1
  s2 = s2
  j1 = j1
  j2 = j2
  c1 = c1
  c2 = c2
  Submissions = {s1}
  Judges = {j1, j2}
  Consumers = {c1}
  NumCases = 2
  Samples = {1}
  Outcomes <- FlakyCompile
  BatchSize = 2
  MaxReceives = 2
  MaxFaults = 2
  SqsErrors = TRUE
INVARIANTS TypeOK ResultIsOneReport NothingLost LogAgreesWithResult
PROPERTY GradesOnce
PROPERTY JobsGetGradedWhileUp
CHECK_DEADLOCK FALSE
