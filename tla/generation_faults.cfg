SPECIFICATION FairSpec
CONSTANTS
  None = None
  g1 = g1
  w1 = w1
  w2 = w2
  Jobs = {g1}
  Workers = {w1, w2}
  MaxAttempts = 3
  NumInputs = 100
  Threshold = 95
  Reports <- EitherSide
  BatchSize = 2
  MaxReceives = 3
  MaxFaults = 1
  MaxAiFaults = 1
INVARIANTS TypeOK QuestionsAgreed AttemptsAreSpentOnDisagreement
PROPERTY JobsFinish
PROPERTY WinnerIsKeptUnlessJudgedTwice
