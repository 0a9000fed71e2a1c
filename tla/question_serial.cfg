SPECIFICATION Spec
CONSTANTS
  None = None
  r1 = r1
  r2 = r2
  r3 = r3
  r4 = r4
  r5 = r5
  Requests = {r1, r2, r3, r4, r5}
  MaxOrdinal = 2
  Concurrent = FALSE
  PinsDrafts = TRUE
SYMMETRY Symmetric
INVARIANTS TypeOK AddedCasesSurvive
PROPERTY KeepsHistory
