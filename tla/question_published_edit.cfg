SPECIFICATION Spec
CONSTANTS
  None = None
  r1 = r1
  r2 = r2
  r3 = r3
  r4 = r4
  r5 = r5
  Requests = {r1, r2, r3}
  MaxOrdinal = 2
  Concurrent = TRUE
  PinsDrafts = FALSE
SYMMETRY Symmetric
PROPERTY PublishedIsFrozen
