SPECIFICATION Spec
CONSTANTS
  None = None
  r1 = r1
  r2 = r2
  Requests = {r1, r2}
  Starts = 1
  Ends = 4
  Duration = 2
  MaxTime = 5
  MaxFaults = 0
  PageOpen = FALSE
PROPERTY LockedTakesNothing
