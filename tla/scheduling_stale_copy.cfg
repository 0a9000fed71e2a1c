SPECIFICATION StaleSpec
CONSTANTS
  None = None
  Slots = {1, 2}
  Jobs = {1, 2, 3}
  Invites = {1}
  Requests = {r1, r2}
  Exchanges = {x1}
  MaxFaults = 0
SYMMETRY Symmetry
INVARIANT SlotsAreFilled
CHECK_DEADLOCK FALSE
