SPECIFICATION SceneSpec
CONSTANTS
  None = None
  Slots = {1, 2}
  Jobs = {1, 2, 3}
  Invites = {1, 2}
  Requests = {r1, r2}
  Exchanges = {x1, x2}
  MaxFaults = 1
SYMMETRY Symmetry
INVARIANTS ScheduledIsReady InvitedOnce KeyBuysOneToken
CHECK_DEADLOCK FALSE
