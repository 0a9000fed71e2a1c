SPECIFICATION RoomSpec
CONSTANTS
  Ordinals = {1, 2}
  Languages = {"python"}
  MaxDeeds = 3
INVARIANTS GradedAsShown DraftsAreTheirOwn
CHECK_DEADLOCK FALSE
