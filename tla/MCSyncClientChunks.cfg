SPECIFICATION Spec
CONSTANTS
  Rows = {1, 2}
  Entity <- MCEntity
  Parent <- MCNoParent
  MaxRows = 1
  Slots = {1}
  Modes = {"sync", "upload"}
  Switches = FALSE
  Restores = FALSE
  MaxClock = 3
CHECK_DEADLOCK FALSE
INVARIANTS
  SentUpToSince
