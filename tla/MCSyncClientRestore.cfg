SPECIFICATION Spec
CONSTANTS
  Rows = {1}
  Entity <- MCEntity
  Parent <- MCNoParent
  MaxRows = 1
  Slots = {s1, s2}
  Modes = {"sync"}
  Switches = FALSE
  Restores = TRUE
  MaxClock = 3
SYMMETRY MCSymmetry
CHECK_DEADLOCK FALSE
INVARIANTS
  RestoreReachesServer
