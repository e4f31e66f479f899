SPECIFICATION Spec
CONSTANTS
  Rows = {1, 2}
  Entity <- MCEntity
  Parent <- MCParent
  MaxRows = 1
  Slots = {1}
  Modes = {"sync", "upload", "download"}
  Switches = TRUE
  Restores = FALSE
  MaxClock = 3
CHECK_DEADLOCK FALSE
INVARIANTS
  PulledUpToSince
  NewestSurvives
