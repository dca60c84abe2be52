SPECIFICATION Spec
CONSTANTS
  Capacity = 3
  Recent = 2
  Faults = {"open"}
  MaxMessages = 7
  MaxCrashes = 3
  MaxReformats = 0
  MaxClears = 0
CHECK_DEADLOCK FALSE
INVARIANTS TypeOK IdsIncrease
PROPERTY Implements
