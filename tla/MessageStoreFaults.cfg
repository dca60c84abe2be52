SPECIFICATION Spec
CONSTANTS
  Capacity = 3
  Recent = 2
  Faults = {"open", "write", "save", "index"}
  MaxMessages = 6
  MaxCrashes = 2
  MaxReformats = 1
  MaxClears = 1
CHECK_DEADLOCK FALSE
INVARIANT StoredIsNewest
