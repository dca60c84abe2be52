SPECIFICATION Spec
CONSTANTS
  Roles = {"Terminal", "Gateway"}
  Versions = {v1, v2}
  Missing = missing
  KeyCount = 3
  MaxBoots = 3
INVARIANTS TypeOK OneConfig NoDangling
PROPERTY ConfigKept
CHECK_DEADLOCK FALSE
