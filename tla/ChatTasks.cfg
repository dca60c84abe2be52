SPECIFICATION Spec
CONSTANTS
  protocol = protocol
  loop = loop
  web = web
  Task <- CardputerTasks
  DisplayCapacity = 2
  StoreCapacity = 3
  MaxMessages = 5
SYMMETRY TaskSymmetry
CHECK_DEADLOCK FALSE
INVARIANTS TypeOK AloneIsShown AloneIsStored AloneIsNumbered CountBounded
