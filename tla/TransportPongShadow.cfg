SPECIFICATION Spec
CONSTANTS
  c = c
  d = d
  g = g
  Nodes = {c, g}
  Peer <- PairPeer
  SendTasks <- PairTasks
  Probers = {g}
  MaxSeq <- OneEach
  MaxBoots = 1
  AirCap = 2
  SeenSlots = 6
  PendingSlots = 2
  InboundCap = 4
  MaxRetries = 1
PROPERTY DuplicatesOnly
CHECK_DEADLOCK FALSE
