SPECIFICATION Spec
CONSTANTS
  c = c
  d = d
  g = g
  Nodes = {c, d, g}
  Peer <- TrioPeer
  SendTasks <- TrioTasks
  Probers = {g}
  MaxSeq <- TrioOneC
  MaxBoots = 2
  AirCap = 1
  SeenSlots = 6
  PendingSlots = 1
  InboundCap = 4
  MaxRetries = 1
CHECK_DEADLOCK FALSE
INVARIANTS SettledOnce AtMostOnce
