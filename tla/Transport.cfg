SPECIFICATION FairSpec
CONSTANTS
  c = c
  d = d
  g = g
  Nodes = {c, g}
  Peer <- PairPeer
  SendTasks <- PairTasks
  Probers = {g}
  MaxSeq <- CardputerOneGatewayTwo
  MaxBoots = 1
  AirCap = 2
  SeenSlots = 6
  PendingSlots = 1
  InboundCap = 4
  MaxRetries = 1
INVARIANTS TypeOK AckSound SettledOnce AtMostOnce AcceptedReachesChat
PROPERTIES Implements PendingSettles AcceptedIsShown
CHECK_DEADLOCK FALSE
