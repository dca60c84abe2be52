SPECIFICATION FairSpec
CONSTANTS
  MaxText = 2
  QueueCap = 2
  MaxMessages = 3
INVARIANTS
  TypeOK
  ScreenCurrent
PROPERTIES
  MessageShown
  InputShown
