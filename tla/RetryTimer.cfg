SPECIFICATION Spec
CONSTANTS
  Modulus = 11
  Slots = 2
  BaseTimeout = 3
  MaxRetries = 1
  PollTime = 2
  PollGap = 3
INVARIANTS TypeOK Noticed SettledInTime
PROPERTY EarlyOnlyIfFresh
