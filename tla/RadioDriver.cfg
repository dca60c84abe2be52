SPECIFICATION FairSpec
CONSTANTS
  Proto = proto
  AppTasks = {serial, web}
  None = none
  Boards = {"SX1278", "E220"}
  MaxPayload = 3
  Sx1278Limit = 30
  E220Limit = 23
  LockWait = 1
  AirTimes = {2}
  Texts <- MCTexts
  Incoming <- MCIncoming
  MaxSends = 2
INVARIANTS TypeOK SendVerdict HeardIsDecoded DecodesWhatWasEncoded
PROPERTY CallsReturn
CHECK_DEADLOCK FALSE
