SPECIFICATION LinkSpec
CONSTANTS
  MaxConnections = 2
  MaxChunks = 3
  Hint = 2
  WaitTime = 1
  MaxBytes = 3
  ReplySize = 2
CHECK_DEADLOCK FALSE
INVARIANTS
  NoThreadWithoutChannel
  NoSleepOnData
  ChunksInOrder
  BytesAsSent
PROPERTIES
  DisconnectReturns
  LossIsNoticed
