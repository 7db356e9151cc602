SPECIFICATION LiveSpec
CONSTANTS
  PoolSize = 4
  SndBuf = 2
  Pcbs = 2
  MaxRes = 3
  MaxReq = 2
  MaxConns = 2
  MaxTexts = 1
INVARIANTS
  PbufsOwned ReplyIntact CloseGraceful RequestsOnce
PROPERTIES
  ConnectionEnds
CHECK_DEADLOCK FALSE
