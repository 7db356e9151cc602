SPECIFICATION LiveSpec
CONSTANTS
  BufSize = 4
  SndBuf = 2
  MaxRead = 2
  MaxWrite = 2
  StreamLen = 5
  RequestLen = 3
  MaxConns = 2
INVARIANTS
  StreamIntegrity StatusTruthful
PROPERTIES
  ConnectReturns
CHECK_DEADLOCK FALSE
