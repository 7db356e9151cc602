SPECIFICATION Spec
CONSTANTS
  BufSize = 2
  SndBuf = 2
  MaxRead = 1
  MaxWrite = 3
  StreamLen = 1
  RequestLen = 4
  MaxConns = 1
INVARIANTS
  RequestSent
CHECK_DEADLOCK FALSE
