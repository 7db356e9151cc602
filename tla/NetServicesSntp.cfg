SPECIFICATION Spec
CONSTANTS
  Pcbs = {u1, u2}
  NULL = NULL
  Hosts = {h1, h2}
  MaxLen = 2
  Room = 1
  HZ = 2
  WORD = 6
  MaxDgrams = 0
  MaxSntp = 2
  MaxClock = 1
  SntpAgain = TRUE
INVARIANT PcbsOwned
CHECK_DEADLOCK FALSE
