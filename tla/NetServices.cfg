SPECIFICATION LiveSpec
CONSTANTS
  Pcbs = {u1, u2}
  NULL = NULL
  Hosts = {h1, h2}
  MaxLen = 2
  Room = 1
  HZ = 2
  WORD = 6
  MaxDgrams = 2
  MaxSntp = 2
  MaxClock = 4
  SntpAgain = FALSE
INVARIANTS UdpWhole PcbsOwned TimeTruthful LookupTruthful
PROPERTY LookupReturns
CHECK_DEADLOCK FALSE
