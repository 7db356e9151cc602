SPECIFICATION LiveSpec
CONSTANTS
  NULL = NULL
  Wrap = 11  Interval = 4  MaxIsr = 2  MaxSleep = 6  MaxTicks = 2
  NumVlans = 3  PortLists <- MCPortLists
  Names = {n1, n2, n3}  Values = {v1, v2}  MaxTuples = 3  Hash <- MCHash  Space = 2
  Items = {i1, i2, i3, i4}  QB = QB
  BITS = 3
  ADDR_LEN = 2  MaxStr = 6
  HEADER = 2  FOOTER = 1  ALIGN = 2  PAGE = 4  MaxLen = 12  MaxFile = 2
INVARIANTS TypeOK NoDrift SleepExact WatchdogExact SwitchDescribed ValuesStay BytesHeard AddressesAgree ScriptFound
PROPERTIES AccessesWhole BringUpEnds StoreKept IsFifo
CHECK_DEADLOCK FALSE
