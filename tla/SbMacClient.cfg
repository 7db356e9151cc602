SPECIFICATION LiveSpec
CONSTANTS
  PoolSize = 3
  RxSize = 3
  TxSize = 3
  MinRx = 2
  FgSends = TRUE
  MaxFrames = 2
  MaxSends = 2
PROPERTIES CallsReturn
