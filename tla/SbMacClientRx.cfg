SPECIFICATION Spec
CONSTANTS
  PoolSize = 4
  RxSize = 3
  TxSize = 3
  MinRx = 2
  FgSends = TRUE
  MaxFrames = 3
  MaxSends = 2
INVARIANTS RxSpace
