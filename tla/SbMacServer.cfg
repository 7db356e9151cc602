SPECIFICATION LiveSpec
CONSTANTS
  PoolSize = 4
  RxSize = 3
  TxSize = 3
  MinRx = 2
  FgSends = FALSE
  MaxFrames = 3
  MaxSends = 3
INVARIANTS
  TypeOK Accounted RxSpace RingStaysCharged NoLostWork InOrder
PROPERTIES RingsServed
