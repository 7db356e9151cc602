SPECIFICATION LiveSpec
CONSTANTS
  QueueLen = 4
  PoolSize = 5
  MaxBurst = 3
  MaxHeld = 2
  MaxFrames = 7
INVARIANTS
  PbufsAccounted
PROPERTIES
  ImplementsFrameQueue
