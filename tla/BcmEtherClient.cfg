SPECIFICATION ClientSpec
CONSTANTS
  QueueLen = 4
  PoolSize = 5
  MaxBurst = 3
  MaxHeld = 2
  MaxFrames = 3
INVARIANTS
  NoFrameLost
