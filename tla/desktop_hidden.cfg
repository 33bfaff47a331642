\* A terminal that has ended is hidden or shown while its exit is held back, and the
\* window drops the exit: no lost connection, no reload.
CONSTANTS
  None = None
  RingBytes = 3
  ChunkBytes = 2
  SliceBytes = 2
  Chunks <- Sizes
  MaxBytes = 5
  MaxDrops = 0
  MaxReloads = 0
  MaxTouches = 1
SPECIFICATION FairSpec
PROPERTY EveryReloadPresentsExit
CHECK_DEADLOCK FALSE
