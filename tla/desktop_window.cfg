\* Up to five bytes through a ring of three, one lost connection, one reload.
CONSTANTS
  None = None
  RingBytes = 3
  ChunkBytes = 2
  SliceBytes = 2
  Chunks <- Sizes
  MaxBytes = 5
  MaxDrops = 1
  MaxReloads = 1
  MaxTouches = 1
SPECIFICATION FairSpec
INVARIANT ShownInOrder
INVARIANT ExitBelowOutput
PROPERTY ReloadPresentsExit
CHECK_DEADLOCK FALSE
