\* An earlier page's handler replaces the entry of the page, which shows no exit: no lost
\* connection, no change of the ended terminal.
CONSTANTS
  None = None
  RingBytes = 3
  ChunkBytes = 2
  SliceBytes = 2
  Chunks <- Sizes
  MaxBytes = 5
  MaxDrops = 0
  MaxReloads = 1
  MaxTouches = 0
SPECIFICATION FairSpec
PROPERTY EveryReloadPresentsExit
CHECK_DEADLOCK FALSE
