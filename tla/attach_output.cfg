\* Up to six bytes through a ring of three, in chunks of two.
CONSTANTS
  None = None
  RingBytes = 3
  ChunkBytes = 2
  SliceBytes = 2
  Chunks <- Sizes
  MaxBytes = 6
SPECIFICATION FairSpec
INVARIANT RingHoldsNewest
INVARIANT ShownInOrder
INVARIANT EndsWithLastByte
PROPERTY SessionEnds
CHECK_DEADLOCK FALSE
