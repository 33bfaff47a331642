\* Three attempts, as in the code, and five sequence numbers.
CONSTANTS
  None = None
  Attempts = 3
  MaxSeq = 5
SPECIFICATION SyncFairSpec
INVARIANT ClearedMeansReceived
PROPERTY NeverBack
PROPERTY EndDelivered
PROPERTY ExitPublished
CHECK_DEADLOCK FALSE
