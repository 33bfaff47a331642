\* Every call ends, under fairness: two callers, one of whom may die anywhere.
SPECIFICATION FairSpec
CONSTANTS
  Procs = {p1, p2}
  NoOwner = NoOwner
  RenameOverEmpty = FALSE
  CrashInGate = TRUE
  MaxCrashes = 1
  GateAttempts = 3
  LockAttempts = 3
  RmRetries = 2
PROPERTY CallEnds
