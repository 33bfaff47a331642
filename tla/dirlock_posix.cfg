SPECIFICATION Spec
CONSTANTS
  Procs = {p1, p2}
  NoOwner = NoOwner
  RenameOverEmpty = TRUE
  CrashInGate = FALSE
  MaxCrashes = 0
  GateAttempts = 2
  LockAttempts = 2
  RmRetries = 1
INVARIANT GateSerializes
SYMMETRY Symmetry
