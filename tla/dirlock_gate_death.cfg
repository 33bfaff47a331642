\* Where rename does not replace directories: one of three callers dies under the gate,
\* and the other two reclaim it.
SPECIFICATION Spec
CONSTANTS
  Procs = {p1, p2, p3}
  NoOwner = NoOwner
  RenameOverEmpty = FALSE
  CrashInGate = TRUE
  MaxCrashes = 1
  GateAttempts = 2
  LockAttempts = 2
  RmRetries = 1
INVARIANT GateRespected
SYMMETRY Symmetry
