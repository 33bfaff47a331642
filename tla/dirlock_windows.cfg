\* Where rename does not replace directories.  Three callers, one of whom may die
\* anywhere, so that two find what a dead one left.
SPECIFICATION Spec
CONSTANTS
  Procs = {p1, p2, p3}
  NoOwner = NoOwner
  RenameOverEmpty = FALSE
  CrashInGate = TRUE
  MaxCrashes = 1
  GateAttempts = 2
  LockAttempts = 2
  RmRetries = 1
INVARIANT MutualExclusion
INVARIANT LockKept
INVARIANT NoOrphanDirectory
INVARIANT NeverStuck
PROPERTY ImplementsMutex
PROPERTY CallAdvances
SYMMETRY Symmetry
