\* Two launches that repeat one operation id, one of them in a terminal of the daemon;
\* runs are recovered while their launchers are still there.  Under fairness.
CONSTANTS
  a = a
  b = b
  c = c
  x = x
  y = y
  main = main
  f = f
  None = None
  Launchers = {a, b}
  Terminals = {a}
  Ops = {x, y}
  OpOf <- SameOp
  Worktrees = {main}
  WorktreeOf <- OneTree
  Finishers = {f}
  CarefulUser = FALSE
  ClockSkew = FALSE
  LedgerLimit = 1
  MaxSession = 1
  MaxSeq = 0
  MaxFaults = 2
  MaxCrashes = 1
  MaxDaemon = 1
  MaxBoots = 1
SPECIFICATION FairSpec
INVARIANT SpawnedOnce
PROPERTY ExitSettles
CHECK_DEADLOCK FALSE
