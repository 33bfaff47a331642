\* Does a late observation reopen a finalized run?
CONSTANTS
  a = a
  b = b
  c = c
  x = x
  y = y
  main = main
  f = f
  None = None
  Launchers = {a, b}
  Terminals = {a}
  Ops = {x, y}
  OpOf <- PairOps
  Worktrees = {main}
  WorktreeOf <- OneTree
  Finishers = {}
  CarefulUser = TRUE
  ClockSkew = FALSE
  LedgerLimit = 2
  MaxSession = 1
  MaxSeq = 1
  MaxFaults = 1
  MaxCrashes = 1
  MaxDaemon = 2
  MaxBoots = 1
SPECIFICATION Spec
INVARIANT FinalizedStaysClosed
CHECK_DEADLOCK FALSE
