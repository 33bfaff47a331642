\* A launch in a terminal of the daemon and one in the user's terminal, over two tasks.
CONSTANTS
  a = a
  b = b
  c = c
  x = x
  y = y
  main = main
  f = f
  None = None
  Launchers = {a, b}
  Terminals = {a}
  Ops = {x, y}
  OpOf <- PairOps
  Worktrees = {main}
  WorktreeOf <- OneTree
  Finishers = {f}
  CarefulUser = TRUE
  ClockSkew = FALSE
  LedgerLimit = 2
  MaxSession = 2
  MaxSeq = 1
  MaxFaults = 0
  MaxCrashes = 1
  MaxDaemon = 2
  MaxBoots = 2
SPECIFICATION Spec
INVARIANT OneWriter
INVARIANT WriterHoldsLease
INVARIANT LeasesMatchHistory
PROPERTY EndsOnce
PROPERTY NoRevival
CHECK_DEADLOCK FALSE
