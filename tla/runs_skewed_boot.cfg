\* A reconciliation that takes a live lease for one of an earlier boot.
CONSTANTS
  a = a
  b = b
  c = c
  x = x
  y = y
  main = main
  f = f
  None = None
  Launchers = {a, b}
  Terminals = {a}
  Ops = {x, y}
  OpOf <- PairOps
  Worktrees = {main}
  WorktreeOf <- OneTree
  Finishers = {}
  CarefulUser = TRUE
  ClockSkew = TRUE
  LedgerLimit = 2
  MaxSession = 1
  MaxSeq = 1
  MaxFaults = 1
  MaxCrashes = 1
  MaxDaemon = 2
  MaxBoots = 1
SPECIFICATION Spec
INVARIANT OneWriter
CHECK_DEADLOCK FALSE
