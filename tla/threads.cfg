\* The operator, a run in a terminal of the daemon and one in the user's.
CONSTANTS
  r1 = r1
  r2 = r2
  op = op
  o1 = o1
  none = none
  f = f
  Runs = {r1, r2}
  Terminals = {r1}
  Operator = op
  NoOp = none
  Ops = {o1}
  Finishers = {f}
  MessageLimit = 3
  ThreadLimit = 1
  MaxSession = 2
  MaxCommands = 1
  MaxCrashes = 1
SPECIFICATION Spec
INVARIANT SentOnce
INVARIANT Readable
INVARIANT QueuedIsCared
INVARIANT ClosedTaskIsQuiet
PROPERTY ForwardOnly
CHECK_DEADLOCK FALSE
