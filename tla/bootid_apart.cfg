CONSTANTS
  launcher = launcher
  reconcile = reconcile
  Processes = {launcher, reconcile}
  None = None
  Minute = 4
  MaxDelay = 1
  MaxClock = 14
SPECIFICATION Spec
INVARIANT BootsToldApart
SYMMETRY Symmetry
CHECK_DEADLOCK FALSE
