\* Two clients, two terminals of which one reports its lifecycle.
CONSTANTS
  t1 = t1
  t2 = t2
  t3 = t3
  main = main
  other = other
  c1 = c1
  c2 = c2
  Nobody = Nobody
  Ids = {t1, t2}
  Trees = {main, other}
  TreeOf <- OneEach
  Structured = {t2}
  Clients = {c1, c2}
  MaxTerminals = 1
SPECIFICATION FairSpec
INVARIANT WithinCapacity
INVARIANT ControlAgrees
INVARIANT NothingLeftRunning
PROPERTY NoWayBack
PROPERTY StopEnds
CHECK_DEADLOCK FALSE
