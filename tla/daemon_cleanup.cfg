CONSTANTS
  tui = tui
  cli = cli
  app = app
  d1 = d1
  d2 = d2
  d3 = d3
  None = None
  Commands = {tui, cli}
  Desktops = {}
  Daemons = {d1, d2, d3}
  NamedPipe = FALSE
  SlowProbe = FALSE
  MaxEnds = 1
SPECIFICATION Spec
INVARIANT CleanupSparesLive
SYMMETRY Symmetry
CHECK_DEADLOCK FALSE
