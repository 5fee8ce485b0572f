SPECIFICATION TopoSpec
CONSTANTS
  LVALUES <- MCLs
  MAXCONC = 5
  NS = 3
  Failures = {"dump"}
  MaxExecs = 2
  MaxBusy = 2
  HostCounts = {2, 3}
  CleanRange = 3
  MaxTopo = 3
INVARIANTS FreshRows FreshFigure Repeatable WavesExact
CHECK_DEADLOCK FALSE
