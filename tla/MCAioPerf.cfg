SPECIFICATION AioSpec
CONSTANTS
  Flows = {f1, f2}
  data_size = 3
  CHUNK = 2
  StatsBytes = 1
  MaxBytes = 2
INVARIANT NeverOverreported
PROPERTY ClientEnds
CHECK_DEADLOCK FALSE
