SPECIFICATION Spec
CONSTANTS
  CIDLENS <- MCLens
  Targets = 2
  OldLen = 8
  Failures = {"pkill"}
  MaxExecs = 1
  MaxInterrupts = 0
INVARIANT OwnLength
CHECK_DEADLOCK FALSE
