SPECIFICATION Spec
CONSTANTS
  CIDLENS <- MCLens
  Targets = 2
  OldLen = 8
  Failures = {"start", "path", "overload", "analysis"}
  MaxExecs = 3
  MaxInterrupts = 1
INVARIANTS OwnLength EndpointStored
PROPERTY NoRework
CHECK_DEADLOCK FALSE
