SPECIFICATION Spec
CONSTANTS
  Flows = {0, 1}
  flowSize <- MCFlowSize
  Chunk = 2
  MaxBytes = 2
INVARIANTS ReplyExact NeverUnderreported TotalsAgree
PROPERTIES AllCollected NoLeak
CHECK_DEADLOCK FALSE
