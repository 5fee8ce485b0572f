SPECIFICATION ByteSpec
CONSTANTS
  Flows = {0, 1}
  Ids <- MCIds
  Fields <- MCFields
  CRC32 <- MCCRC32
  NBuckets = 4
  MaxCids = 2
  Slots = 2
  DefaultSlots = 1
  Quantum = 2
  Payload = 3
  Header = 1
  flowSize <- MCflowSize
  TopK = 1
  Shipped <- MCShipped
  MaxOther = 1
  MaxExecs = 2
INVARIANTS OnePrintedBucket NoUndercount RankingAgrees
CHECK_DEADLOCK FALSE
