SPECIFICATION PathSpec
CONSTANTS
  Packets <- MCPackets
  CRC16 <- MCCRC16
  CRC32 <- MCCRC32
  NKeys = 4
  NBuckets = 16
  NCtrs = 8
  CntMod = 8
  MaxPackets = 4
  MaxScripts = 2
INVARIANT PathInv
PROPERTY CountsPerCid
CHECK_DEADLOCK FALSE
