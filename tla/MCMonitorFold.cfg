SPECIFICATION MonSpec
CONSTANTS
  Packets <- AllPackets
  CRC16 <- MCCRC16
  CRC32 <- MCCRC32
  NKeys = 4
  NBuckets = 16
  NCtrs = 8
  CntMod = 8
  MaxPackets = 3
  MaxScripts = 2
  MonCtrs = 4
  IdlePolls = 2
  MaxPolls = 2
INVARIANT AllIdentified
CHECK_DEADLOCK FALSE
