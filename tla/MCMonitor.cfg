SPECIFICATION MonSpec
CONSTANTS
  Packets <- LowPackets
  CRC16 <- MCCRC16
  CRC32 <- MCCRC32
  NKeys = 2
  NBuckets = 8
  NCtrs = 4
  CntMod = 8
  MaxPackets = 3
  MaxScripts = 2
  MonCtrs = 4
  IdlePolls = 2
  MaxPolls = 2
INVARIANTS Attribution AllIdentified
PROPERTIES EventuallyAttributed PollEnds
CHECK_DEADLOCK FALSE
