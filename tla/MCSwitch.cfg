SPECIFICATION ResetSpec
CONSTANTS
  Packets <- MCPackets
  CRC16 <- MCCRC16
  CRC32 <- MCCRC32
  NKeys = 2
  NBuckets = 8
  NCtrs = 4
  CntMod = 3
  MaxPackets = 3
  MaxScripts = 2
INVARIANTS TypeOK LearnedFromHandshake AwareBuckets CountersAgree Transparent
PROPERTY SetupCompletes
CHECK_DEADLOCK FALSE
