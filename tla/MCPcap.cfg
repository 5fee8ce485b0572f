SPECIFICATION PcapSpec
CONSTANTS
  Packets <- MCPackets
  CRC16 <- MCCRC16
  CRC32 <- MCCRC32
  NKeys = 4
  NBuckets = 16
  NCtrs = 8
  CntMod = 8
  MaxPackets = 5
  MaxScripts = 0
  Jobs = {1, 2, 3}
  Coalesced <- MCCoalesced
  Tracked <- MCTracked
  MonSlots = 4
INVARIANTS ParityWithSwitch ParityUpToLearning ShardedIsSerial GroundTruthExact CrossCheckQuiet
CHECK_DEADLOCK FALSE
