SPECIFICATION ViewSpec
CONSTANTS
  Packets <- MCPackets
  CRC16 <- MCCRC16
  CRC32 <- MCCRC32
  NKeys = 2
  NBuckets = 4
  NCtrs = 2
  CntMod = 8
  MaxPackets = 3
  MaxScripts = 2
  MinCount = 2
  IdlePolls = 1
  MaxPolls = 2
INVARIANTS DumpBrackets PollAddsUp DisplayLines
PROPERTY MovedIsVisible
CHECK_DEADLOCK FALSE
