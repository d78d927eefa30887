\* sz streams with any frame end; blocks larger than the buffer, any other frame out of place.
SPECIFICATION FairSpec
CONSTANTS
  File <- Plain2
  EscHeaders = {}
  EscBlocks <- CrcAt1
  PosMod = 16
  Capacity = 12
  MaxZeros = 2
  MaxGarbage = 6
  Deadlines = FALSE
  MaxFaults = 1
  BufferSize = 1
  RAttn = TRUE
  MayDecline = TRUE
  DiskFaults = TRUE
  MaxTries = 3
  MaxZrqinitsSeen = 2
  MaxInfoErrors = 1
  FinTries = 2
  MaxRxErrors = 1
  MaxBlock = 2
  SzTries = 2
  SzEnds = {"ZCRCQ"}
  StrayTypes <- Asides
  MaxStrays = 1
INVARIANTS
  TypeOK
  WrittenIsPrefix
  ReceivedIsComplete
PROPERTIES
  Terminates
