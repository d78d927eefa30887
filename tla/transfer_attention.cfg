\* A clean line with the default attention string.
SPECIFICATION FairSpec
CONSTANTS
  File <- WithNul
  EscHeaders = {}
  EscBlocks = {}
  PosMod = 8
  Capacity = 40
  MaxZeros = 2
  MaxGarbage = 8
  Deadlines = FALSE
  MaxFaults = 0
  BlockSize = 2
  MaxBlockSize = 4
  MinBuflen = 1
  WindowSize = 0
  Seekable = TRUE
  SAttn = TRUE
  SEscapeCtrl = FALSE
  CanFDX = TRUE
  PeerEscCtl = FALSE
  Cancellable = FALSE
  SourceFaults = FALSE
  InitTries = 10
  MaxZrqinits = 4
  MaxSinitErrors = 19
  MaxFileErrors = 10
  ForceW = 3
  MaxWErrors = 10
  MaxQErrors = 5
  WinTries = 3
  BufferSize = 4
  RAttn = TRUE
  MayDecline = FALSE
  DiskFaults = FALSE
  MaxTries = 15
  MaxZrqinitsSeen = 10
  MaxInfoErrors = 20
  FinTries = 20
  MaxRxErrors = 20
PROPERTIES
  FailureIsLoss
