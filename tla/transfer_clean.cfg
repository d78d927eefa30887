\* Two sessions on a clean line without an attention string; the smallest limits that let the file through.
SPECIFICATION FairSpec
CONSTANTS
  File <- Boundary
  EscHeaders = {}
  EscBlocks = {}
  PosMod = 16
  Capacity = 100
  MaxZeros = 2
  MaxGarbage = 3
  Deadlines = FALSE
  MaxFaults = 0
  BlockSize = 2
  MaxBlockSize = 4
  MinBuflen = 1
  WindowSize = 0
  Seekable = TRUE
  SAttn = FALSE
  SEscapeCtrl = FALSE
  CanFDX = TRUE
  PeerEscCtl = FALSE
  Cancellable = FALSE
  SourceFaults = FALSE
  InitTries = 10
  MaxZrqinits = 4
  MaxSinitErrors = 19
  MaxFileErrors = 10
  ForceW = 3
  MaxWErrors = 10
  MaxQErrors = 5
  WinTries = 3
  BufferSize = 4
  RAttn = FALSE
  MayDecline = FALSE
  DiskFaults = FALSE
  MaxTries = 15
  MaxZrqinitsSeen = 10
  MaxInfoErrors = 20
  FinTries = 20
  MaxRxErrors = 2
PROPERTIES
  Terminates
  Delivers
  FailureIsLoss
