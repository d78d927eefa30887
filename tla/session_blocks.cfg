\* Two files of two blocks on a clean line, with the smallest limits that let them through.
SPECIFICATION FairSpec
CONSTANTS
  File <- WithNul
  EscHeaders = {}
  EscBlocks = {}
  PosMod = 16
  Capacity = 400
  MaxZeros = 1
  MaxGarbage = 2
  Deadlines = FALSE
  MaxFaults = 0
  BlockSize = 1
  MaxBlockSize = 4
  MinBuflen = 1
  WindowSize = 0
  Seekable = TRUE
  SAttn = FALSE
  SEscapeCtrl = FALSE
  CanFDX = TRUE
  PeerEscCtl = FALSE
  Cancellable = FALSE
  SourceFaults = FALSE
  InitTries = 10
  MaxZrqinits = 4
  MaxSinitErrors = 1
  MaxFileErrors = 10
  ForceW = 1
  MaxWErrors = 2
  MaxQErrors = 1
  WinTries = 3
  BufferSize = 4
  RAttn = FALSE
  MayDecline = FALSE
  DiskFaults = FALSE
  MaxTries = 15
  MaxZrqinitsSeen = 10
  MaxInfoErrors = 20
  FinTries = 20
  MaxRxErrors = 2
  NumFiles = 2
  Drivers = {"SendFiles", "terminal"}
  MayRetry = FALSE
  OpenFaults = TRUE
  Limits = {0, 2}
PROPERTIES
  AllArrive
