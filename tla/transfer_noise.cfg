\* The default attention string, one damaged frame, deadlines that run out at any time.
SPECIFICATION FairSpec
CONSTANTS
  File <- Plain3
  EscHeaders <- DataAt2
  EscBlocks = {}
  PosMod = 8
  Capacity = 14
  MaxZeros = 2
  MaxGarbage = 6
  Deadlines = TRUE
  MaxFaults = 1
  BlockSize = 2
  MaxBlockSize = 4
  MinBuflen = 1
  WindowSize = 0
  Seekable = TRUE
  SAttn = TRUE
  SEscapeCtrl = FALSE
  CanFDX = TRUE
  PeerEscCtl = FALSE
  Cancellable = FALSE
  SourceFaults = TRUE
  InitTries = 3
  MaxZrqinits = 1
  MaxSinitErrors = 1
  MaxFileErrors = 1
  ForceW = 1
  MaxWErrors = 2
  MaxQErrors = 1
  WinTries = 3
  BufferSize = 4
  RAttn = TRUE
  MayDecline = FALSE
  DiskFaults = FALSE
  MaxTries = 3
  MaxZrqinitsSeen = 3
  MaxInfoErrors = 2
  FinTries = 2
  MaxRxErrors = 1
INVARIANTS
  TypeOK
  WrittenIsPrefix
  ReceivedIsComplete
  SentIsDelivered
  FramesLabelled
  RequestsAscend
  Inductive
PROPERTIES
  CopySpec
  Terminates
