\* A window, a hasty rz and any frame out of place.
SPECIFICATION FairSpec
CONSTANTS
  File <- Plain3
  EscHeaders = {}
  EscBlocks = {}
  PosMod = 16
  Capacity = 16
  MaxZeros = 2
  MaxGarbage = 6
  Deadlines = FALSE
  MaxFaults = 0
  BlockSize = 2
  MaxBlockSize = 4
  MinBuflen = 1
  WindowSize = 2
  Seekable = TRUE
  SAttn = TRUE
  SEscapeCtrl = FALSE
  CanFDX = TRUE
  PeerEscCtl = FALSE
  Cancellable = TRUE
  SourceFaults = TRUE
  InitTries = 3
  MaxZrqinits = 1
  MaxSinitErrors = 1
  MaxFileErrors = 2
  ForceW = 0
  MaxWErrors = 1
  MaxQErrors = 1
  WinTries = 3
  RzTimeouts = 1
  RzHasty = TRUE
  MayAskCRC = TRUE
  StrayTypes <- FrameTypes
  MaxStrays = 1
INVARIANTS
  TypeOK
  FramesLabelled
  RzWritesPrefix
PROPERTIES
  Terminates
