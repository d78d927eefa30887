\* An rz that asks for the CRC of the file.
SPECIFICATION FairSpec
CONSTANTS
  File <- Plain3
  EscHeaders = {}
  EscBlocks = {}
  PosMod = 16
  Capacity = 16
  MaxZeros = 2
  MaxGarbage = 6
  Deadlines = FALSE
  MaxFaults = 0
  BlockSize = 2
  MaxBlockSize = 4
  MinBuflen = 1
  WindowSize = 0
  Seekable = TRUE
  SAttn = TRUE
  SEscapeCtrl = FALSE
  CanFDX = TRUE
  PeerEscCtl = FALSE
  Cancellable = FALSE
  SourceFaults = FALSE
  InitTries = 3
  MaxZrqinits = 1
  MaxSinitErrors = 1
  MaxFileErrors = 2
  ForceW = 1
  MaxWErrors = 2
  MaxQErrors = 1
  WinTries = 3
  RzTimeouts = 1
  RzHasty = FALSE
  MayAskCRC = TRUE
  StrayTypes = {}
  MaxStrays = 0
INVARIANTS
  SuccessIsDelivery
