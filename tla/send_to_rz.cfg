\* Streaming to a patient rz on a noisy line, up to three damaged frames.
SPECIFICATION FairSpec
CONSTANTS
  File <- Plain3
  EscHeaders = {}
  EscBlocks = {}
  PosMod = 16
  Capacity = 16
  MaxZeros = 2
  MaxGarbage = 6
  Deadlines = FALSE
  MaxFaults = 3
  BlockSize = 2
  MaxBlockSize = 4
  MinBuflen = 1
  WindowSize = 0
  Seekable = TRUE
  SAttn = TRUE
  SEscapeCtrl = FALSE
  CanFDX = TRUE
  PeerEscCtl = FALSE
  Cancellable = FALSE
  SourceFaults = FALSE
  InitTries = 3
  MaxZrqinits = 1
  MaxSinitErrors = 1
  MaxFileErrors = 2
  ForceW = 1
  MaxWErrors = 2
  MaxQErrors = 1
  WinTries = 3
  RzTimeouts = 2
  RzHasty = FALSE
  MayAskCRC = FALSE
  StrayTypes = {}
  MaxStrays = 0
INVARIANTS
  SuccessIsDelivery
PROPERTIES
  Terminates
  DeliversToRz
