\* Two files from either loop, one damaged frame, declined and unreadable files, a retry.
SPECIFICATION FairSpec
CONSTANTS
  File <- Plain2
  EscHeaders = {}
  EscBlocks = {}
  PosMod = 8
  Capacity = 60
  MaxZeros = 1
  MaxGarbage = 60
  Deadlines = FALSE
  MaxFaults = 1
  BlockSize = 2
  MaxBlockSize = 4
  MinBuflen = 1
  WindowSize = 0
  Seekable = TRUE
  SAttn = FALSE
  SEscapeCtrl = FALSE
  CanFDX = TRUE
  PeerEscCtl = FALSE
  Cancellable = FALSE
  SourceFaults = FALSE
  InitTries = 3
  MaxZrqinits = 1
  MaxSinitErrors = 1
  MaxFileErrors = 2
  ForceW = 1
  MaxWErrors = 2
  MaxQErrors = 1
  WinTries = 3
  BufferSize = 4
  RAttn = TRUE
  MayDecline = TRUE
  DiskFaults = FALSE
  MaxTries = 15
  MaxZrqinitsSeen = 3
  MaxInfoErrors = 2
  FinTries = 2
  MaxRxErrors = 2
  NumFiles = 2
  Drivers = {"SendFiles", "terminal"}
  MayRetry = TRUE
  OpenFaults = TRUE
  Limits = {0, 2}
INVARIANTS
  TypeOK
  SentAreDelivered
  NeverStalls
PROPERTIES
  OwnFrames
  Terminates
