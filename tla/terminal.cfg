\* Two goroutines read the output of a remote shell, in pieces of any size up to seven bytes.
SPECIFICATION FairSpec
CONSTANTS
  r1 = r1
  r2 = r2
  Readers <- MCReaders
  Streams <- MCStreams
  MaxScan = 7
  MaxRead = 7
  Sizes = {1, 4, 7}
  SessBuf = 4
INVARIANTS
  TypeOK
  OneTransfer
  TransfersFollowStream
  Recognised
  SenderOnZRINIT
PROPERTIES
  Resumes
