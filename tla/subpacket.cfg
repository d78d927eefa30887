\* CR, ZDLE, '@' and the letter of ZCRCW as data.
SPECIFICATION Spec
CONSTANTS
  DataBytes = {13, 24, 64, 107}
  CrcBytes = {13, 64}
  Ends = {107}
  MaxLen = 3
  BufLen = 2
  MaxFlow = 1
  MayCancel = TRUE
INVARIANTS
  TypeOK
  ReadsPrefix
  StopsAtEscape
  NoBareCR
PROPERTIES
  PlainIsRead
