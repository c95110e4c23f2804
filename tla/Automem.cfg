SPECIFICATION Spec
CONSTANTS
  x = x
  y = y
  Junk = Junk
  Byte <- MCByte
  Bytes <- MCBytes
  EraseSizes = {0, 1, 3, 15}
  Limits = {0, 1, 4}
  InitSizes = {0, 1, 3}
  DefaultSize = 4
  Words = 16
  MaxContent = 8
  AttachesWhatFits = TRUE
INVARIANTS
  ContentIsInBlock
  NeverOverruns
PROPERTY ImplementsByteQueue
