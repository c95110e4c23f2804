SPECIFICATION Spec
CONSTANTS
  NULL = NULL
  Byte <- MCByte
  Names <- MCNames
  Texts <- MCTexts
  Paths <- MCPaths
  BufSizes = {5, 10, 11, 15}
  NameSize = 2
  HeaderSize = 2
  TextLimit = 7
  MaxBuf = 12
INVARIANTS
  TextsReadBack
  TextsThatFitAreWhole
  SizeWithinBuffer
  KeepsTwoDirectories
