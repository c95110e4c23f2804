SPECIFICATION Spec
CONSTANTS
  r1 = r1
  r2 = r2
  NULL = NULL
  Logger = logger
  Collector = collector
  Node = {logger, collector}
  Bound = {collector}
  Body <- MCBody
  Empty <- MCEmpty
  Req <- MCReq
  LogCalls <- MCLogCalls
  Byte <- MCByte
  Names <- MCNames
  Texts <- MCTexts
  Paths <- MCPaths
  BufSizes = {13}
  NameSize = 2
  HeaderSize = 2
  TextLimit = 9
  MaxBuf = 13
  SocketsRunOut = TRUE
  AppWaits = TRUE
INVARIANTS
  TypeOK
  NoFault
  OnlyGivenDataTravels
  CollectorReadsItems
PROPERTY RequestsEnd
