SPECIFICATION SessionSpec
CONSTANTS
  c1 = c1
  c2 = c2
  d1 = d1
  Conn <- MCConn
  Data <- MCData
  None = None
  ConnTimeout = 1
  HeartbeatOn = TRUE
  MaxRefs = 0
  ConnBacklog = 1
INVARIANTS
  SessionTypeOK
  RepliesEndWithConnection
PROPERTIES
  ClientComesBack
  GhostsGoAway
