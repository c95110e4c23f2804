SPECIFICATION FairSpec
CONSTANTS
  c1 = c1
  c2 = c2
  c3 = c3
  Conn <- MCConn3
  ConnTimeout = 1
  HeartbeatOn = TRUE
  MaxRefs = 1
INVARIANTS
  TypeOK
  RefcountExact
  TableMatchesHandles
  SilenceOrder
  NoDoubleClose
PROPERTIES
  HeartbeatClosesExactlyTheSilent
  SilentConnectionsGoAway
\* after a fault the model stops
CHECK_DEADLOCK FALSE
