SPECIFICATION FairSpec
CONSTANTS
  server = server
  worker1 = worker1
  worker2 = worker2
  r1 = r1
  r2 = r2
  r3 = r3
  Thread <- MCThread
  Ref <- MCRef
  Nobody = Nobody
INVARIANTS
  TypeOK
  CountIsReferencesHeld
  FreedAlone
PROPERTY LastDropFrees
\* once freed, the connection is used no more
CHECK_DEADLOCK FALSE
