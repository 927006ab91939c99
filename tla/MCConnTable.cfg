SPECIFICATION FairSpec
CONSTANTS
  Conns = {c1, c2}
  NoConn = NoConn
  Timer = Timer
  Wakeup = Wakeup
  MaxFd = 2
  MaxTasks = 1
INVARIANTS
  TypeOK
  InsertReplacesNothing
  ServerEntriesSweepable
  OnlySweepFrees
PROPERTIES
  ClosedReleased
\* The server is at rest when every connection has come and gone.
CHECK_DEADLOCK FALSE
