SPECIFICATION Spec
CONSTANTS
  Conns = {c1, c2}
  NoConn = NoConn
  Timer = Timer
  Wakeup = Wakeup
  MaxFd = 1
  MaxTasks = 1
SYMMETRY Symmetry
PROPERTIES
  RemovesTimedOut
\* The server is at rest when every connection has come and gone.
CHECK_DEADLOCK FALSE
