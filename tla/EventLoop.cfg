SPECIFICATION FairSpec
CONSTANTS
  Wakeup = Wakeup
  Timer = Timer
  Conns = {c1}
  Tasks = {t1, t2}
  MaxEvents = 2
  Timeout = TRUE
INVARIANTS
  TypeOK
  NoLostWakeup
  StopInterruptsWait
PROPERTIES
  ImplementsTaskQueue
  PostedRuns
  StopEndsLoop
  TimerKeepsFiring
  WakeupsSubside
\* The loop is at rest once it was stopped and every task was posted.
CHECK_DEADLOCK FALSE
