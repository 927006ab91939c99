SPECIFICATION FairSpec
CONSTANTS
  Workers = {w1, w2}
  Tasks = {t1, t2, t3}
  NoTask = NoTask
INVARIANTS
  TypeOK
  RunOnce
  NoIdleSleeper
  StopWaitsForTasks
PROPERTIES
  ImplementsTaskQueue
  EveryTaskRuns
  StopReturnsOutsideWindow
\* The pool is at rest once stop() has returned and all tasks were added.
CHECK_DEADLOCK FALSE
