SPECIFICATION FairSpec
CONSTANTS
  Workers = {w1, w2}
  IOThreads = {t1}
  Loops = {l1}
  Main = main
  Nobody = nobody
  Targets = {w1, t1}
  MaxQueued = 1
INVARIANTS
  TypeOK
  DeletedAlone
  JoinedBeforeFreed
  OneSignalIsClean
  LoopsOutliveWorkers
PROPERTIES
  StopCompletes
CHECK_DEADLOCK FALSE
