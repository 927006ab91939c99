SPECIFICATION Spec
CONSTANTS
  Workers = {w1, w2}
  Tasks = {t1, t2, t3}
  NoTask = NoTask
SYMMETRY Symmetry
PROPERTIES
  ExitOnlyWhenDrained
CHECK_DEADLOCK FALSE
