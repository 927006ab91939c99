SPECIFICATION Spec
CONSTANTS
  Messages = 2
  Units = 1
  Workers = {w1, w2}
  SendSpace = 1
SYMMETRY Symmetry
INVARIANTS
  CallbacksInstalled
\* The client may stop sending at any time.
CHECK_DEADLOCK FALSE
