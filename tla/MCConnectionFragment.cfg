SPECIFICATION Spec
CONSTANTS
  Messages = 2
  Units = 2
  Workers = {w1}
  SendSpace = 1
PROPERTIES
  PickConsumes
\* The client may stop sending at any time.
CHECK_DEADLOCK FALSE
