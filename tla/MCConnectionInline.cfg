SPECIFICATION Spec
CONSTANTS
  Messages = 4
  Units = 1
  Workers = {}
  SendSpace = 2
INVARIANTS
  NoLostOutput
  ModFindsChannel
PROPERTIES
  ImplementsEchoService
\* The client may stop sending at any time.
CHECK_DEADLOCK FALSE
