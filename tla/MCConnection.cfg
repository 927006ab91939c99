SPECIFICATION FairSpec
CONSTANTS
  Messages = 3
  Units = 1
  Workers = {w1, w2}
  SendSpace = 1
INVARIANTS
  TypeOK
  NoLostInput
  NoLostOutput
  NoRequestLost
PROPERTIES
  ImplementsEchoService
  RepliesKeepOrder
  RequestAnswered
  CloseNoticed
\* The client may stop sending at any time.
CHECK_DEADLOCK FALSE
