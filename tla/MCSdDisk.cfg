SPECIFICATION FairSpec
CONSTANTS
  QueueSize = 10
  MaxLate = 2
  MaxErrors = 2
  MaxCmdErrors = 2
INVARIANTS
  BufferIsFree
  MessageIsOwn
  CompleteIsOk
  CleanOk
PROPERTIES
  CallsEnd
\* a call may poll a card that nobody stops for ever
CHECK_DEADLOCK FALSE
