SPECIFICATION FairSpec
CONSTANTS
  QueueSize = 10
  MaxLate = 1
  MaxErrors = 1
  MaxCmdErrors = 0
INVARIANTS
  OkIsSuccessful
CHECK_DEADLOCK FALSE
