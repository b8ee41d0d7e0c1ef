SPECIFICATION Spec
CONSTANTS
  SDO_RETRY = 1
  NumNodes = 2
  Configs <- MCKeepAlive
CHECK_DEADLOCK FALSE
INVARIANT BootTimerHandled
