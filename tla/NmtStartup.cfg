SPECIFICATION Spec
CONSTANTS
  SDO_RETRY = 1
  NumNodes = 2
  Configs <- MCConfigs
CHECK_DEADLOCK FALSE
INVARIANTS MandatoryBooted FailedNotStarted
PROPERTIES SilenceNoticed StartupDecides
