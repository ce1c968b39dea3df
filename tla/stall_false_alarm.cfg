SPECIFICATION Spec
CONSTANTS
  STALL_WARN = 4
  CommandTimeout = 2
  SinkDelays = {0, 1, 4}
  StartTimes = {1}
  EarlierBytes = {0}
  MaxTime = 16
  MaxBytes = 6
PROPERTY
  WarningMeansStall
CHECK_DEADLOCK FALSE
