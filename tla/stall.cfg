SPECIFICATION Spec
CONSTANTS
  STALL_WARN = 4
  CommandTimeout = 2
  SinkDelays = {0, 1, 5}
  StartTimes = {0, 1}
  EarlierBytes = {0, 2}
  MaxTime = 16
  MaxBytes = 6
INVARIANT
  TypeOK
PROPERTIES
  StallIsWarned
  WarningsSpaced
CHECK_DEADLOCK FALSE
