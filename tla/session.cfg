SPECIFICATION Spec
CONSTANTS
  DeviceCounts = {0, 1, 2, 3}
  Commands <- MCCommands
  MAX_SANE_CHUNK_SIZE = 2
  FailAfter = {0, 1, 2}
  ComAtStart = {0, 1}
  MaxCommands = 3
INVARIANTS
  TypeOK
  SetClosedOnce
  LoopHoldsObjects
  SingleDeviceReleased
  AnsweredOnce
  MetricsAgree
  InjectedInTime
PROPERTY
  LegalTransitions
CHECK_DEADLOCK FALSE
