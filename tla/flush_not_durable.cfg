SPECIFICATION Spec
CONSTANTS
  NDevices = 1
  Commands <- TwoCommands
  MAX_SANE_CHUNK_SIZE = 3
  WRITE_BUFFER_SIZE = 3
  DiskFaults = FALSE
  FiniteTimeout = TRUE
  MaxPosted = 2
PROPERTY
  FlushIsDurable
CHECK_DEADLOCK FALSE
