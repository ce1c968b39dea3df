SPECIFICATION Spec
CONSTANTS
  NDevices = 1
  Commands <- OneCommand
  MAX_SANE_CHUNK_SIZE = 3
  WRITE_BUFFER_SIZE = 3
  DiskFaults = TRUE
  FiniteTimeout = TRUE
  MaxPosted = 2
INVARIANT
  NoSilentLoss
CHECK_DEADLOCK FALSE
