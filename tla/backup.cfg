SPECIFICATION Spec
CONSTANTS
  NDevices = 1
  Commands <- AnyCommands
  MAX_SANE_CHUNK_SIZE = 3
  WRITE_BUFFER_SIZE = 3
  DiskFaults = FALSE
  FiniteTimeout = TRUE
  MaxPosted = 4
INVARIANTS
  TypeOK
  CleanEndIsDurable
  CleanEndIsDrained
  ExitReleasesAll
  ExitCodeTells
PROPERTY
  DevicesBeforeSet
CHECK_DEADLOCK FALSE
