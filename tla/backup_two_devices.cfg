SPECIFICATION FairSpec
CONSTANTS
  NDevices = 2
  Commands <- BackupCommands
  MAX_SANE_CHUNK_SIZE = 3
  WRITE_BUFFER_SIZE = 3
  DiskFaults = TRUE
  FiniteTimeout = TRUE
  MaxPosted = 2
INVARIANT
  AckedIsStored
PROPERTIES
  FlushedBeforeRelease
  BackupEndReturns
  PostedIsServed
  OpenReturns
CHECK_DEADLOCK FALSE
