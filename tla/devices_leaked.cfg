SPECIFICATION Spec
CONSTANTS
  DeviceCounts = {2}
  Commands <- MCCommands
  MAX_SANE_CHUNK_SIZE = 2
  FailAfter = {}
  ComAtStart = {0}
  MaxCommands = 3
INVARIANT
  DevicesReleased
CHECK_DEADLOCK FALSE
