SPECIFICATION Spec
CONSTANTS
  DeviceCounts = {1}
  Commands <- MCCommands
  MAX_SANE_CHUNK_SIZE = 2
  FailAfter = {}
  ComAtStart = {0}
  MaxCommands = 3
INVARIANT
  ComOutlivesSet
CHECK_DEADLOCK FALSE
