SPECIFICATION Spec
CONSTANTS
  Commands <- MCCommands
  PoolSize = 2
  UINT64_MAX = 9
  MaxCommands = 4
INVARIANTS
  TypeOK
  ScriptReleasesAll
  ComOutlivesInterfaces
  ComBalanced
  ReportOfChunks
  PoolConserved
CHECK_DEADLOCK FALSE
