SPECIFICATION Spec
CONSTANTS
  UINT64 = 16
  FREQ = 4
  MICRO = 3
  PRECISION = 8192
  Commands <- MCCommands
  Delays = {0, 2}
  TimerModes = {"Chrono", "QPC"}
  StartTicks = {4}
  BUFFER_POOL_SIZE = 2
  ReusedSizes = {1}
  MaxTicks = 6
  MaxCommands = 3
INVARIANTS
  TypeOK
  TimingsFit
  TakenIsCounted
  PoolNeverDry
  PercentilesAreNearestRank
  ReportsAgree
PROPERTY
  ClockMonotone
CHECK_DEADLOCK FALSE
