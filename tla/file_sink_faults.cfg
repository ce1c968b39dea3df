SPECIFICATION Spec
CONSTANTS
  WRITE_BUFFER_SIZE = 3
  Sizes = {1, 2, 3, 4}
  MaxBytes = 11
  DiskFaults = TRUE
INVARIANTS
  TypeOK
  BufferFits
  InOrder
  Conserved
PROPERTY
  ImplementsDurableLog
CHECK_DEADLOCK FALSE
