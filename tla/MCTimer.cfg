SPECIFICATION Spec
CONSTANTS
  BLOCK_COUNT = 17
  interval <- ConfigInterval
  signal <- MCSignal
  UIntMax = 65535
  MaxElapsed = 30000
INVARIANTS
  TypeOK
  ScheduleExact
PROPERTIES
  NoneSkipped
