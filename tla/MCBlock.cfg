SPECIFICATION BlockSpec
CONSTANTS
  BLOCK_COUNT = 2
  interval <- MCInterval
  signal <- MCSignal
  Pids = {p1, p2, p3}
  NoPid = NoPid
  MaxVersion = 2
  Faults <- AllFaults
SYMMETRY PidSymmetry
INVARIANTS
  TypeOK
  OneChildPerBlock
  WaitsForOwnExit
  OneLinePerRun
  StatusMatchesText
PROPERTIES
  AsyncBlockSpec
  OutputNeverGoesBack
CHECK_DEADLOCK FALSE
