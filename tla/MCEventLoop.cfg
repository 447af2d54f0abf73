SPECIFICATION Spec
CONSTANTS
  Options = {}
  BLOCK_COUNT = 2
  interval <- MCInterval
  signal <- MCSignal
  Pids = {p1, p2}
  NoPid = NoPid
  MaxVersion = 1
  Faults <- OuterFaults
  UIntMax = 65535
  EnvSignals <- RefreshAndBlock
  SigQueueLimit = 1
  Unset = Unset
SYMMETRY PidSymmetry
VIEW AllButHistory
INVARIANTS
  LoopTypeOK
  NeverReadsEmptyPipe
  TimerNeverLost
  BarUpToDate
PROPERTIES
  SlotImplemented
  BlocksUsedProperly
  BarNeverGoesBack
