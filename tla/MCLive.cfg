SPECIFICATION FairSpec
CONSTANTS
  Options = {"d"}
  BLOCK_COUNT = 2
  interval <- MCInterval
  signal <- MCSignal
  Pids = {p1, p2}
  NoPid = NoPid
  MaxVersion = 1
  Faults <- NoFaults
  UIntMax = 65535
  EnvSignals <- RefreshAndBlock
  SigQueueLimit = 1
  Unset = Unset
PROPERTIES
  TimedBlockCatchesUp
  IdleRequestHonoured
VIEW AllButHistory
