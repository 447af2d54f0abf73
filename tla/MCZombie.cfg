SPECIFICATION FairSpec
CONSTANTS
  Options = {}
  BLOCK_COUNT = 1
  interval <- MCInterval
  signal <- MCSignal
  Pids = {p1}
  NoPid = NoPid
  MaxVersion = 1
  Faults <- Kill
  UIntMax = 65535
  EnvSignals <- OneBlock
  SigQueueLimit = 1
  Unset = Unset
PROPERTIES
  ZombiesCollected
