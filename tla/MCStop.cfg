SPECIFICATION FairSpec
CONSTANTS
  Options = {}
  BLOCK_COUNT = 1
  interval <- MCTimed
  signal <- MCSignal
  Pids = {p1}
  NoPid = NoPid
  MaxVersion = 1
  Faults <- CommandFaults
  UIntMax = 65535
  EnvSignals <- Terminations
  SigQueueLimit = 1
  Unset = Unset
PROPERTIES
  TerminationHonoured
  NoRunStuck
