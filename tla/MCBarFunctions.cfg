SPECIFICATION Spec
CONSTANTS
  Buttons = {1, 2, 3, 4, 5}
  Nothing = Nothing
  Failure = Failure
  Commands <- AllCommands
  Programs = {"C", "sh"}
  Uses <- MCUses
  Faults = {"file", "bus", "others"}
  MaxEvents = 3
  Levels = {30, 50, 95}
  Installed = {"spotify_player", "spotify"}
  MemTotal <- TwoGiB
  Available <- MCAvailable
  Countdowns = {1, 2}
  Devices = {d1, d2}
  Volumes = {5, 65}
  NetStates <- MCNetStates
INVARIANTS
  TypeOK
  FileOnlyWhilePaused
  BacklightSettles
  LoadIsReal
  CancelledIsGone
  PulseSettles
PROPERTIES
  ComesToRest
  ViewShown
CHECK_DEADLOCK FALSE
