SPECIFICATION Spec
CONSTANTS
  Buttons = {1, 2, 3, 4, 5}
  Nothing = Nothing
  Failure = Failure
  Commands <- JustDnd
  Programs = {"C"}
  Uses <- MCUses
  Faults = {}
  MaxEvents = 1
  Levels = {30, 50, 95}
  Installed = {"spotify_player", "spotify"}
  MemTotal <- TwoGiB
  Available <- MCAvailable
  Countdowns = {1, 2}
  Devices = {d1, d2}
  Volumes = {5, 65}
  NetStates <- MCNetStates
PROPERTIES
  StatusShown
CHECK_DEADLOCK FALSE
