SPECIFICATION FairSpec
CONSTANTS
  Buttons = {1, 2, 3}
  Nothing = Nothing
  Failure = Failure
  Count = 2
  HasBattery = {2}
  Charges = {40, 52, 55, 80}
  Faults = {"stop", "watcher", "bus"}
  MaxEvents = 3
INVARIANTS
  TypeOK
  WarnedOnce
  ActivatesInRaceOnly
PROPERTIES
  ViewShown
  LowWarned
  ChargeRearms
