SPECIFICATION Spec
CONSTANTS
  Drivers = {"wext"}
  Levels = {110, 100, 91, 90, 89, 80, 75, 70, 60, 59, 50, 40}
  Networks = {"home", "other"}
  Told = {TRUE}
INVARIANTS
  IdenticalOutput
