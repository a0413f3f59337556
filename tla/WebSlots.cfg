SPECIFICATION Spec
CONSTANTS
  Name = {"EMPIRE 1", "north", "south"}
  First = "EMPIRE 1"
  Failing = {}
  Upgrades = {}
  MaxEdits = 1
  MaxEmpires = 2
  MaxCrashes = 0
  MaxFaults = 0
  MaxFlushes = 1
INVARIANT PlansKept
CHECK_DEADLOCK FALSE
