SPECIFICATION Spec
CONSTANTS
  Name = {"world", "a", "b"}
  World = "world"
  Failing = {"move", "car", "open"}
  MaxEdits = 2
  MaxEmpires = 3
  MaxCrashes = 2
  MaxFaults = 2
INVARIANT EmpiresKept
CHECK_DEADLOCK FALSE
