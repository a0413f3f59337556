SPECIFICATION Spec
CONSTANTS
  Name = {"EMPIRE 1", "north"}
  First = "EMPIRE 1"
  Failing = {"snapshot", "docs", "load"}
  Upgrades = {"plan", "docs"}
  MaxEdits = 2
  MaxEmpires = 2
  MaxCrashes = 1
  MaxFaults = 1
  MaxFlushes = 1
INVARIANTS
  EmpiresKept
PROPERTIES
  ViewSettles
  AlwaysOpens
CHECK_DEADLOCK FALSE
