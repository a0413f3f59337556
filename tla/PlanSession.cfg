SPECIFICATION Spec
CONSTANTS
  f1 = f1
  v1 = v1
  v2 = v2
  Absent = Absent
  Val = {v1, v2}
  Path <- DistinctPaths
  MetaName <- NamePath
  DefaultName = v1
  Pref = {0, 1}
  NoPref = 0
  Built = {v2}
  MaxOps = 2
  MaxEntries = 3
  MaxDamage = 1
CONSTRAINT Explored
INVARIANTS
  DiskMirrorsMemory
  JournalReplays
PROPERTIES
  SuccessIsDurable
  FailureLeavesNoTrace
  DurableHistory
