SPECIFICATION Spec
CONSTANTS
  f1 = f1
  v1 = v1
  v2 = v2
  Absent = Absent
  Val = {v1}
  Path <- StepPaths
  MetaName <- NamePath
  DefaultName = v1
  Pref = {0, 1}
  NoPref = 0
  Built = {}
  MaxOps = 2
  MaxEntries = 2
  MaxDamage = 1
INVARIANT DiskMirrorsMemory
