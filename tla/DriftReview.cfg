SPECIFICATION Spec
CONSTANTS
  Site = {"home", "away"}
  Machine = {"generator", "smelter"}
  Generator = {"generator"}
  Recipe = {0, 1, 2}
  Saves <- AllSaves
  EditCounts = {2, 3}
  EditClocks = {50}
  MaxVersions = 6
  MaxDiffs = 3
  MaxPlanned = 1
  MaxLost = 1
CONSTRAINT Within
INVARIANTS
  OneOpenDiff
  OpenDiffStillFits
PROPERTIES
  AcceptLeavesTheRest
  EditsSurviveAccept
  OnlyNewestDiffAccepted
CHECK_DEADLOCK FALSE
