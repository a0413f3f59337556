SPECIFICATION Spec
CONSTANTS
  MaxSolves = 2
  MaxLines <- LinesOfSolve
INVARIANTS
  DoneHasOutcome
  LinesOnceInOrder
  CurrentIsPolled
PROPERTIES
  StoppedStaysStopped
  SolvingEnds
CHECK_DEADLOCK FALSE
