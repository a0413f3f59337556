CONSTANTS
  FactoryOrder <- MCFactoryOrder
  Scenes <- MCScenes
  Blank = "blank"
  Scene <- MCScene
  Never = Never
  Window = 1
  MaxActs = 5

SPECIFICATION Spec
INVARIANTS ToldOnce GridsTrue
PROPERTIES NoAmbush DelayedOnly
CHECK_DEADLOCK FALSE
