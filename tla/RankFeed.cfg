SPECIFICATION Spec
CONSTANTS
  Plan = {"p", "q", "z"}
  Start = "p"
  Fresh = "z"
  CardOrder <- MCOrder
  Evidence <- MCEvidence
  Trains = {"train"}
  Reply <- MCReply
  Surface = {"panel"}
  None = None
  Edited = {"q"}
  MaxActs = 3
  MaxAnswers = 1
INVARIANT FeedIsHonest
PROPERTY FeedCatchesUp
CHECK_DEADLOCK FALSE
