CONSTANTS
  MaxNesting = 2
  Emmc = TRUE
SPECIFICATION FairSpec
INVARIANTS TruthfulAnswers FinishedIsSeen CardKept NoneLeft
PROPERTY SlotFollowed
CHECK_DEADLOCK FALSE
