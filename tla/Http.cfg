SPECIFICATION FairSpec
CONSTANTS
  Shapes <- GoodAndBad
  MaxRequests = 3
INVARIANTS TypeOK AnswersInOrder FreedOnce QueueWaitsForBody
PROPERTY AllAnswered
CHECK_DEADLOCK FALSE
