SPECIFICATION FairSpec
CONSTANTS
  Waiters = {w1}
  Impatient = {w1}
  Kept = 1
  MaxGen = 2
  MaxEvents = 5
CHECK_DEADLOCK FALSE
INVARIANTS AnswersTruthful
PROPERTIES WaitEnds
