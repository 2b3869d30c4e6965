SPECIFICATION PageSpec
CONSTANTS
  A = A
  B = B
  C = C
  D = D
  Conv = {A, B, C, D}
  Saved = A
  Stored <- MCStored
  PageSize = 1
  MaxTurns = 1
  MaxTexts = 1
  MaxPresses = 3
  MaxEvents = 2
  MaxFailures = 1
CHECK_DEADLOCK FALSE
INVARIANTS PageIsTrue
PROPERTIES AnswerIsWhole SendIsAnswered
