CONSTANTS
  LastChar = 4
  FirstSurrogate = 2
  LastSurrogate = 2
  MaxLength = 2
  Tables <- MCTables
  Limits = {1, 2}
  Searches = {s1, s2}
  Keys = {k1}
  Capacity = 1
  MaxGen = 2
  MaxBuilds = 2
  StatusCalls = 1
  Clears = TRUE
  DbErrors = TRUE
SPECIFICATION Spec
INVARIANTS UndisturbedAnswerIsWhole IndexIsAcknowledged FailureIsReported
CHECK_DEADLOCK FALSE
SYMMETRY Symmetry
