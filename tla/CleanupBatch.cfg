CONSTANTS
  MaxGen = 3
  MaxRow = 3
  BatchSize = 1
  Clears = TRUE
  DbErrors = TRUE
  MaxRestarts = 1
SPECIFICATION BatchSpec
INVARIANT LeftoversAreRequested
PROPERTY DeletesOnlyObsolete
CHECK_DEADLOCK FALSE
