\* Each of these properties fails; TLC reports one at a time.
CONSTANTS
  MaxGen = 3
  MaxRow = 3
  BatchSize = 1
  Clears = TRUE
  DbErrors = FALSE
  MaxRestarts = 1
SPECIFICATION BatchSpec
CHECK_DEADLOCK FALSE
INVARIANT NoOrphans
\* INVARIANT TablesAgree   \* also with Clears = FALSE
