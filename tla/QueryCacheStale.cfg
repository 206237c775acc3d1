\* Each of these properties fails; TLC reports one at a time.
CONSTANTS
  LastChar = 4
  FirstSurrogate = 2
  LastSurrogate = 2
  MaxLength = 2
  Tables <- MCTables
  Limits = {1, 2}
  Searches = {s1, s2}
  Keys = {k1}
  Capacity = 2
  MaxGen = 2
  MaxBuilds = 2
  Clears = TRUE
  StatusCalls = 1
  DbErrors = FALSE
SPECIFICATION Spec
CHECK_DEADLOCK FALSE
SYMMETRY Symmetry
INVARIANT HitIsCurrent
\* INVARIANT CompleteIsAuthoritative   \* also with Clears = FALSE
