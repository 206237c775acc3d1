\* Each of these properties fails; TLC reports one at a time.
CONSTANTS
  c1 = c1
  c2 = c2
  o1 = o1
  o2 = o2
  Calls = {c1}
  Operators = {o1, o2}
  Parties <- Pairs
SPECIFICATION PauseSpec
INVARIANT ForegroundKeepsPaused
\* INVARIANT NoPauseLeftBehind
