\* Each of these properties fails; TLC reports one at a time.
CONSTANTS
  Workers = {w1, w2}
  Callers = {c1}
  Nodes <- MCNodes
  Kind <- MCKind
  Named <- MCNamed
  Below <- MCBelow
  Pacings = {0, 1}
  Faults = FALSE
  Truncates = FALSE
  Coord = Coord
SPECIFICATION Spec
CHECK_DEADLOCK FALSE
INVARIANT WorkersFollowControl
\* INVARIANT CompleteMeansWhole
