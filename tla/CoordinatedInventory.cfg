CONSTANTS
  Workers = {w1, w2}
  Callers = {c1}
  Nodes <- MCNodes
  Kind <- MCKind
  Named <- MCNamed
  Below <- OneItemBelow
  Pacings = {0}
  Faults = TRUE
  Truncates = TRUE
  Coord = Coord
SPECIFICATION FairSpec
INVARIANTS CompleteMissesOnlyCuts CancelReachesWorkers JoinedBeforeRelease
PROPERTIES EndIsReached
CHECK_DEADLOCK FALSE

