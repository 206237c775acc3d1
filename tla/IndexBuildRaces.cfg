\* Each of these properties fails; TLC reports one at a time.
SPECIFICATION Spec
CONSTANTS
  s1 = s1
  t1 = t1
  t2 = t2
  i1 = i1
  Servers = {s1}
  Tasks = {t1, t2}
  Items = {i1}
  NoTask = NoTask
  Orphan = Orphan
  Env = {"manual", "forced", "auto", "cancel", "delete", "shutdown"}
  MaxGen = 2
  MaxFailures = 1
  MaxRestarts = 0
  MaxOrphans = 0
  Concurrency = 1
  Threshold = 2
SYMMETRY TaskSymmetry
INVARIANT CancelReachesBuild
\* INVARIANT RunningBuildIsReachable
\* PROPERTY NoAutomaticFirstBuild
\* PROPERTY ShutdownKeepsRetryState
\* PROPERTY SearchableDuringRefresh
\* INVARIANT DeleteRemovesRetryState
CHECK_DEADLOCK FALSE
