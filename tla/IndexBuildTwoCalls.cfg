SPECIFICATION Spec
CONSTANTS
  s1 = s1
  t1 = t1
  t2 = t2
  i1 = i1
  Servers = {s1}
  Tasks = {t1, t2}
  Items = {i1}
  NoTask = NoTask
  Orphan = Orphan
  Env = {"manual", "forced", "cancel", "delete"}
  MaxGen = 2
  MaxFailures = 0
  MaxRestarts = 0
  MaxOrphans = 1
  Concurrency = 1
  Threshold = 1
SYMMETRY TaskSymmetry
INVARIANTS
  BuildsExclusive
  NoLeakedReservation
  DeletedStaysDeleted
CHECK_DEADLOCK FALSE
