SPECIFICATION Spec
CONSTANTS
  s1 = s1
  t1 = t1
  i1 = i1
  Servers = {s1}
  Tasks = {t1}
  Items = {i1}
  NoTask = NoTask
  Orphan = Orphan
  Env = {"manual", "forced", "auto", "cancel", "delete", "shutdown", "panic", "dberror", "cleanup"}
  MaxGen = 2
  MaxFailures = 1
  MaxRestarts = 1
  MaxOrphans = 1
  Concurrency = 1
  Threshold = 1
INVARIANTS
  TypeOK
  OneActive
PROPERTIES
  ActiveSurvives
  ImplementsCatalog
CHECK_DEADLOCK FALSE
