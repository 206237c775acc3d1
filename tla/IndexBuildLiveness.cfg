SPECIFICATION FairSpec
CONSTANTS
  s1 = s1
  t1 = t1
  t2 = t2
  Servers = {s1}
  Tasks = {t1, t2}
  Items = {}
  NoTask = NoTask
  Orphan = Orphan
  Env = {"forced", "cancel", "delete", "shutdown", "panic", "clock"}
  MaxGen = 1
  MaxFailures = 0
  MaxRestarts = 0
  MaxOrphans = 1
  Concurrency = 1
  Threshold = 1
PROPERTIES
  DeletionCompletes
  ShutdownCompletes
  CancelEndsBuild
CHECK_DEADLOCK FALSE
\* Fails, in place of the others:
\* PROPERTY DeletionAlwaysCompletes
