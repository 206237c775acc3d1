CONSTANTS
  Servers = {s1, s2}
  Callers = {t1, t2}
  Workers = {w1, w2}
  RetryLimit = 1
  MaxRequests = 3
  Errors = TRUE
  NoServer = NoServer
SPECIFICATION FairSpec
INVARIANTS SingleWorker
PROPERTIES PendingIsResumed
CHECK_DEADLOCK FALSE
