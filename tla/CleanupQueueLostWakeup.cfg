CONSTANTS
  Servers = {s1, s2}
  Callers = {t1}
  Workers = {w1, w2}
  RetryLimit = 1
  MaxRequests = 3
  Errors = FALSE
  NoServer = NoServer
SPECIFICATION FairSpec
PROPERTIES RequestIsServed
CHECK_DEADLOCK FALSE
