\* Each of these properties fails; TLC reports one at a time.
SPECIFICATION Spec
CONSTANTS
  p1 = p1
  p2 = p2
  s1 = s1
  NoProcess = NoProcess
  Processes = {p1, p2}
  Servers = {s1}
  OldFiles <- MCOldFiles
  MaxGens = 3
  MaxFiles = 4
  MaxFaults = 1
  Port <- MCPort
  Service = {p1}
  Explicit = {p2}
  MaxCalls <- MCCalls
  MaxStarts = 2
CHECK_DEADLOCK FALSE
INVARIANT LiveStagingKept
\* INVARIANT OnlyInvalidMoved
