SPECIFICATION FairSpec
CONSTANTS
  p1 = p1
  p2 = p2
  s1 = s1
  NoProcess = NoProcess
  Processes = {p1, p2}
  Servers = {s1}
  OldFiles <- MCOldFiles
  MaxGens = 2
  MaxFiles = 4
  MaxFaults = 1
  Port <- MCPort
  Service = {p1}
  Explicit = {p2}
  MaxCalls <- MCCalls
  MaxStarts = 2
INVARIANT ChoiceKept InterruptionIsNoted StagingHasBuilder
PROPERTY GetsDatabase StopEnds
CHECK_DEADLOCK FALSE
\* Fails, in place of the others:
\* PROPERTY StopAlwaysEnds
