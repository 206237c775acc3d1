CONSTANTS
  c1 = c1
  c2 = c2
  o1 = o1
  o2 = o2
  Calls = {c1, c2}
  Operators = {o1}
  Parties <- MCParties
SPECIFICATION FairPauseSpec
INVARIANTS CountsAgree
PROPERTIES PauseTakesHold
