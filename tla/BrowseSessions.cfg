CONSTANTS
  Calls = {c1, c2}
  Ids = {s1, s2}
  Keys = {k1}
  MaxSessions = 1
  MaxPages = 1
  MaxRounds = 1
  NoCall = NoCall
  NoId = NoId
SPECIFICATION FairSpec
INVARIANTS SessionsBounded NoUseAfterClose NativeIsOwned
PROPERTIES CallsReturn
CHECK_DEADLOCK FALSE
\* Fails, in place of the others:
\* INVARIANT NativeIsClosed
