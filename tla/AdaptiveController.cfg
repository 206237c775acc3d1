SPECIFICATION FairSpec
CONSTANTS
  Files <- MCFiles
  Default <- MCDefault
  Cap <- MCCap
  MaxFactor = 4
INVARIANTS
  LimitsInRange
  RecoveryHonoured
PROPERTIES
  ReachesCeiling
\* Fails, in place of the others:
\* INVARIANT DutyFollowsController
