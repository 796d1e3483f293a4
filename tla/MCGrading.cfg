CONSTANTS
  Trials <- MCTrials
  MaxFaults = 1
SPECIFICATION Spec
INVARIANTS
  GradeInv
  WallsAreTrue
  PraiseIsEarned
  SweepBrackets
  ECHIsWhatHappened
