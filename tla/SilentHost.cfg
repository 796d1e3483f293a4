CONSTANTS
  Trials <- MCTrials
  MaxFaults = 1
SPECIFICATION Spec
INVARIANTS
  BrokenAnswered
