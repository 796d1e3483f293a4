CONSTANTS
  Timeout = 2
  Delay = 1
SPECIFICATION Spec
INVARIANTS
  KindsAreEarned
  TwoDialClaims
  NoSocketLeft
  WithinBudget
PROPERTIES
  Returns
  KeepsPromise
