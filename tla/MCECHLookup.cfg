SPECIFICATION Spec
CONSTANTS
  Names <- MCNames
  Literals <- MCLiterals
  Targets <- MCTargets
  Servers = 2
  Patience = 2
  Connect = 3
INVARIANTS
  LookupInv
  NoneMissed
  AsksLittle
PROPERTIES
  Returns
