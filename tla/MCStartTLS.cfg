SPECIFICATION Spec
CONSTANTS
  Protocols <- AllProtocols
  LineLimit = 4
  SeenLimit = 7
  Banner = 2
  Talk = 6
INVARIANTS
  TalkInv
  OnlyAnEndTagIsLeft
  UpgradeIsAgreed
  YesIsUnderstood
  NotBothWaiting
