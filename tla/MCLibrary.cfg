CONSTANTS
  Word = {"a", "b", "bad"}
  Unparsable = {"bad"}
  Fleets <- MCFleets
  Asked = 0
  Fallback = 2
  Profile = {"classic", "size1", "size2"}
  SizeProbe = {"size1", "size2"}
  Sel <- MCSel
  Endings = {"ok"}
  Interrupted = {"other"}
SPECIFICATION Spec
INVARIANTS
  LibraryInv
  NobodyIsDropped
PROPERTIES
  Returns
