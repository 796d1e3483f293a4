CONSTANTS
  Word = {"a", "b", "bad"}
  Unparsable = {"bad"}
  Fleets <- MCFleets
  Asked = 1
  Fallback = 2
  Profile = {"classic", "size1", "size2"}
  SizeProbe = {"size1", "size2"}
  Sel <- MCSweep
  Endings = {"ok", "reset"}
  Interrupted = {"other"}
SPECIFICATION Spec
INVARIANT
  SweepStops
