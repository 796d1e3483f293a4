CONSTANTS
  N = 3
  Concurrency = 2
  Profile = {"classic", "size1", "size2", "ech"}
  SizeProbe = {"size1", "size2"}
  Plan <- MCPlan
  Endings = {"ok", "reset"}
  Interrupted = {"other"}
SPECIFICATION Spec
INVARIANTS
  AtMostConcurrency
  NothingOutlivesTheRun
  SweepIsExact
PROPERTIES
  KeepsFleetPromise
