CONSTANTS
  Target = {t1, t2}
  Conclusions = {"pq-ready", "pq-intolerant", "unreachable"}
  Garbage = {"pq-refusing", "tls-broken"}
  MaxChanges = 3
SPECIFICATION Spec
INVARIANTS
  WatchInv
  ReaderIsCurrent
  NothingTaintedIsSaid
PROPERTIES
  FallsAreGraded
  WatchIsLive
