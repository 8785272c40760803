CONSTANTS
  Procs = {p1, p2}
  Free = free
  Split = {2}
  MaxEvents = 3
  MaxRetries = 2
  Careless = FALSE
SPECIFICATION FairSpec
INVARIANT TypeOK
INVARIANT MutualExclusion
INVARIANT OneHistory
INVARIANT CompleteWritesSurvive
INVARIANT FailsClosed
PROPERTY KeepsThePromise
PROPERTY CallsEnd
CHECK_DEADLOCK FALSE
