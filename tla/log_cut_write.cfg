CONSTANTS
  Procs = {p1, p2}
  Free = free
  Split = {}
  MaxEvents = 3
  MaxRetries = 1
  Careless = FALSE
SPECIFICATION Spec
INVARIANT AckedIsWritten
CHECK_DEADLOCK FALSE
