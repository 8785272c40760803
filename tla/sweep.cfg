CONSTANTS
  Rows = {1, 2, 3}
  Times = {0, 1, 2, 3}
  Weights = {1, 2}
  Capacity = 2
SPECIFICATION Spec
INVARIANT WitnessesAreReal
INVARIANT NoOverloadMissed
INVARIANT PeakIsExact
CHECK_DEADLOCK FALSE
