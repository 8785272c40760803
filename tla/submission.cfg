CONSTANTS
  Problems <- SubmittedProblems
  RowsFor <- SubmittedRows
SPECIFICATION Spec
INVARIANT CleanPlanIsFeasible
INVARIANT OverlapsAreMinutes
INVARIANT StockoutsAreMinutes
INVARIANT NamedLanesAreJudgedExactly
INVARIANT StampingOnlyNamesLanes
CHECK_DEADLOCK FALSE
