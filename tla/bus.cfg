CONSTANTS
  Agents = {a1, a2}
  Nobody = nobody
  Branches = {b1}
  Stale = 2
  Leases = {1, 3}
  MaxNow = 3
  MaxThread = 4
  MaxCommits = 1
SPECIFICATION Spec
SYMMETRY AgentsAlike
INVARIANT OneEntitled
INVARIANT BeliefIsTrue
INVARIANT FreeMeansClaimable
CHECK_DEADLOCK FALSE
