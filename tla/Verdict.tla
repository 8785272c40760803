------------------------------- MODULE Verdict -------------------------------
(***************************************************************************)
(* planner.py, wrap: how a finished candidate becomes a published result.  *)
(* Crews and lanes are written into the rows before the notary reads them. *)
(* What classify_result makes of the notary's findings is in Claim.        *)
(***************************************************************************)
EXTENDS Notary

\* _planned_from_kernel: a row without tools is given those of its operation.
FillTools(p, plan) ==
  [o \in DOMAIN plan |-> [plan[o] EXCEPT !.tools = IF @ = {} THEN p.tools[o] ELSE @]]

\* bind_concrete_crews, in order of start: a row that needs a crew and names
\* none gets the first skilled crew that is still below its max_parallel.
FreeCrews(p, plan, o) ==
  {w \in DOMAIN p.crewCap :
     /\ Skilled(p, o, w)
     /\ Cardinality({q \in OfCrew(plan, w) : Meets(plan[o], plan[q])}) < p.crewCap[w]}

StartsBefore(plan, a, b) ==
  \/ plan[a].start < plan[b].start
  \/ plan[a].start = plan[b].start /\ a < b

BindCrews(p, plan) ==
  LET unbound(o) == plan[o].crew = NoCrew /\ NeedsCrew(p, o)
      bind(o, acc) ==
        LET seen == With(acc, o, plan[o])
            free == FreeCrews(p, seen, o)
        IN IF unbound(o) /\ free # {}
           THEN With(acc, o, [plan[o] EXCEPT !.crew = Min(free)])
           ELSE seen
      last(S) == CHOOSE o \in S : \A q \in S \ {o} : StartsBefore(plan, q, o)
  IN MapThenFoldSet(bind, [o \in {} |-> {}], LAMBDA o : o, last, DOMAIN plan)

Published(p, plan) == StampLanes(p, BindCrews(p, FillTools(p, plan)))

=============================================================================
