--------------------------- MODULE KernelFixpoint ---------------------------
(***************************************************************************)
(* planner.py, _kernel_fixpoint, with dag_compiler.py: a repair card, whose*)
(* operations branch and join, planned by a kernel that only knows chains. *)
(* The card is cut into chains.  An edge of the card that is no link of a  *)
(* chain is left out; when the kernel's plan breaks it, its destination    *)
(* gets a release window and the kernel is called again.                   *)
(*                                                                         *)
(* The kernel is not under src/: it is taken to answer its own problem     *)
(* correctly (solve_schedule verifies feasibility).  Its problem has the   *)
(* chains, the windows and the posts, and no lags.                         *)
(*                                                                         *)
(* A card is a record: operations 1..n numbered in the order of _topo, so  *)
(* that a predecessor in the same job has a lower number;                  *)
(* job, post, dur and preds of each; lag, the least wait after every       *)
(* predecessor; the horizon; and the policy dag_strategy.                  *)
(***************************************************************************)
EXTENDS Claim, DagCompiler

CONSTANTS Cards,      \* the cards a run may be given
          Config,     \* "CPSAT" or "HEURISTIC"
          MaxIter     \* policy.max_fixpoint_iter

ASSUME CardsAssumption == \A c \in Cards : CardOk(c)
ASSUME MaxIterAssumption == MaxIter \in Nat \ {0}
ASSUME ConfigAssumption == Config \in {"CPSAT", "HEURISTIC"}

VARIABLES card,
          windows,    \* the release windows: operation -> minute
          built,      \* the windows of the problem the kernel solved last
          rows,       \* its plan: operation -> start
          kernel,     \* its status
          iterations, \* how often it was called
          converged,
          phase,      \* "solving", "solved" or "published"
          outcome     \* what is published

vars == <<card, windows, built, rows, kernel, iterations, converged, phase, outcome>>

None == [o \in {} |-> 0]
Unpublished == Outcome("", FALSE, 0, "")

-----------------------------------------------------------------------------
(***************************************************************************)
(* What the kernel may answer, and what the card asks for.                 *)
(***************************************************************************)
PostsHold(c, s) ==
  \A o, q \in DOMAIN s : o # q /\ c.post[o] = c.post[q]
    => End(c, s, o) <= s[q] \/ End(c, s, q) <= s[o]

KernelAccepts(c, ws, s) ==
  /\ PostsHold(c, s)
  /\ \A o \in DOMAIN s : End(c, s, o) <= c.horizon
  /\ \A o \in DOMAIN s \cap DOMAIN ws : s[o] >= ws[o]
  /\ \A e \in Links(c) : e[2] \in DOMAIN s
       => e[1] \in DOMAIN s /\ End(c, s, e[1]) <= s[e[2]]

Starts(c, S) == [S -> 0..(c.horizon - 1)]

KernelPlans(c, ws) == {s \in Starts(c, c.ops) : KernelAccepts(c, ws, s)}

PartialPlans(c, ws) ==
  UNION {{s \in Starts(c, c.ops \ {o}) : KernelAccepts(c, ws, s)} : o \in c.ops}

Makespan(c, s) == Max({0} \cup {End(c, s, o) : o \in DOMAIN s})

\* The plans of S that no plan of S is shorter than.
Shortest(c, S) == LET least == Min({Makespan(c, x) : x \in S})
                  IN {s \in S : Makespan(c, s) = least}

\* The edges and lags of the card itself, which the notary judges.
CardHolds(c, s) ==
  \A e \in Edges(c) : e[2] \in DOMAIN s
    => e[1] \in DOMAIN s /\ End(c, s, e[1]) + c.lag[e[2]] <= s[e[2]]

CardPlans(c) ==
  {s \in Starts(c, c.ops) : /\ CardHolds(c, s) /\ PostsHold(c, s)
                            /\ \A o \in c.ops : End(c, s, o) <= c.horizon}

-----------------------------------------------------------------------------
Init == /\ card \in Cards
        /\ windows = None
        /\ built = None
        /\ rows = None
        /\ kernel = "NONE"
        /\ iterations = 0
        /\ converged = FALSE
        /\ phase = "solving"
        /\ outcome = Unpublished

\* What the kernel answers to the problem built from the card and the windows.
Answers ==
  LET plans == KernelPlans(card, windows)
  IN      {[status |-> "FEASIBLE", rows |-> s] : s \in plans \cup PartialPlans(card, windows)}
     \cup (IF Config = "CPSAT" THEN {[status |-> "OPTIMAL", rows |-> s] :
                                       s \in Shortest(card, plans)} ELSE {})
     \cup (IF plans = {} THEN {[status |-> "INFEASIBLE", rows |-> None]} ELSE {})

\* A mutant: one pass too many.
SolveOnceMore ==
  /\ phase = "solving"
  /\ \E a \in Answers :
       LET still == Lifted(card, windows, a.rows) = {}
       IN /\ rows' = a.rows
          /\ kernel' = a.status
          /\ windows' = Propagate(card, windows, a.rows)
          /\ converged' = still
          /\ phase' = IF still \/ iterations = MaxIter THEN "solved" ELSE "solving"
  /\ built' = windows
  /\ iterations' = iterations + 1
  /\ UNCHANGED <<card, outcome>>

\* One pass of the loop.
Solve ==
  /\ phase = "solving"
  /\ \E a \in Answers :
       LET still == Lifted(card, windows, a.rows) = {}
       IN /\ rows' = a.rows
          /\ kernel' = a.status
          /\ windows' = Propagate(card, windows, a.rows)
          /\ converged' = still
          /\ phase' = IF still \/ iterations + 1 = MaxIter THEN "solved" ELSE "solving"
  /\ built' = windows
  /\ iterations' = iterations + 1
  /\ UNCHANGED <<card, outcome>>

\* The kernel rejects the problem (PortfolioValidationError).
Reject ==
  /\ phase = "solving"
  /\ rows' = None
  /\ kernel' = "ERROR"
  /\ converged' = FALSE
  /\ built' = windows
  /\ iterations' = iterations + 1
  /\ phase' = "solved"
  /\ UNCHANGED <<card, windows, outcome>>

\* wrap.
Publish ==
  /\ phase = "solved"
  /\ outcome' = Classify([kernel |-> kernel, config |-> Config, usage |-> FALSE,
                          hard |-> ~CardHolds(card, rows) \/ DOMAIN rows # card.ops,
                          engine |-> FALSE, full |-> DOMAIN rows = card.ops,
                          converged |-> converged, iterations |-> iterations,
                          windows |-> built # None])
  /\ phase' = "published"
  /\ UNCHANGED <<card, windows, built, rows, kernel, iterations, converged>>

Next == Solve \/ Reject \/ Publish

Spec == Init /\ [][Next]_vars

-----------------------------------------------------------------------------
(***************************************************************************)
(* Properties.                                                             *)
(***************************************************************************)
TypeOK == /\ DOMAIN windows \subseteq card.ops
          /\ DOMAIN rows \subseteq card.ops
          /\ iterations \in 0..MaxIter
          /\ phase \in {"solving", "solved", "published"}
          /\ converged \in BOOLEAN

\* When the loop says that the windows no longer move, no edge of the card is
\* broken by the plan in hand, though the kernel never saw the cross edges.
ConvergedIsOrdered ==
  converged /\ DOMAIN rows = card.ops
    => \A e \in Edges(card) : End(card, rows, e[1]) <= rows[e[2]]

\* The claim "optimal" is true of the card: no plan that keeps its edges and
\* lags is shorter, though the kernel optimised another problem.
OptimalIsOptimal ==
  outcome.claim = "optimal" =>
    rows \in Shortest(card, CardPlans(card))

\* A result is verified only with every operation planned, every edge and lag
\* of the card kept and the windows at rest.
VerifiedIsClean ==
  outcome.verified => converged /\ DOMAIN rows = card.ops /\ CardHolds(card, rows)

\* Windows only grow.
WindowsGrow ==
  [][\A o \in DOMAIN windows : o \in DOMAIN windows' /\ windows'[o] >= windows[o]]_vars

=============================================================================
