------------------------------- MODULE Claim -------------------------------
(***************************************************************************)
(* planner.py, classify_result: the status, the exit code and the claim of *)
(* a published result.  A run is a record of what wrap knows of it: the    *)
(* family of the solver (config) and its status (kernel), whether every    *)
(* operation is assigned (full), whether the notary (hard) or the engine's *)
(* own checker (engine) found something, and how the fixpoint ended.       *)
(***************************************************************************)
EXTENDS Naturals

Outcome(status, verified, exit, claim) ==
  [status |-> status, verified |-> verified, exit |-> exit, claim |-> claim]

Dirty(run) == run.hard \/ run.engine \/ ~run.converged \/ ~run.full

\* A mutant: how many passes there were and what windows they left is not asked.
ExactOptimalAnyPass(run) == run.kernel = "OPTIMAL" /\ run.config = "CPSAT"

ExactOptimal(run) ==
  /\ run.kernel = "OPTIMAL"
  /\ run.config = "CPSAT"
  /\ run.converged
  /\ run.iterations = 1
  /\ ~run.windows

\* A mutant: what is dirty is only looked at when the kernel gave no plan.
ClassifyTrusting(run) ==
  IF run.kernel = "ERROR" THEN Outcome("ERROR", FALSE, 2, "error")
  ELSE IF run.kernel = "INFEASIBLE" THEN Outcome("INFEASIBLE", FALSE, 2, "rejected")
  ELSE IF ExactOptimal(run) THEN Outcome("OPTIMAL", TRUE, 0, "optimal")
  ELSE Outcome("FEASIBLE", TRUE, 0, "verified")

Classify(run) ==
  IF run.kernel = "NONE" THEN Outcome("NOT_VERIFIED", FALSE, 2, "rejected")
  ELSE IF run.usage THEN Outcome("ERROR", FALSE, 1, "usage_error")
  ELSE IF run.kernel = "ERROR" THEN Outcome("ERROR", FALSE, 2, "error")
  ELSE IF run.kernel = "INFEASIBLE" /\ ~Dirty(run)
       THEN Outcome("INFEASIBLE", FALSE, 2, "rejected")
  ELSE IF Dirty(run)
       THEN Outcome(IF run.full THEN "NOT_VERIFIED" ELSE "PARTIAL", FALSE, 2, "rejected")
  ELSE IF ExactOptimal(run) THEN Outcome("OPTIMAL", TRUE, 0, "optimal")
  ELSE IF run.config = "HEURISTIC"
       THEN Outcome("HEURISTIC_FEASIBLE", TRUE, 0, "verified")
  ELSE IF run.kernel \in {"FEASIBLE", "OPTIMAL"}
       THEN Outcome("FEASIBLE", TRUE, 0, "verified")
  ELSE Outcome("NOT_VERIFIED", FALSE, 2, "rejected")
=============================================================================
