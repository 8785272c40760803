---------------------------- MODULE DagCompiler ----------------------------
(***************************************************************************)
(* dag_compiler.py: a repair card, whose operations branch and join, cut   *)
(* into the chains that the kernel knows, and the release windows that     *)
(* stand in for the edges left over.  compile_dag is called by the         *)
(* planner, by the adapter and, anew, by the notary.                       *)
(*                                                                         *)
(* The operations of a job are numbered in the order of _topo, so that a   *)
(* predecessor has a lower number; preds are the predecessors of each, and *)
(* s maps the operations planned to their starts.                          *)
(***************************************************************************)
EXTENDS Integers, FiniteSetsExt

\* Durations and lags are whole minutes, and within a job they are
\* numbered in an order that respects their predecessors.
CardOk(c) ==
  /\ c.ops \subseteq Nat
  /\ c.horizon \in Nat
  /\ \A o \in c.ops : c.dur[o] \in Nat /\ c.lag[o] \in Nat
  /\ \A o, q \in c.ops : q \in c.preds[o] /\ c.job[q] = c.job[o] => q < o

End(c, s, o) == s[o] + c.dur[o]

-----------------------------------------------------------------------------
(***************************************************************************)
(* compile_dag.                                                            *)
(***************************************************************************)
Edges(c) == {e \in c.ops \X c.ops : e[1] \in c.preds[e[2]]}
Succs(c, q) == {o \in c.ops : q \in c.preds[o]}
SameJob(c, e) == c.job[e[1]] = c.job[e[2]]

\* _serialize: the operations of a job in one chain.
SerialLinks(c) ==
  {e \in c.ops \X c.ops :
     /\ e[1] < e[2] /\ SameJob(c, e)
     /\ \A x \in c.ops : e[1] < x /\ x < e[2] => c.job[x] # c.job[e[1]]}

\* _segment: chains without branches.
SegmentLinks(c) ==
  {e \in Edges(c) : SameJob(c, e) /\ Succs(c, e[1]) = {e[2]} /\ c.preds[e[2]] = {e[1]}}

Links(c) == IF c.strategy = "serialize" THEN SerialLinks(c) ELSE SegmentLinks(c)

\* A mutant: an edge between two jobs is dropped.
CrossEdgesInJob(c) == {e \in Edges(c) \ Links(c) : SameJob(c, e)}

CrossEdges(c) ==
  IF c.strategy = "serialize" THEN {e \in Edges(c) : ~SameJob(c, e)}
                              ELSE Edges(c) \ Links(c)

-----------------------------------------------------------------------------
(***************************************************************************)
(* propagate_windows: the edges that the plan breaks lift the windows of   *)
(* their destinations to the latest end.  Starts and ends are whole        *)
(* minutes here, so that _ceil_minute leaves them as they are.             *)
(***************************************************************************)
Lifts(c, ws, s, e) ==
  /\ e[1] \in DOMAIN s
  /\ e[2] \in DOMAIN s => s[e[2]] < End(c, s, e[1])
  /\ e[2] \in DOMAIN ws => End(c, s, e[1]) > ws[e[2]]

Lifted(c, ws, s) == {e \in CrossEdges(c) : Lifts(c, ws, s, e)}

\* The latest end among the predecessors of o in the edges es.
LatestEnd(c, s, es, o) ==
  CHOOSE m \in {End(c, s, e[1]) : e \in es} :
    /\ \E e \in es : e[2] = o /\ End(c, s, e[1]) = m
    /\ \A e \in es : e[2] = o => End(c, s, e[1]) <= m

\* A mutant: the windows of earlier passes are forgotten.
PropagateAnew(c, ws, s) ==
  LET lifted == Lifted(c, ws, s)
  IN [o \in {e[2] : e \in lifted} |-> LatestEnd(c, s, lifted, o)]

Propagate(c, ws, s) ==
  LET lifted == Lifted(c, ws, s)
  IN [o \in DOMAIN ws \cup {e[2] : e \in lifted} |->
        IF \E e \in lifted : e[2] = o THEN LatestEnd(c, s, lifted, o) ELSE ws[o]]
=============================================================================
