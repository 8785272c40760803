------------------------------- MODULE Ledger -------------------------------
(***************************************************************************)
(* ledger.py: what is in stock over time.  A repaired unit goes back to    *)
(* the exchange pool of its type when its card is done, and dated demands  *)
(* draw on the pool.  A rotable spare comes back some minutes after the    *)
(* visit that used it; a consumable one does not (see Notary).             *)
(*                                                                         *)
(* p.job[o] is the card of an operation and p.unit[j] the unit type of a   *)
(* card; p.pools is a set of pools, one for a unit type, each with a set   *)
(* of demands <<at, qty>>.  Every operation draws one piece of a spare.    *)
(***************************************************************************)
EXTENDS Shop, FiniteSetsExt

NoLag == -1    \* return_lag_min is not a whole number of minutes

\* What a finding about a spare, and no one operation, is about.
OfSpare(s) == -s

Drawers(p, plan, s) == {o \in DOMAIN plan : s \in p.needs[o]}

-----------------------------------------------------------------------------
(***************************************************************************)
(* _completion_times: a unit is back when every sink of its own card has   *)
(* ended; edges between cards do not count.                                *)
(***************************************************************************)
CardOps(p, j) == {o \in p.ops : p.job[o] = j}

Sinks(p, j) == {o \in CardOps(p, j) : \A q \in CardOps(p, j) : o \notin Preds(p, q)}

Returned(p, plan) ==
  {j \in DOMAIN p.unit : Sinks(p, j) # {} /\ Sinks(p, j) \subseteq DOMAIN plan}

\* A mutant: the unit is back at the end of its first sink.
CompletionOfFirst(p, plan, j) == Min({plan[o].end : o \in Sinks(p, j)})

Completion(p, plan, j) == Max({plan[o].end : o \in Sinks(p, j)})

-----------------------------------------------------------------------------
(***************************************************************************)
(* _exchange_pool_violations: the stock is walked from moment to moment,   *)
(* what comes and goes in one moment taken together, and the least stock   *)
(* is remembered.  A pool that is not hard is a KPI.                       *)
(***************************************************************************)
Returns(p, plan, pool) ==
  {j \in Returned(p, plan) : p.unit[j] = pool.unit}

Moments(p, plan, pool) ==
  {Completion(p, plan, j) : j \in Returns(p, plan, pool)} \cup {d[1] : d \in pool.demand}

Delta(p, plan, pool, m) ==
  Cardinality({j \in Returns(p, plan, pool) : Completion(p, plan, j) = m})
    - MapThenSumSet(LAMBDA d : d[2], {d \in pool.demand : d[1] = m})

WorstStock(p, plan, pool) ==
  LET step(m, acc) == LET left == acc.stock + Delta(p, plan, pool, m)
                      IN [stock |-> left, worst |-> Min({acc.worst, left})]
      start == [stock |-> pool.initial, worst |-> pool.initial]
  IN MapThenFoldSet(step, start, LAMBDA m : m, LAMBDA T : Max(T), Moments(p, plan, pool)).worst

Stockouts(p, plan) ==
  {<<"EXCHANGE_POOL_STOCKOUT", pool.unit>> :
     pool \in {x \in p.pools : x.hard /\ WorstStock(p, plan, x) < 0}}

-----------------------------------------------------------------------------
(***************************************************************************)
(* _rotable_spare_violations: a piece is out from the start of the work    *)
(* (its setup does not need it) until its return lag is over.              *)
(***************************************************************************)
Rotables(p) == {s \in DOMAIN p.stock : p.stock[s].rotable}

Out(p, plan, s) ==
  [o \in Drawers(p, plan, s) |->
     [plan[o] EXCEPT !.end = @ + p.stock[s].lag, !.setup = 0]]

RotableFindings(p, plan, s) ==
  LET out == Out(p, plan, s)
  IN IF p.stock[s].lag = NoLag
     THEN {<<"SPARE_UNAVAILABLE", OfSpare(s)>>}
     ELSE      {<<"SPARE_UNAVAILABLE", o>> : o \in {q \in DOMAIN out :
                  out[q].start < p.stock[s].from}}
          \cup (IF Excess(out, DOMAIN out, p.stock[s].qty)
                THEN {<<"SPARE_UNAVAILABLE", OfSpare(s)>>} ELSE {})

\* exchange_pool_violations.
LedgerFindings(p, plan) ==
  Stockouts(p, plan) \cup UNION {RotableFindings(p, plan, s) : s \in Rotables(p)}
=============================================================================
