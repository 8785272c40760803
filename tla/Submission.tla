----------------------------- MODULE Submission -----------------------------
(***************************************************************************)
(* A plan that did not come from the planner: the check and verify-plan    *)
(* commands hand the notary whatever rows a shop wrote.  Rows are written  *)
(* one at a time, in any order, and the notary may be asked at any moment. *)
(*                                                                         *)
(* The notary sweeps intervals, merges windows and colours lanes.  The     *)
(* properties compare it with a definition of a feasible plan that only    *)
(* looks at single minutes, as tests/oracle_minutes.py does, and lets any  *)
(* assignment of rows to lanes serve as a witness.                         *)
(***************************************************************************)
EXTENDS Notary

CONSTANTS Problems,        \* the problems a plan may be written for
          RowsFor(_, _)    \* the rows that may be written for an operation

\* What model.py lets through of a problem that no plan of events needs: links
\* without a cycle, what is in stock, and one pool for a unit type, asked for
\* units within the horizon.
Acyclic(p) == \A S \in SUBSET p.ops : S # {} => \E o \in S : \A q \in S : o \notin Preds(p, q)

SupplyOk(p) ==
  /\ Acyclic(p)
  /\ \A o \in p.ops : \A l \in p.links[o] : l.min \in Nat /\ l.max \in Nat \cup {NoMax}
  /\ \A s \in DOMAIN p.stock :
       LET stock == p.stock[s]
       IN /\ stock.qty \in Nat /\ stock.from \in Int
          /\ stock.rotable \in BOOLEAN /\ stock.lag \in Nat \cup {NoLag}
          /\ IsFiniteSet(stock.receipts) /\ stock.receipts \subseteq Int \X Nat
  /\ IsFiniteSet(DOMAIN p.unit)
  /\ \A x, y \in p.pools : x.unit = y.unit => x = y
  /\ \A pool \in p.pools : /\ pool.initial \in Nat /\ IsFiniteSet(pool.demand)
                            /\ pool.demand \subseteq (0..p.horizon) \X Nat

\* PlannedAssignment: a row may end before it starts, and name resources of any kind.
WrittenRowOk(r) ==
  /\ DOMAIN r = {"post", "crew", "tools", "start", "end", "setup", "lane"}
  /\ r.start \in Int /\ r.end \in Int /\ r.setup \in Nat /\ OccStart(r) >= Dawn
  /\ r.lane \in Nat \cup {NoLane}

ASSUME RowsAssumption ==
  \A p \in Problems : /\ ProblemOk(p) /\ SupplyOk(p)
                      /\ \A o \in p.ops : \A r \in RowsFor(p, o) : WrittenRowOk(r)

VARIABLES problem, plan

vars == <<problem, plan>>

Init == /\ problem \in Problems
        /\ plan = [o \in {} |-> {}]

Write(o) ==
  /\ o \notin DOMAIN plan
  /\ \E r \in RowsFor(problem, o) : plan' = With(plan, o, r)
  /\ UNCHANGED problem

Next == \E o \in problem.ops : Write(o)

Spec == Init /\ [][Next]_vars

-----------------------------------------------------------------------------
(***************************************************************************)
(* A plan is feasible, minute by minute.                                   *)
(***************************************************************************)
MinutesOf(r) == OccStart(r)..(r.end - 1)
WorkOf(r)    == r.start..(r.end - 1)

AllMinutes == UNION {MinutesOf(plan[o]) : o \in DOMAIN plan}

\* In every minute, no resource holds more rows than it can.
CapacityEachMinute ==
  \A t \in AllMinutes :
    /\ \A c \in DOMAIN problem.cap :
         Cardinality({o \in AtPost(plan, c) : t \in MinutesOf(plan[o])}) <= problem.cap[c]
    /\ \A w \in DOMAIN problem.crewCap :
         Cardinality({o \in OfCrew(plan, w) : t \in MinutesOf(plan[o])}) <= problem.crewCap[w]
    /\ \A x \in DOMAIN problem.toolCap :
         Cardinality({o \in OnTool(plan, x) : t \in MinutesOf(plan[o])}) <= problem.toolCap[x]

\* The resources of a row are open: in every minute of a visit without pauses,
\* in the setup and in exactly dur minutes of the work of one with pauses.
OpenEachMinute ==
  \A o \in DOMAIN plan :
    LET r == plan[o]
        cals == Staffed(problem, CalendarsOf(r.post, r.crew, r.tools \cup problem.tools[o]))
        opened == {t \in MinutesOf(r) : \A k \in cals : Open(problem, k, t)}
    IN /\ \A t \in MinutesOf(r) \ WorkOf(r) : t \in opened
       /\ IF problem.policy[o] = "preemptive"
          THEN Cardinality(WorkOf(r) \cap opened) = problem.dur[o]
          ELSE MinutesOf(r) \subseteq opened

\* The state in which the rows before o leave its lane, by an assignment of the
\* rows of post c to lanes, and the setup that o needs after it.
Earlier(c, lane, o) ==
  {q \in AtPost(plan, c) : lane[q] = lane[o] /\ plan[q].end <= OccStart(plan[o])}

StateBefore(c, lane, o) ==
  LET rows == Earlier(c, lane, o)
  IN IF rows = {} THEN Idle
     ELSE problem.state[CHOOSE q \in rows : \A x \in rows : plan[x].end <= plan[q].end]

SetupNeeded(c, lane, o) ==
  LET state == StateBefore(c, lane, o)
      cell  == Cell(problem, c, state, problem.state[o])
  IN IF cell = NoCell /\ problem.missing = "zero" /\ state # Idle THEN 0 ELSE cell

\* The assignment agrees with the lanes that rows name, shares no minute of a
\* lane, and explains every written setup.  A post with one lane has no other
\* that a row could name.
Explains(c, lane) ==
  LET S == AtPost(plan, c)
  IN /\ \A o, q \in S : o # q /\ lane[o] = lane[q]
          => MinutesOf(plan[o]) \cap MinutesOf(plan[q]) = {}
     /\ \A o \in S : problem.cap[c] > 1 /\ plan[o].lane # NoLane => lane[o] = plan[o].lane
     /\ \A o \in S : plan[o].setup = SetupNeeded(c, lane, o)

SetupsExplained ==
  \A c \in DOMAIN problem.cap :
    \E lane \in [AtPost(plan, c) -> 0..(problem.cap[c] - 1)] : Explains(c, lane)

OrderHolds ==
  \A o \in DOMAIN plan, l \in UNION {problem.links[q] : q \in problem.ops} :
    l \in problem.links[o] =>
      /\ l.pred \in DOMAIN plan
      /\ plan[o].start - plan[l.pred].end >= l.min
      /\ l.max # NoMax => plan[o].start - plan[l.pred].end <= l.max

\* The pieces of spare s that are not on the shelf in minute t: a rotable one
\* for its visit and its return lag, a consumable one for good.
Gone(s, t) ==
  {o \in Drawers(problem, plan, s) :
     /\ plan[o].start <= t
     /\ problem.stock[s].rotable => t < plan[o].end + problem.stock[s].lag}

Supplied(s, t) ==
  LET stock == problem.stock[s]
      early == {x \in stock.receipts : x[1] <= t}
  IN (IF stock.from <= t THEN stock.qty ELSE 0)
       + (IF stock.rotable THEN 0 ELSE MapThenSumSet(LAMBDA x : x[2], early))

SparesEachMinute ==
  \A s \in DOMAIN problem.stock, t \in 0..problem.horizon :
    Gone(s, t) # {} => Cardinality(Gone(s, t)) <= Supplied(s, t)

\* docs/adr/0004: what the pool of a unit type has left at the end of minute t.
UnitsLeft(pool, t) ==
  pool.initial
    + Cardinality({j \in DOMAIN problem.unit :
        /\ problem.unit[j] = pool.unit
        /\ CardOps(problem, j) # {}
        /\ \A o \in CardOps(problem, j) : o \in DOMAIN plan /\ plan[o].end <= t})
    - MapThenSumSet(LAMBDA d : d[2], {d \in pool.demand : d[1] <= t})

-----------------------------------------------------------------------------
\* No false accept: a plan in which the notary finds nothing is complete, and
\* every minute, lane and link of it is as it should be.
CleanPlanIsFeasible ==
  Findings(problem, plan) = {} =>
    /\ DOMAIN plan = problem.ops
    /\ CapacityEachMinute /\ OpenEachMinute /\ SetupsExplained /\ OrderHolds
    /\ SparesEachMinute

\* The sweep finds an overlap just when some minute is over capacity.
OverlapsAreMinutes == Overlaps(problem, plan) = {} <=> CapacityEachMinute

\* The pool ledger looks at the last operations of a card and at moments where
\* stock moves; a plan that keeps its links, of rows that end after they start,
\* runs out of units in its eyes just when in some minute the units promised are
\* more than those whose whole card is done.
StockoutsAreMinutes ==
  /\ Precedence(problem, plan) = {}
  /\ \A o \in DOMAIN plan : plan[o].start < plan[o].end
  =>
    \A pool \in problem.pools :
      <<"EXCHANGE_POOL_STOCKOUT", pool.unit>> \in Stockouts(problem, plan) <=>
        pool.hard /\ \E t \in 0..problem.horizon : UnitsLeft(pool, t) < 0

\* What the notary says of setups is never wrong: where it finds a mismatch on
\* rows that all name a lane, or on a post with a single lane, no assignment of
\* rows to lanes explains the setups.
NamedLanesAreJudgedExactly ==
  \A c \in DOMAIN problem.cap :
    LET S == AtPost(plan, c)
    IN /\ \A o \in S : plan[o].start < plan[o].end
       /\ problem.cap[c] = 1 \/ \A o \in S : plan[o].lane \in 0..(problem.cap[c] - 1)
       /\ ~Excess(plan, S, problem.cap[c])
       => (SetupsAt(problem, plan, c) = {} <=>
             \E lane \in [S -> 0..(problem.cap[c] - 1)] : Explains(c, lane))

\* Stamping the lanes of a plan neither hides nor makes a finding other
\* than about setups, and leaves no row of a post that fits without a lane.
StampingOnlyNamesLanes ==
  LET stamped == StampLanes(problem, plan)
      others(rows) == Findings(problem, rows) \ Setups(problem, rows)
  IN /\ others(stamped) = others(plan)
     /\ \A c \in DOMAIN problem.cap :
          /\ problem.cap[c] > 1 /\ ~Excess(plan, AtPost(plan, c), problem.cap[c])
          /\ \A o \in AtPost(plan, c) : plan[o].start < plan[o].end
          => \A o \in AtPost(plan, c) : stamped[o].lane # NoLane
=============================================================================
