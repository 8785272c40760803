------------------------------- MODULE Notary -------------------------------
(***************************************************************************)
(* checker.py: the notary.  It knows nothing of the search; it reads a     *)
(* problem and a plan and lists what is wrong, as pairs of a reason code   *)
(* and the operation or resource it is about.  Each check of               *)
(* _constraint_violations is one operator.  Only hard violations are       *)
(* listed: a missed due date is a KPI and changes no verdict.              *)
(***************************************************************************)
EXTENDS Lanes, Ledger

Codes(code, S) == {<<code, o>> : o \in S}

\* _duration_violation: exact, min and preemptive durations.
DurationHolds(p, o, r) ==
  LET cals == Staffed(p, CalendarsOf(r.post, r.crew, r.tools \cup p.tools[o]))
  IN CASE p.policy[o] = "exact"      -> r.end - r.start = p.dur[o]
       [] p.policy[o] = "min"        -> r.end - r.start >= p.dur[o]
       [] p.policy[o] = "preemptive" ->
            OpenMinutes(p, cals, r.start, r.end) = p.dur[o]

Durations(p, plan) ==
  Codes("INVALID_DURATION", {o \in DOMAIN plan :
    ~(plan[o].start < plan[o].end /\ DurationHolds(p, o, plan[o]))})

Coverage(p, plan) == Codes("PARTIAL_COVERAGE", p.ops \ DOMAIN plan)

\* _skills_and_eligibility; a permit must cover the whole visit.
CrewFits(p, o, r) ==
  NeedsCrew(p, o) => /\ r.crew # NoCrew
                     /\ Skilled(p, o, r.crew)
                     /\ r.end <= p.permit[o][r.crew]

Eligibility(p, plan) ==
  LET D == DOMAIN plan
  IN      Codes("ELIGIBLE_CENTER_MISMATCH", {o \in D : ~Eligible(p, o, plan[o].post)})
     \cup Codes("SKILL_MISMATCH", {o \in D : ~CrewFits(p, o, plan[o])})
     \cup Codes("AUX_MISSING", {o \in D : ~(p.tools[o] \subseteq plan[o].tools)})

\* _precedence: the predecessor is planned, and both lags hold.
LinkHolds(plan, o, l) ==
  /\ l.pred \in DOMAIN plan
  /\ plan[o].start >= plan[l.pred].end + l.min
  /\ l.max # NoMax => plan[o].start <= plan[l.pred].end + l.max

Precedence(p, plan) ==
  Codes("PRECEDENCE_BROKEN", {o \in DOMAIN plan :
    \E l \in p.links[o] : ~LinkHolds(plan, o, l)})

\* _resource_overlaps: setup counts as occupancy on posts, crews and tools.
Overlaps(p, plan) ==
       Codes("CENTER_OVERLAP", {c \in DOMAIN p.cap :
         Excess(plan, AtPost(plan, c), p.cap[c])})
  \cup Codes("CREW_OVERLAP", {w \in DOMAIN p.crewCap :
         Excess(plan, OfCrew(plan, w), p.crewCap[w])})
  \cup Codes("AUX_OVERLAP", {x \in DOMAIN p.toolCap :
         Excess(plan, OnTool(plan, x), p.toolCap[x])})

\* A mutant: only the first and the last minute of a visit are looked at.
CalendarFitsAtEnds(p, o, r, cal) ==
  cal \in p.unattended \/ (Open(p, cal, OccStart(r)) /\ Open(p, cal, r.end - 1))

\* _calendar_fit: a preemptive visit only needs its setup in one open stretch.
CalendarFits(p, o, r, cal) ==
  \/ cal \in p.unattended
  \/ /\ p.cal[cal] # {}
     /\ InMergedWindows(p, cal, OccStart(r), IF p.policy[o] = "preemptive"
                                              THEN r.start ELSE r.end)

Windows(p, plan) ==
  LET D == DOMAIN plan
      cals(o) == CalendarsOf(plan[o].post, plan[o].crew, plan[o].tools \cup p.tools[o])
  IN      Codes("HORIZON_VIOLATION", {o \in D :
            OccStart(plan[o]) < 0 \/ plan[o].end > p.horizon})
     \cup Codes("WINDOW_BROKEN", {o \in D :
            plan[o].end > p.latest[o] \/ OccStart(plan[o]) < p.floor[o]})
     \cup Codes("CALENDAR_BROKEN", {o \in D :
            \E cal \in cals(o) : ~CalendarFits(p, o, plan[o], cal)})

\* _due_release_spares and _spare_receipts, of the spares that are used up.  A
\* spare with receipts is stock over time: what is there from p.stock[s].from on,
\* what has been received, and what was drawn before, or in the same minute by an
\* operation of a lower number.
StockLeft(p, plan, s, o) ==
  LET t == plan[o].start
      drawn == {q \in Drawers(p, plan, s) :
                  plan[q].start < t \/ (plan[q].start = t /\ q <= o)}
      received == {x \in p.stock[s].receipts : x[1] <= t}
  IN (IF p.stock[s].from <= t THEN p.stock[s].qty ELSE 0)
       + MapThenSumSet(LAMBDA x : x[2], received) - Cardinality(drawn)

Spares(p, plan) ==
  LET consumed == DOMAIN p.stock \ Rotables(p)
      flat(s) == p.stock[s].receipts = {}
      late(o, s) == p.stock[s].qty <= 0 \/ plan[o].start < p.stock[s].from
  IN      Codes("SPARE_UNAVAILABLE", {o \in DOMAIN plan : \E s \in p.needs[o] \cap consumed :
            IF flat(s) THEN late(o, s) ELSE StockLeft(p, plan, s, o) < 0})
     \cup Codes("SPARE_UNAVAILABLE", {OfSpare(s) : s \in {x \in consumed :
            flat(x) /\ Cardinality(Drawers(p, plan, x)) > p.stock[x].qty}})

\* A mutant: an absent cell is filled whatever the policy and the state.
ExpectedSetupAnyway(p, put) == IF put.expected = NoCell THEN 0 ELSE put.expected

\* missing_setup = "zero" fills an absent cell, except out of "idle".
ExpectedSetup(p, put) ==
  IF put.expected = NoCell /\ p.missing = "zero" /\ put.from # Idle
  THEN 0 ELSE put.expected

SetupsAt(p, plan, c) ==
  LET at   == ColourLanes(p, c, plan, AtPost(plan, c)).at
      sure == {o \in DOMAIN at : ~at[o].ambiguous}
      exp(o) == ExpectedSetup(p, at[o])
  IN      Codes("SETUP_MISMATCH", (DOMAIN at) \ sure)
     \cup Codes("MISSING_SETUP", {o \in sure : exp(o) = NoCell})
     \cup Codes("SETUP_MISMATCH", {o \in sure : exp(o) # NoCell /\ plan[o].setup # exp(o)})

Setups(p, plan) == UNION {SetupsAt(p, plan, c) : c \in DOMAIN p.cap}

\* _frozen: an immutable row is in the plan, at its post, time, setup and crew.
SameSlot(r, f) ==
  /\ <<r.post, r.start, r.end, r.setup>> = <<f.post, f.start, f.end, f.setup>>
  /\ f.crew # NoCrew => r.crew = f.crew

Frozen(p, plan) ==
  Codes("FROZEN_MOVED", {o \in DOMAIN p.frozen :
    ~(o \in DOMAIN plan /\ SameSlot(plan[o], p.frozen[o]))})

-----------------------------------------------------------------------------
(***************************************************************************)
(* model.py, _frozen_batch_issues: the immutable rows must be a feasible   *)
(* fragment on their own.  The notary validates the problem again before   *)
(* it reads the plan.                                                      *)
(***************************************************************************)
FrozenTools(p) == [o \in DOMAIN p.frozen |-> [p.frozen[o] EXCEPT !.tools = p.tools[o]]]

FrozenSetupHolds(p, c) ==
  LET at == ColourLanes(p, c, p.frozen, AtPost(p.frozen, c)).at
  IN \A o \in DOMAIN at :
       IF at[o].expected = NoCell
       THEN p.missing = "zero" /\ p.frozen[o].setup = 0
       ELSE p.frozen[o].setup = at[o].expected

FrozenFragmentOk(p) ==
  LET f == FrozenTools(p)
      D == DOMAIN f
  IN /\ \A o \in D : /\ Eligible(p, o, f[o].post)
                     /\ NeedsCrew(p, o) /\ f[o].crew # NoCrew => Skilled(p, o, f[o].crew)
                     /\ f[o].start < f[o].end
                     /\ DurationHolds(p, o, f[o])
                     /\ \A l \in p.links[o] : l.pred \in D => LinkHolds(f, o, l)
                     /\ \A cal \in CalendarsOf(f[o].post, f[o].crew, f[o].tools) :
                          CalendarFits(p, o, f[o], cal)
     /\ Overlaps(p, f) = {}
     /\ \A c \in DOMAIN p.cap : FrozenSetupHolds(p, c)

\* _constraint_violations.
Findings(p, plan) ==
       Durations(p, plan) \cup Coverage(p, plan) \cup Eligibility(p, plan)
  \cup Precedence(p, plan) \cup Overlaps(p, plan) \cup Windows(p, plan)
  \cup Spares(p, plan) \cup Setups(p, plan) \cup Frozen(p, plan)
  \cup LedgerFindings(p, plan)

\* check_plan.
Violations(p, plan) ==
  IF FrozenFragmentOk(p) THEN Findings(p, plan) ELSE {<<"INVALID_PROBLEM", 0>>}
=============================================================================
