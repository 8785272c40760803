-------------------------------- MODULE Shop --------------------------------
(***************************************************************************)
(* The repair shop as the planner and the notary see it: a problem, a row  *)
(* of a plan, the half-open occupancy of a row, and calendars.             *)
(*                                                                         *)
(* Time is whole minutes from the start of the planning horizon.  A        *)
(* problem p is a record of functions over its operations, posts (work     *)
(* centres), crews and tools (auxiliary resources); a plan is a function   *)
(* from the operations it assigns to rows.  Operations, posts and crews    *)
(* are numbered, so that their order is the order of their identifiers.    *)
(***************************************************************************)
EXTENDS Integers, FiniteSets

NoOp     == 0    \* no previous operation on a lane
NoCrew   == 0    \* crew_id is None
NoLane   == -1   \* lane is None
NoCell   == -1   \* the setup matrix has no such cell
NoPermit == -1   \* the crew lacks a required skill
NoMax    == -1   \* max_lag_min is None
Idle     == "idle"

\* The function f with the value v at k, whether or not k was in its domain.
With(f, k, v) == [x \in (DOMAIN f) \cup {k} |-> IF x = k THEN v ELSE f[x]]

-----------------------------------------------------------------------------
(***************************************************************************)
(* Rows.  The setup of a row precedes its start and occupies the post, the *)
(* crew and the tools just as the work does.                               *)
(***************************************************************************)
Row(post, crew, tools, start, end, setup) ==
  [post |-> post, crew |-> crew, tools |-> tools, start |-> start,
   end |-> end, setup |-> setup, lane |-> NoLane]

OccStart(r) == r.start - r.setup

\* The half-open occupancy [OccStart, end) contains minute t.
Live(r, t) == OccStart(r) <= t /\ t < r.end

Meets(r, s) == OccStart(r) < s.end /\ OccStart(s) < r.end

AtPost(plan, c) == {o \in DOMAIN plan : plan[o].post = c}
OfCrew(plan, w) == {o \in DOMAIN plan : plan[o].crew = w}
OnTool(plan, x) == {o \in DOMAIN plan : x \in plan[o].tools}

LiveAt(plan, S, t) == {o \in S : Live(plan[o], t)}

\* A mutant: the setup before a start is not counted as occupancy.
ExcessOfWork(plan, S, cap) ==
  \E o \in S : LET t == plan[o].start
               IN /\ Live(plan[o], t)
                  /\ Cardinality({q \in S : plan[q].start <= t /\ t < plan[q].end}) > cap

\* excess_arrivals: some row of S arrives when more than cap rows are open.
\* An arrival of a nonempty interval is open at its own first minute.
Excess(plan, S, cap) ==
  \E o \in S : LET t == OccStart(plan[o])
               IN Live(plan[o], t) /\ Cardinality(LiveAt(plan, S, t)) > cap

-----------------------------------------------------------------------------
(***************************************************************************)
(* Calendars.  p.cal[r] is the set of windows <<from, to>> of a resource;  *)
(* one without a calendar has a single window around the whole horizon.    *)
(* p.unattended are the resources that keep running when their staffed     *)
(* calendar is closed.  Posts, crews and tools are keyed apart by kind.    *)
(***************************************************************************)
PostCal(c) == <<"post", c>>
CrewCal(w) == <<"crew", w>>
ToolCal(x) == <<"tool", x>>

CalendarsOf(post, crew, tools) ==
  {PostCal(post)} \cup (IF crew = NoCrew THEN {} ELSE {CrewCal(crew)})
                  \cup {ToolCal(x) : x \in tools}

Staffed(p, cals) == cals \ p.unattended

Open(p, r, t) == \E w \in p.cal[r] : w[1] <= t /\ t < w[2]

\* One window of r holds [a, b): the planner reads windows one at a time.
InWindow(p, r, a, b) == \E w \in p.cal[r] : w[1] <= a /\ b <= w[2]

\* merge_windows first: [a, b) may run across touching windows.
InMergedWindows(p, r, a, b) == \A t \in a..(b - 1) : Open(p, r, t)

\* open_minutes: the minutes of [a, b) that lie in every one of the calendars.
OpenMinutes(p, cals, a, b) ==
  Cardinality({t \in a..(b - 1) : \A r \in cals : Open(p, r, t)})

-----------------------------------------------------------------------------
(***************************************************************************)
(* Setup cells and eligibility.                                            *)
(***************************************************************************)
Cell(p, c, from, to) == p.setup[c][from][to]

\* The skills of crew w cover operation o; a post takes o when it is listed
\* for o and accepts the unit type (both are folded into p.posts).
Skilled(p, o, w)  == p.permit[o][w] # NoPermit
Eligible(p, o, c) == c \in p.posts[o]
NeedsCrew(p, o)   == o \in p.skilled

Preds(p, o) == {l.pred : l \in p.links[o]}

-----------------------------------------------------------------------------
(***************************************************************************)
(* What model validation (model.py) lets through.  The functions of a      *)
(* problem may tell of visits that are not on the card yet.                *)
(***************************************************************************)
ProblemFields ==
  {"horizon", "ops", "dur", "policy", "state", "links", "floor", "latest", "needs",
   "stock", "job", "unit", "pools", "posts", "permit", "skilled", "tools", "cap",
   "crewCap", "toolCap", "cal", "unattended", "setup", "missing", "frozen", "rank"}

RowOk(p, r) ==
  /\ DOMAIN r = {"post", "crew", "tools", "start", "end", "setup", "lane"}
  /\ r.post \in DOMAIN p.cap /\ r.crew \in DOMAIN p.crewCap \cup {NoCrew}
  /\ r.tools \subseteq DOMAIN p.toolCap
  /\ r.start \in Int /\ r.end \in Int /\ r.start < r.end
  /\ r.setup \in Nat

\* A frozen row names neither a lane nor tools.
FrozenRowOk(p, r) == RowOk(p, r) /\ r.lane = NoLane /\ r.tools = {}

SpareOk(x) == /\ DOMAIN x = {"qty", "from", "receipts", "rotable", "lag"}
              /\ x.qty \in Nat /\ x.from \in Int

ProblemOk(p) ==
  LET visits == DOMAIN p.dur
      states == {Idle} \cup {p.state[o] : o \in visits}
  IN /\ DOMAIN p = ProblemFields
     /\ IsFiniteSet(visits) /\ visits \subseteq Nat \ {NoOp}
     /\ p.ops \subseteq visits
     /\ p.horizon \in Nat
     /\ p.dur \in [visits -> Nat \ {0}]
     /\ p.policy \in [visits -> {"exact", "min", "preemptive"}]
     /\ p.floor \in [visits -> Int] /\ p.latest \in [visits -> Int]
     /\ \A o \in visits : p.posts[o] \subseteq DOMAIN p.cap /\ p.tools[o] \subseteq DOMAIN p.toolCap
     /\ \A o \in visits, w \in DOMAIN p.crewCap : p.permit[o][w] \in Int
     /\ \A s \in DOMAIN p.stock : SpareOk(p.stock[s])
     /\ \A c \in DOMAIN p.cap : /\ p.cap[c] \in Nat \ {0}
                                /\ PostCal(c) \in DOMAIN p.cal
                                /\ \A from \in states, o \in visits :
                                     Cell(p, c, from, p.state[o]) \in Nat \cup {NoCell}
     /\ DOMAIN p.crewCap \subseteq Nat \ {NoCrew}
     /\ \A w \in DOMAIN p.crewCap : p.crewCap[w] \in Nat \ {0} /\ CrewCal(w) \in DOMAIN p.cal
     /\ \A x \in DOMAIN p.toolCap : p.toolCap[x] \in Nat \ {0} /\ ToolCal(x) \in DOMAIN p.cal
     /\ \A k \in DOMAIN p.cal : p.cal[k] \subseteq Int \X Int
     /\ DOMAIN p.frozen \subseteq p.ops
     /\ \A f \in DOMAIN p.frozen : FrozenRowOk(p, p.frozen[f])
=============================================================================
