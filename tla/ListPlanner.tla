----------------------------- MODULE ListPlanner -----------------------------
(***************************************************************************)
(* planner.py, domain_greed: the list scheduler behind GREED, EDD and ATC. *)
(* Frozen rows are laid down first.  Then, one at a time, the first ready  *)
(* operation of the list that has a slot anywhere is placed in its best    *)
(* slot, until nothing can be placed.                                      *)
(*                                                                         *)
(* The scan of one gap for a start (_slot_from_lane) moves a start forward *)
(* past whatever is in its way.  It is given here by its result: the least *)
(* start that nothing is in the way of.                                    *)
(***************************************************************************)
EXTENDS Verdict

CONSTANTS Problems,   \* the problems a run may be given
          Order       \* "GREED", "EDD" or "ATC"

ASSUME ProblemsAssumption == \A p \in Problems : ProblemOk(p)

VARIABLES problem,    \* the problem of this run
          placed,     \* operation -> row, for the operations placed so far
          done        \* the loop has ended

vars == <<problem, placed, done>>

-----------------------------------------------------------------------------
(***************************************************************************)
(* What bounds a slot of operation o, given the rows already placed.       *)
(***************************************************************************)
\* All operations that must precede f, directly or not.
Ancestors(p, f) ==
  LET up[n \in Nat] == IF n = 0 THEN Preds(p, f) ELSE UNION {Preds(p, q) : q \in up[n - 1]}
  IN Preds(p, f) \cup UNION {up[n] : n \in 1..Cardinality(p.ops)}

\* _frozen_ancestor_deadlines: o must end before every frozen row it leads to.
Deadlines(p, o) ==
  {p.frozen[f].start : f \in {g \in DOMAIN p.frozen : o \in Ancestors(p, g)}}

\* A mutant: the least lag after a predecessor is not waited for.
AfterPredecessorsOnly(p, rows, o, s) == \A l \in p.links[o] : s >= rows[l.pred].end

\* _slot_bounds: what must be over before the work of o starts, and the cap
\* that max lags put on the start.
AfterPredecessors(p, rows, o, s) ==
  \A l \in p.links[o] : s >= rows[l.pred].end + l.min

WithinMaxLag(p, rows, o, s) ==
  \A l \in p.links[o] : l.max # NoMax => s <= rows[l.pred].end + l.max

SparesReady(p, o, s) == \A x \in p.needs[o] : s >= p.stock[x].from

\* _last_on_crew, _last_on_aux: the visits of the same crew or tools, except
\* those that start after a deadline of o.
Earlier(p, rows, o, w) ==
  {q \in OfCrew(rows, w) \cup UNION {OnTool(rows, x) : x \in p.tools[o]} :
     \A d \in Deadlines(p, o) : rows[q].start < d}

-----------------------------------------------------------------------------
(***************************************************************************)
(* _lane_gaps: the open intervals of a post.  The gap before a row ends at *)
(* its occupancy and has that row as follower; the gap after the last row  *)
(* of a lane, and an unopened lane, have no limit.                         *)
(***************************************************************************)
NoLimit == -1

Gap(lane, after, limit, from, next) ==
  [lane |-> lane, after |-> after, limit |-> limit, from |-> from, next |-> next]

Gaps(p, rows, c) ==
  LET S   == AtPost(rows, c)
      col == ColourLanes(p, c, rows, S)
      before(o) == Gap(col.at[o].lane,
                       IF col.at[o].prev = NoOp THEN 0 ELSE rows[col.at[o].prev].end,
                       OccStart(rows[o]), col.at[o].from, o)
      last(k) == Gap(k, col.lanes[k + 1].free, NoLimit, col.lanes[k + 1].state, NoOp)
      fresh == Gap(Len(col.lanes), 0, NoLimit, Idle, NoOp)
  IN IF col.overflow THEN {}
     ELSE      {before(o) : o \in S}
          \cup {last(k) : k \in 0..(Len(col.lanes) - 1)}
          \cup (IF Len(col.lanes) < p.cap[c] THEN {fresh} ELSE {})

\* A mutant: the setup that the next row was written with is not looked at.
FollowerIgnored(p, rows, o, g) == g.next = NoOp \/ g.next \in DOMAIN rows

\* _follower_setup_holds: the follower's written setup is right after o too.
FollowerHolds(p, rows, o, g) ==
  \/ g.next = NoOp
  \/ LET f == rows[g.next]
         cell == Cell(p, f.post, p.state[o], p.state[g.next])
     IN IF cell = NoCell THEN p.missing = "zero" /\ f.setup = 0
                         ELSE f.setup = cell

\* The setup a row of o needs in gap g; NoCell when the gap is unusable.
GapSetup(p, o, c, g) ==
  LET cell == Cell(p, c, g.from, p.state[o])
  IN IF cell = NoCell /\ p.missing = "zero" THEN 0 ELSE cell

-----------------------------------------------------------------------------
(***************************************************************************)
(* _slot_from_lane: the rows of o that fit in gap g of post c with crew w. *)
(***************************************************************************)
\* The cursor: the occupancy starts after the release of o, the row before the
\* gap, and the last visits of the crew and the tools.
NotBefore(p, rows, o, r, g) ==
  /\ \A b \in {0, p.floor[o], g.after} : OccStart(r) >= b
  /\ \A q \in Earlier(p, rows, o, r.crew) : OccStart(r) >= rows[q].end

\* The ends a visit that starts at s may have: one, unless a preemptive visit
\* runs out of open minutes before the horizon.
Ends(p, o, cals, s) ==
  IF p.policy[o] # "preemptive" THEN {s + p.dur[o]}
  ELSE {e \in (s + 1)..p.horizon :
          /\ OpenMinutes(p, Staffed(p, cals), s, e) = p.dur[o]
          /\ \A r \in Staffed(p, cals) : Open(p, r, e - 1)}

\* _advance_calendar: the occupancy lies in one window of every calendar; of
\* a preemptive visit, only its setup.  Of the unattended resources only those
\* whose calendar is empty are let off.
InCalendars(p, o, cals, s, setup) ==
  \A r \in cals :
    \/ r \in p.unattended /\ p.cal[r] = {}
    \/ InWindow(p, r, s - setup, IF p.policy[o] = "preemptive" THEN s ELSE s + p.dur[o])

\* A mutant: only the rows at the post can be in the way.
UnblockedAtPost(p, rows, o, r) ==
  LET all == With(rows, o, r) IN ~Excess(all, AtPost(all, r.post), p.cap[r.post])

\* _conflict_end has no answer: the post has room, and no row that meets the
\* candidate shares its crew or a tool.
Unblocked(p, rows, o, r) ==
  LET all == With(rows, o, r)
  IN /\ ~Excess(all, AtPost(all, r.post), p.cap[r.post])
     /\ \A q \in DOMAIN rows :
          Meets(r, rows[q]) => /\ rows[q].crew # r.crew
                               /\ r.tools \cap rows[q].tools = {}

\* _lane_choice_matches: colouring the post anew puts o where it was meant.
LaneMatches(p, rows, o, r, g) ==
  LET all == With(rows, o, r)
      col == ColourLanes(p, r.post, all, AtPost(all, r.post))
  IN /\ ~col.overflow
     /\ col.at[o].lane = g.lane
     /\ col.at[o].from = g.from

Fits(p, rows, o, r, g) ==
  LET cals == CalendarsOf(r.post, r.crew, p.tools[o])
  IN /\ AfterPredecessors(p, rows, o, r.start)
     /\ WithinMaxLag(p, rows, o, r.start)
     /\ SparesReady(p, o, r.start)
     /\ NotBefore(p, rows, o, r, g)
     /\ InCalendars(p, o, cals, r.start, r.setup)
     /\ r.end \in Ends(p, o, cals, r.start)
     /\ r.end <= p.horizon
     /\ \A d \in Deadlines(p, o) : r.end <= d
     /\ g.limit # NoLimit => r.end <= g.limit
     /\ Unblocked(p, rows, o, r)
     /\ LaneMatches(p, rows, o, r, g)

-----------------------------------------------------------------------------
(***************************************************************************)
(* _best_slot: over the eligible posts and crews and the gaps, the slot    *)
(* with the least start; then the least post, crew and lane.               *)
(***************************************************************************)
EligibleCrews(p, o) ==
  {w \in DOMAIN p.crewCap : NeedsCrew(p, o) => Skilled(p, o, w)}

SlotsIn(p, rows, o, c, w, g) ==
  LET setup == GapSetup(p, o, c, g)
      cals  == CalendarsOf(c, w, p.tools[o])
      row(s, e) == Row(c, w, p.tools[o], s, e, setup)
  IN IF setup = NoCell \/ ~FollowerHolds(p, rows, o, g) THEN {}
     ELSE {[row |-> r, lane |-> g.lane] : r \in
            {r \in UNION {{row(s, e) : e \in Ends(p, o, cals, s)} : s \in 0..p.horizon} :
               Fits(p, rows, o, r, g)}}

Slots(p, rows, o) ==
  UNION {UNION {SlotsIn(p, rows, o, c, w, g) : g \in Gaps(p, rows, c)} :
           c \in p.posts[o], w \in EligibleCrews(p, o)}

Better(a, b) ==
  \/ a.row.start < b.row.start
  \/ /\ a.row.start = b.row.start
     /\ \/ a.row.post < b.row.post
        \/ /\ a.row.post = b.row.post
           /\ \/ a.row.crew < b.row.crew
              \/ a.row.crew = b.row.crew /\ a.lane < b.lane

Best(S) == {a \in S : \A b \in S \ {a} : Better(a, b)}

-----------------------------------------------------------------------------
(***************************************************************************)
(* The loop.  The rank of an operation stands for the due date and the     *)
(* sequence (GREED), with the priority between them (EDD).  The index of   *)
(* ATC is a float that changes as rows are placed: any ready operation may *)
(* come first.                                                             *)
(***************************************************************************)
Ready(p, rows) == {o \in p.ops \ DOMAIN rows : Preds(p, o) \subseteq DOMAIN rows}

Ahead(p, q, o) ==
  /\ Order # "ATC"
  /\ \/ p.rank[q] < p.rank[o]
     \/ p.rank[q] = p.rank[o] /\ q < o

\* A mutant: the frozen rows are not laid down.
InitUnseeded == problem \in Problems /\ placed = [o \in {} |-> {}] /\ done = FALSE

Init == /\ problem \in Problems
        /\ placed = problem.frozen
        /\ done = FALSE

\* A mutant: a slot found before the loop is not sought again.
PlaceWhereFirstFound(o) ==
  /\ ~done
  /\ o \in Ready(problem, placed)
  /\ LET seen == IF Preds(problem, o) \subseteq DOMAIN problem.frozen THEN problem.frozen ELSE placed
     IN \E a \in Best(Slots(problem, seen, o)) : placed' = With(placed, o, a.row)
  /\ UNCHANGED <<problem, done>>

Place(o) ==
  /\ ~done
  /\ o \in Ready(problem, placed)
  /\ \A q \in Ready(problem, placed) :
        Ahead(problem, q, o) => Slots(problem, placed, q) = {}
  /\ \E a \in Best(Slots(problem, placed, o)) : placed' = With(placed, o, a.row)
  /\ UNCHANGED <<problem, done>>

Stop ==
  /\ ~done
  /\ \A o \in Ready(problem, placed) : Slots(problem, placed, o) = {}
  /\ done' = TRUE
  /\ UNCHANGED <<problem, placed>>

Next == (\E o \in problem.ops : Place(o)) \/ Stop

Spec == Init /\ [][Next]_vars

-----------------------------------------------------------------------------
(***************************************************************************)
(* Properties.                                                             *)
(***************************************************************************)
TypeOK ==
  /\ DOMAIN problem.frozen \subseteq DOMAIN placed
  /\ DOMAIN placed \subseteq problem.ops
  /\ done \in BOOLEAN

\* What the list planner reads of the rows frozen by the dispatcher: their
\* post, crew and time, and that what must precede them ends before they start.
\* It does not read their tools, nor a lag before them, nor whether a row
\* written by hand would pass the notary on its own.
FrozenPlain(p) ==
  \A f \in DOMAIN p.frozen :
    /\ p.tools[f] = {}
    /\ \A l \in p.links[f] : l.pred \notin DOMAIN p.frozen => l.min = 0 /\ l.max = NoMax
    /\ SparesReady(p, f, p.frozen[f].start)
    /\ OccStart(p.frozen[f]) >= p.floor[f]
    /\ p.frozen[f].end <= p.latest[f]
    /\ CrewFits(p, f, p.frozen[f])
    /\ OccStart(p.frozen[f]) >= 0 /\ p.frozen[f].end <= p.horizon

\* What the list planner does not read never binds: a permit that expires, a
\* latest finish, the quantity of a spare, the stock of a hard pool.
NothingRunsOut(p) ==
  /\ \A o \in p.ops : /\ p.latest[o] >= p.horizon
                      /\ \A w \in DOMAIN p.crewCap :
                           p.permit[o][w] = NoPermit \/ p.permit[o][w] >= p.horizon
  /\ \A pool \in p.pools : ~pool.hard
  /\ \A s \in DOMAIN p.stock : /\ p.stock[s].receipts = {} /\ ~p.stock[s].rotable
                               /\ p.stock[s].qty >= Cardinality({o \in p.ops : s \in p.needs[o]})

\* The planner, as model validation, fills a cell out of idle that is not given;
\* the notary does not.
IdleCellsGiven(p) ==
  p.missing = "zero" =>
    \A c \in DOMAIN p.cap, o \in p.ops : Cell(p, c, Idle, p.state[o]) # NoCell

\* What the list planner publishes, at any moment of its loop, is short of
\* operations at worst: the notary finds nothing wrong with the rows there are,
\* except that on a post with several lanes a row placed later may take the lane,
\* and so the setup, of one placed before.
Unfinished(p, rows) ==
       Codes("PARTIAL_COVERAGE", p.ops \ DOMAIN rows)
  \cup Codes("PRECEDENCE_BROKEN", {f \in DOMAIN p.frozen : ~(Preds(p, f) \subseteq DOMAIN rows)})

Recoloured(p, rows) == UNION {SetupsAt(p, rows, c) : c \in {x \in DOMAIN p.cap : p.cap[x] > 1}}

\* This is promised where the planner reads all that binds.
ReadsAllThatBinds(p) ==
  FrozenFragmentOk(p) /\ FrozenPlain(p) /\ NothingRunsOut(p) /\ IdleCellsGiven(p)

OnlyShortOfOperations ==
  ReadsAllThatBinds(problem)
    => LET rows == Published(problem, placed)
       IN Violations(problem, rows) \subseteq Unfinished(problem, placed) \cup Recoloured(problem, rows)

\* A visit that the loop placed keeps its links in whatever is placed later.
PlacedInOrder ==
  \A o \in DOMAIN placed \ DOMAIN problem.frozen :
    \A l \in problem.links[o] : LinkHolds(placed, o, l)

\* A visit that the loop placed never meets another on its crew or its tools,
\* on whatever post and in whatever order the two were placed.
CrewsAndToolsApart ==
  \A o \in DOMAIN placed \ DOMAIN problem.frozen, q \in DOMAIN placed :
    q # o /\ Meets(placed[o], placed[q])
      => placed[q].crew # placed[o].crew /\ placed[o].tools \cap placed[q].tools = {}

\* The loop never takes a post over its capacity, between frozen rows either.
PostsWithinCapacity ==
  \A c \in DOMAIN problem.cap :
    Excess(placed, AtPost(placed, c), problem.cap[c])
      => Excess(problem.frozen, AtPost(problem.frozen, c), problem.cap[c])

=============================================================================
