------------------------------- MODULE Replan -------------------------------
(***************************************************************************)
(* planner.py and events.py: a plan is issued, something happens in the    *)
(* shop, and the plan is made again around what is still good.             *)
(*                                                                         *)
(* While planning, the steps are those of ListPlanner.  The finished       *)
(* candidate is published (wrap) and becomes the issued plan.  A typed     *)
(* disruption, a command that frees named operations, or an inspection     *)
(* then changes the card, frees some visits, freezes the others, and       *)
(* planning starts again.  The card that is carried on is the one the last *)
(* outcome holds.                                                          *)
(***************************************************************************)
EXTENDS ListPlanner

CONSTANTS Events,      \* the events that may happen
          Limits,      \* the ends of the protected window a caller may pass
          MaxRounds    \* bound on the number of events

VARIABLES phase,       \* "planning" or "issued"
          issued,      \* the last published plan
          rounds,      \* how many events there were
          replan,      \* what the last event did: see NoReplan
          closures     \* the closures reported so far, <<calendar, from, to>>

allVars == <<problem, placed, done, phase, issued, rounds, replan, closures>>

NoRows   == [o \in {} |-> {}]
Unprotected == -1      \* the caller passed no `now`

\* hits: the visits the event broke; free: those to be planned again; base:
\* the plan that was issued before; sound: whether there was nothing against it but
\* missing visits; window: the end of the protected window.
NoReplan == [hits |-> {}, free |-> {}, base |-> NoRows, sound |-> TRUE, window |-> Unprotected]

\* The notary reports a frozen visit whose predecessor is missing, and one whose
\* link to another is broken besides, by the same finding.
Sound(p, plan) ==
  /\ Violations(p, plan) \subseteq Unfinished(p, plan)
  /\ \A o \in DOMAIN plan : \A l \in p.links[o] : l.pred \in DOMAIN plan => LinkHolds(plan, o, l)

-----------------------------------------------------------------------------
(***************************************************************************)
(* What the events are: an unknown id or an empty interval is an error.    *)
(***************************************************************************)
EventOk(p, e) ==
  \/ /\ e.kind = "POST_DOWN"
     /\ e.on \in DOMAIN p.cap /\ e.from \in Int /\ e.to \in Int /\ e.from < e.to
  \/ /\ e.kind = "CREW_ABSENT"
     /\ e.on \in DOMAIN p.crewCap /\ e.from \in Int /\ e.to \in Int /\ e.from < e.to
  \/ e.kind = "PART_DELAY" /\ e.on \in DOMAIN p.stock /\ e.at \in Int
  \/ e.kind = "DURATION_OVERRUN" /\ e.minutes \in Nat \ {0}
  \/ e.kind \in {"URGENT_JOB", "INSPECTION"} /\ e.ops \subseteq DOMAIN p.dur
  \/ e.kind = "RELEASE"

ASSUME EventsAssumption == /\ \A p \in Problems, e \in Events : EventOk(p, e)
                           /\ MaxRounds \in Nat

-----------------------------------------------------------------------------
(***************************************************************************)
(* events.py: apply_disruption.                                            *)
(***************************************************************************)
\* A mutant: only windows that lie within the closure are taken away.
PunchWhole(ws, a, b) == {w \in ws : w[1] < a \/ b < w[2]}

\* _punch: the windows without [a, b).
Punch(ws, a, b) ==
  LET lesser(x, y) == IF x < y THEN x ELSE y
      greater(x, y) == IF x > y THEN x ELSE y
      left  == {<<w[1], lesser(w[2], a)>> : w \in ws}
      right == {<<greater(w[1], b), w[2]>> : w \in ws}
  IN {w \in left \cup right : w[1] < w[2]}

Closure(e) == <<IF e.kind = "POST_DOWN" THEN PostCal(e.on) ELSE CrewCal(e.on), e.from, e.to>>

IsClosure(e) == e.kind \in {"POST_DOWN", "CREW_ABSENT"}

\* RELEASE stands for the disrupt command, which changes nothing in the card.
Apply(p, e) ==
  CASE IsClosure(e)                -> [p EXCEPT !.cal[Closure(e)[1]] = Punch(@, e.from, e.to)]
    [] e.kind = "PART_DELAY"       -> [p EXCEPT !.stock[e.on].from = e.at,
                                                !.stock[e.on].receipts = {x \in @ : x[1] >= e.at}]
    [] e.kind = "DURATION_OVERRUN" -> [p EXCEPT !.dur[e.on] = e.minutes]
    [] e.kind = "URGENT_JOB"       -> [p EXCEPT !.ops = @ \cup e.ops]
    [] e.kind = "RELEASE"          -> p

\* An event that cannot be applied is an error and changes nothing.
Applies(p, e) ==
  CASE e.kind = "DURATION_OVERRUN" -> e.on \in p.ops /\ e.minutes # p.dur[e.on]
    [] e.kind = "URGENT_JOB"       -> e.ops \cap p.ops = {}
    [] e.kind = "RELEASE"          -> e.ops \subseteq p.ops
    [] OTHER                       -> TRUE

\* A mutant: the setup before a start is not hit.
WorkHits(r, a, b) == r.start < b /\ r.end > a

\* A mutant: touching is hitting.
HitsClosed(r, a, b) == OccStart(r) <= b /\ r.end >= a

OccupancyHits(r, a, b) == OccStart(r) < b /\ r.end > a

\* affected_operation_ids: what the plan can no longer keep.
Affected(p, e, plan) ==
  LET D == DOMAIN plan
  IN CASE e.kind = "POST_DOWN"        -> {o \in D : plan[o].post = e.on /\ OccupancyHits(plan[o], e.from, e.to)}
       [] e.kind = "CREW_ABSENT"      -> {o \in D : plan[o].crew = e.on /\ OccupancyHits(plan[o], e.from, e.to)}
       [] e.kind = "PART_DELAY"       -> {o \in D : e.on \in p.needs[o] /\ plan[o].start < e.at}
       [] e.kind = "DURATION_OVERRUN" -> {e.on}
       [] e.kind \in {"URGENT_JOB", "RELEASE"} -> e.ops

-----------------------------------------------------------------------------
(***************************************************************************)
(* planner.py: _replan_lane_local.                                         *)
(***************************************************************************)
\* protected_operation_ids: visits that start before the end of the window.
Protected(plan, limit) ==
  IF limit = Unprotected THEN {} ELSE {o \in DOMAIN plan : plan[o].start < limit}

\* A mutant: the rest of the lane is not freed.
LaneTailKept(p, plan, hits) == hits \cap DOMAIN plan

\* _lane_disruption_release: the hits, the rest of their lanes, and the direct
\* successors.  A plan that overflows a post has no lanes to follow.
LaneTail(p, plan, hits) ==
  LET col(c) == ColourLanes(p, c, plan, AtPost(plan, c))
      tail(d) == LET c == plan[d].post
                 IN {o \in AtPost(plan, c) : /\ col(c).at[o].lane = col(c).at[d].lane
                                             /\ OccStart(plan[o]) >= OccStart(plan[d])}
  IN IF \E c \in DOMAIN p.cap : col(c).overflow THEN {}
     ELSE UNION {tail(d) : d \in hits \cap DOMAIN plan}

Release(p, plan, hits) ==
  hits \cup LaneTail(p, plan, hits) \cup {o \in p.ops : Preds(p, o) \cap hits # {}}

\* extract_frozen_from_planned: the row without its tools and its lane.
AsFrozen(r) == Row(r.post, r.crew, {}, r.start, r.end, r.setup)

\* A mutant: only what the dispatcher froze is frozen again.
FreezeNothingNew(p, plan, free) == [o \in DOMAIN p.frozen \ free |-> p.frozen[o]]

FreezeRest(p, plan, free) ==
  [o \in (DOMAIN p.frozen \cup DOMAIN plan) \ free |->
     IF o \in DOMAIN p.frozen THEN p.frozen[o] ELSE AsFrozen(plan[o])]

\* A mutant: the visit may start again where it did.
RestartAtStart(p, plan, hits) ==
  [o \in DOMAIN p.floor |-> IF o \in hits \cap DOMAIN plan
                            THEN Max({p.floor[o], plan[o].start}) ELSE p.floor[o]]

\* _restart_after_broken_slot: the broken slot is consumed.
RestartFloor(p, plan, hits) ==
  [o \in DOMAIN p.floor |-> IF o \in hits \cap DOMAIN plan
                            THEN Max({p.floor[o], plan[o].end}) ELSE p.floor[o]]

\* The disrupt command passes no window.
Disrupt(e, limit) ==
  /\ phase = "issued"
  /\ rounds < MaxRounds
  /\ Applies(problem, e)
  /\ e.kind = "RELEASE" => limit = Unprotected
  /\ LET revised == Apply(problem, e)
         hits    == Affected(problem, e, issued)
         free    == Release(revised, issued, hits) \ (Protected(issued, limit) \ hits)
         patched == [revised EXCEPT !.floor  = RestartFloor(revised, issued, hits),
                                    !.frozen = FreezeRest(revised, issued, free)]
     IN /\ problem' = patched
        /\ placed'  = patched.frozen
        /\ replan'  = [hits |-> hits, free |-> free, base |-> issued,
                       sound |-> Sound(problem, issued), window |-> limit]
  /\ done' = FALSE
  /\ phase' = "planning"
  /\ rounds' = rounds + 1
  /\ closures' = IF IsClosure(e) THEN closures \cup {Closure(e)} ELSE closures
  /\ UNCHANGED issued

-----------------------------------------------------------------------------
(***************************************************************************)
(* replan_after_inspection: the revealed branch is inserted and existing   *)
(* operations may be rewired to follow it.  Every issued visit is frozen,  *)
(* and the card is validated again: if the frozen rows no longer agree     *)
(* with it the inspection is refused and nothing changes.                  *)
(***************************************************************************)
Inspect(e) ==
  /\ phase = "issued"
  /\ rounds < MaxRounds
  /\ e.kind = "INSPECTION"
  /\ e.ops \cap problem.ops = {}
  /\ LET revised == [problem EXCEPT !.ops = @ \cup e.ops,
                                    !.links = [o \in DOMAIN @ |->
                                      IF o \in DOMAIN e.rewire THEN e.rewire[o] ELSE @[o]]]
         patched == [revised EXCEPT !.frozen = FreezeRest(revised, issued, {})]
     IN /\ FrozenFragmentOk(patched)
        /\ problem' = patched
        /\ placed'  = patched.frozen
        /\ replan'  = [hits |-> {}, free |-> e.ops, base |-> issued,
                       sound |-> Sound(problem, issued), window |-> Unprotected]
  /\ done' = FALSE
  /\ phase' = "planning"
  /\ rounds' = rounds + 1
  /\ UNCHANGED <<issued, closures>>

-----------------------------------------------------------------------------
ReplanInit ==
  /\ Init
  /\ phase = "planning"
  /\ issued = NoRows
  /\ rounds = 0
  /\ replan = NoReplan
  /\ closures = {}

Plan == /\ phase = "planning"
        /\ Next
        /\ UNCHANGED <<phase, issued, rounds, replan, closures>>

\* A mutant: what the loop has so far is issued.
IssueEarly == /\ phase = "planning"
              /\ issued' = Published(problem, placed)
              /\ phase' = "issued"
              /\ UNCHANGED <<problem, placed, done, rounds, replan, closures>>

\* A mutant: an answer that leaves visits out is held back.
IssueComplete == /\ phase = "planning"
                 /\ done
                 /\ DOMAIN placed = problem.ops
                 /\ issued' = Published(problem, placed)
                 /\ phase' = "issued"
                 /\ UNCHANGED <<problem, placed, done, rounds, replan, closures>>

Issue == /\ phase = "planning"
         /\ done
         /\ issued' = Published(problem, placed)
         /\ phase' = "issued"
         /\ UNCHANGED <<problem, placed, done, rounds, replan, closures>>

ReplanNext ==
  \/ Plan
  \/ Issue
  \/ \E e \in Events, limit \in Limits : e.kind # "INSPECTION" /\ Disrupt(e, limit)
  \/ \E e \in Events : Inspect(e)

ReplanSpec == ReplanInit /\ [][ReplanNext]_allVars

\* Planning is sequential code and runs to its end; events need not come.
FairReplanSpec == ReplanSpec /\ WF_allVars(Plan) /\ WF_allVars(Issue)

-----------------------------------------------------------------------------
(***************************************************************************)
(* Properties.                                                             *)
(***************************************************************************)
Accepted == phase = "issued" /\ Violations(problem, issued) = {}

ReplanTypeOK ==
  /\ TypeOK
  /\ phase \in {"planning", "issued"}
  /\ phase = "issued" => done /\ DOMAIN issued = DOMAIN placed
  /\ rounds \in 0..MaxRounds
  /\ replan.hits \subseteq problem.ops
  /\ replan.free \subseteq problem.ops

\* A row that the dispatcher froze without a crew gets one each time that it is
\* published.
FrozenWithoutCrew(o) == o \in DOMAIN problem.frozen /\ problem.frozen[o].crew = NoCrew

\* An answer to an event moves no visit that the event did not free, whether
\* or not the notary accepts it: visits of other lanes, protected visits and
\* rows the dispatcher froze keep post, time and, if they were frozen with one,
\* crew.
OnlyFreedVisitsMove ==
  phase = "issued" =>
    \A o \in DOMAIN replan.base \ replan.free :
      LET was == AsFrozen(replan.base[o])
      IN /\ o \in DOMAIN issued
         /\ SameSlot(issued[o], IF FrozenWithoutCrew(o) THEN [was EXCEPT !.crew = NoCrew] ELSE was)

\* The broken slot is consumed: a visit that was hit and is planned again does
\* not touch its post, crew and tools before its old end.
BrokenSlotConsumed ==
  phase = "issued" =>
    \A o \in replan.hits \cap DOMAIN replan.base \cap DOMAIN issued :
      OccStart(issued[o]) >= replan.base[o].end

\* The rows that the notary complains of when the card changes under them.
Broken(p, plan) == {v[2] : v \in Findings(p, plan)} \cap DOMAIN plan

\* affected_operation_ids misses no visit that the event has broken: what is
\* not in it could stay frozen.
NoBrokenVisitMissed ==
  Accepted => \A e \in Events :
    e.kind # "INSPECTION" /\ Applies(problem, e) =>
      Broken(Apply(problem, e), issued) \subseteq Affected(problem, e, issued)

\* A closure hits only visits that it has broken, for visits without a pause.
ClosureHitsAreBroken ==
  Accepted => \A e \in {x \in Events : IsClosure(x)} :
    {o \in Affected(problem, e, issued) : problem.policy[o] # "preemptive"}
      \subseteq Broken(Apply(problem, e), issued)

\* No accepted plan works on a post or with a crew in an interval that was
\* reported closed, whatever was reported before and after.
NoWorkInClosures ==
  Accepted => \A k \in closures, o \in DOMAIN issued :
    /\ problem.policy[o] # "preemptive"
    /\ k[1] \in CalendarsOf(issued[o].post, issued[o].crew, issued[o].tools)
    => ~OccupancyHits(issued[o], k[2], k[3])

\* A visit stays frozen although one before it on its post was freed, either as
\* a direct successor of a broken visit or while it was itself protected.
PostIsCut ==
  LET base == replan.base
  IN \E o, q \in DOMAIN base :
       /\ o \notin replan.free /\ q \in replan.free
       /\ base[o].post = base[q].post /\ OccStart(base[q]) < OccStart(base[o])
       /\ Preds(problem, q) \cap replan.hits # {} \/ base[o].start < replan.window

\* Every post has one lane.
OneLane(p) == \A c \in DOMAIN p.cap : p.cap[c] = 1

\* What is frozen of a sound plan is a feasible fragment on its own, round after
\* round: the tails that are freed are long enough for setups to stay right, and
\* no visit that the event broke is frozen.
FrozenStaysFeasible ==
  rounds > 0 /\ replan.sound /\ OneLane(problem) /\ ~PostIsCut => FrozenFragmentOk(problem)

\* Every event is answered by a plan.
EventsAreAnswered == phase = "planning" ~> phase = "issued"
=============================================================================
