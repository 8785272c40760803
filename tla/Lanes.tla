-------------------------------- MODULE Lanes --------------------------------
(***************************************************************************)
(* lane_setup.py: colouring the rows of one post into its parallel lanes,  *)
(* so that each lane has its own chain of setup states.                    *)
(*                                                                         *)
(* A colouring in progress is a record: the lanes opened so far, in index  *)
(* order, each with the minute it becomes free, its last operation and its *)
(* setup state; what was written for the rows handled; and whether a row   *)
(* did not fit.                                                            *)
(***************************************************************************)
EXTENDS Shop, Sequences, SequencesExt

Dawn == -1000    \* datetime.min: before every occupancy of a bounded horizon

Before(plan, a, b) ==
  LET x == plan[a]
      y == plan[b]
  IN  \/ OccStart(x) < OccStart(y)
      \/ OccStart(x) = OccStart(y) /\ x.end < y.end
      \/ OccStart(x) = OccStart(y) /\ x.end = y.end /\ a < b

LastOf(plan, S) == CHOOSE o \in S : \A q \in S \ {o} : Before(plan, q, o)

IsExplicit(p, c, plan, S) ==
  p.cap[c] > 1 /\ \A o \in S : plan[o].lane # NoLane

IsMixed(p, c, plan, S) ==
  /\ p.cap[c] > 1
  /\ ~IsExplicit(p, c, plan, S)
  /\ \E o \in S : plan[o].lane # NoLane

IdleLane == [free |-> Dawn, last |-> NoOp, state |-> Idle]

EmptyColouring == [lanes |-> <<>>, at |-> [o \in {} |-> {}], overflow |-> FALSE]

\* The row o goes to lane k (0-based, as in the code), after what k held.
Take(p, c, plan, o, k, ambiguous, acc) ==
  LET old == IF k < Len(acc.lanes) THEN acc.lanes[k + 1] ELSE IdleLane
      new == [free |-> plan[o].end, last |-> o, state |-> p.state[o]]
      put == [lane |-> k, prev |-> old.last, from |-> old.state,
              expected |-> Cell(p, c, old.state, p.state[o]),
              ambiguous |-> ambiguous]
  IN [acc EXCEPT !.lanes = IF k < Len(@) THEN [@ EXCEPT ![k + 1] = new]
                                          ELSE Append(@, new),
                 !.at = With(@, o, put)]

\* Every row names its lane: a lane out of range or still busy is refused.
ExplicitStep(p, c, plan, o, acc) ==
  LET k == plan[o].lane
  IN IF k >= p.cap[c] \/ acc.lanes[k + 1].free > OccStart(plan[o])
     THEN [acc EXCEPT !.at = With(@, o, [lane |-> k, prev |-> NoOp, from |-> "",
                                         expected |-> NoCell, ambiguous |-> TRUE])]
     ELSE Take(p, c, plan, o, k, FALSE, acc)

\* A mutant: a lane may not be used in the very minute it becomes free.
ReusableLater(acc, occ) == {k \in 0..(Len(acc.lanes) - 1) : acc.lanes[k + 1].free < occ}

Reusable(acc, occ) == {k \in 0..(Len(acc.lanes) - 1) : acc.lanes[k + 1].free <= occ}

\* The states from which o could start: those of the free lanes, and idle when
\* a lane is free and another may still be opened.
CandidateStates(p, c, acc, occ) ==
  LET free == Reusable(acc, occ)
  IN {acc.lanes[k + 1].state : k \in free}
       \cup (IF free # {} /\ Len(acc.lanes) < p.cap[c] THEN {Idle} ELSE {})

\* No lane is named: the lane free for longest, else a new one, else overflow.
ImplicitStep(p, c, plan, o, guess, acc) ==
  LET occ  == OccStart(plan[o])
      free == Reusable(acc, occ)
      best == CHOOSE k \in free : \A j \in free :
                 \/ acc.lanes[k + 1].free < acc.lanes[j + 1].free
                 \/ acc.lanes[k + 1].free = acc.lanes[j + 1].free /\ k <= j
      unsure == guess \/ Cardinality(CandidateStates(p, c, acc, occ)) > 1
  IN IF free # {} THEN Take(p, c, plan, o, best, unsure, acc)
     ELSE IF Len(acc.lanes) < p.cap[c]
          THEN Take(p, c, plan, o, Len(acc.lanes), unsure, acc)
          ELSE [acc EXCEPT !.overflow = TRUE]

\* _colour_lanes on the rows S of post c, in order of occupancy.
ColourLanes(p, c, plan, S) ==
  LET start == IF IsExplicit(p, c, plan, S)
               THEN [EmptyColouring EXCEPT !.lanes = [k \in 1..p.cap[c] |-> IdleLane]]
               ELSE EmptyColouring
      step(o, acc) == IF IsExplicit(p, c, plan, S)
                      THEN ExplicitStep(p, c, plan, o, acc)
                      ELSE ImplicitStep(p, c, plan, o, IsMixed(p, c, plan, S), acc)
  IN MapThenFoldSet(step, start, LAMBDA o : o, LAMBDA T : LastOf(plan, T), S)

\* ignore_explicit: the canonical colouring, whatever lanes the rows name.
Bare(plan) == [o \in DOMAIN plan |-> [plan[o] EXCEPT !.lane = NoLane]]

\* stamp_canonical_lanes: on every parallel post the rows without a lane get
\* the canonical one; a row that does not fit stays without.
StampLanes(p, plan) ==
  LET canon(c) == ColourLanes(p, c, Bare(plan), AtPost(plan, c)).at
      stamp(o) == LET c == plan[o].post
                  IN IF /\ p.cap[c] > 1
                        /\ plan[o].lane = NoLane
                        /\ o \in DOMAIN canon(c)
                     THEN [plan[o] EXCEPT !.lane = canon(c)[o].lane]
                     ELSE plan[o]
  IN [o \in DOMAIN plan |-> stamp(o)]
=============================================================================
