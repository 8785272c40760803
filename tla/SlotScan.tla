------------------------------ MODULE SlotScan ------------------------------
(***************************************************************************)
(* planner.py, _slot_from_lane and _advance_calendar: the search of one    *)
(* gap for a start.  A cursor moves forward: to the next start that the    *)
(* calendars take, past whatever blocks the candidate, or by one minute    *)
(* when the post would colour it into another lane.  ListPlanner gives the *)
(* search by its result; here the walk is compared with it.                *)
(***************************************************************************)
EXTENDS ListPlanner

CONSTANTS Tries,    \* 256 in the code: the tries of either search
          Stride    \* 30 in the code: the step when no window takes a start

ASSUME TriesAssumption == Tries \in Nat /\ Stride \in Nat

NoStart == -1

-----------------------------------------------------------------------------
(***************************************************************************)
(* _advance_calendar.                                                      *)
(***************************************************************************)
Fit(p, o) == IF p.policy[o] = "preemptive" THEN 0 ELSE p.dur[o]

\* A mutant: the windows are not read in time order, and a later one comes first.
FittedLate(p, r, s, setup, fit) ==
  LET starts == {t \in {Max({w[1] + setup, s}) : w \in p.cal[r]} :
                   InWindow(p, r, t - setup, t + fit)}
  IN IF starts = {} THEN NoStart ELSE Max(starts)

\* The start from s on that the first window of r that can take it gives.
Fitted(p, r, s, setup, fit) ==
  LET starts == {t \in {Max({w[1] + setup, s}) : w \in p.cal[r]} :
                   InWindow(p, r, t - setup, t + fit)}
  IN IF starts = {} THEN NoStart ELSE Min(starts)

\* The calendars that are read; an empty one of an unattended resource is passed
\* over.
Series(p, o, c, w) == {r \in CalendarsOf(c, w, p.tools[o]) : p.cal[r] # {}}

Shut(p, o, c, w) ==
  \E r \in CalendarsOf(c, w, p.tools[o]) : p.cal[r] = {} /\ r \notin p.unattended

\* They are read in this order: the post's, the crew's, those of the tools.
FirstRead(S, c, w) ==
  CHOOSE r \in S : /\ PostCal(c) \in S => r = PostCal(c)
                   /\ PostCal(c) \notin S /\ CrewCal(w) \in S => r = CrewCal(w)

\* The first calendar that does not take the start as it is moves it on.
Advance(p, o, c, w, setup, from) ==
  LET series == Series(p, o, c, w)
      fit == Fit(p, o)
      moved(s) == {r \in series : Fitted(p, r, s, setup, fit) # s}
      next(s) == Fitted(p, FirstRead(moved(s), c, w), s, setup, fit)
      walk[n \in 0..Tries] ==
        [s \in Nat |->
           IF n = 0 THEN NoStart
           ELSE IF moved(s) = {} THEN s
           ELSE IF next(s) # NoStart THEN walk[n - 1][next(s)]
           ELSE IF s + Stride > p.horizon THEN NoStart ELSE walk[n - 1][s + Stride]]
      free == Max({from, setup})
  IN IF Shut(p, o, c, w) THEN NoStart
     ELSE IF series = {} THEN (IF free + fit <= p.horizon THEN free ELSE NoStart)
     ELSE walk[Tries][from]

-----------------------------------------------------------------------------
(***************************************************************************)
(* _conflict_end: when what is in the way of r ends.                       *)
(***************************************************************************)
Releases(p, rows, r) ==
  LET S == AtPost(rows, r.post)
      met == {rows[q].end : q \in {x \in S : Meets(r, rows[x])}}
  IN IF met = {} /\ S # {} THEN {Min({rows[q].end : q \in S})} ELSE met

Sharing(rows, r) ==
  {q \in DOMAIN rows : /\ Meets(r, rows[q])
                       /\ rows[q].crew = r.crew \/ r.tools \cap rows[q].tools # {}}

\* The ends of what is in the way; the last of them counts.
Blockers(p, rows, o, r) ==
  LET all == With(rows, o, r)
      full == Excess(all, AtPost(all, r.post), p.cap[r.post])
      first == IF full /\ Releases(p, rows, r) # {} THEN {Min(Releases(p, rows, r))} ELSE {}
  IN first \cup {rows[q].end : q \in Sharing(rows, r)}

-----------------------------------------------------------------------------
(***************************************************************************)
(* _slot_from_lane: the set of the row found, or the empty set.            *)
(***************************************************************************)
FirstCursor(p, rows, o, w, g, setup) ==
  LET rowsBefore == Earlier(p, rows, o, w)
  IN Max(     {0, p.floor[o] + setup, g.after + setup}
         \cup {rows[l.pred].end + l.min : l \in p.links[o]}
         \cup {p.stock[x].from : x \in p.needs[o]}
         \cup {rows[q].end + setup : q \in rowsBefore}
         \cup {setup})

Scan(p, rows, o, c, w, g) ==
  LET setup == GapSetup(p, o, c, g)
      cals  == CalendarsOf(c, w, p.tools[o])
      tooLate(r) == \/ r.end > p.horizon
                    \/ \E d \in Deadlines(p, o) : r.end > d
                    \/ g.limit # NoLimit /\ r.end > g.limit
      at(cursor) == Advance(p, o, c, w, setup, cursor)
      row(s) == Row(c, w, p.tools[o], s, Min(Ends(p, o, cals, s)), setup)
      next(s) == LET blockers == Blockers(p, rows, o, row(s))
                 IN IF blockers = {} THEN s + 1 ELSE Max(blockers) + setup
      try[n \in 0..Tries] ==
        [cursor \in Nat |->
           LET s == at(cursor)
           IN IF n = 0 THEN {}
              ELSE IF s = NoStart \/ ~WithinMaxLag(p, rows, o, s) THEN {}
              ELSE IF Ends(p, o, cals, s) = {} THEN try[n - 1][s + Stride]
              ELSE IF tooLate(row(s)) THEN {}
              ELSE IF Blockers(p, rows, o, row(s)) = {} /\ LaneMatches(p, rows, o, row(s), g)
                   THEN {row(s)}
              ELSE try[n - 1][Max({next(s), cursor + 1})]]
  IN try[Tries][FirstCursor(p, rows, o, w, g, setup)]

-----------------------------------------------------------------------------
\* Its links and spares can be read; model.py lets no other card through.
Scannable(p) ==
  \A o \in p.ops : /\ IsFiniteSet(p.links[o]) /\ \A l \in p.links[o] : l.min \in Int /\ l.max \in Int
                   /\ IsFiniteSet(p.needs[o]) /\ p.needs[o] \subseteq DOMAIN p.stock

\* The minutes at which a calendar of the slot opens.
Openings(p, o, c, w) == {v[1] : v \in UNION {p.cal[r] : r \in CalendarsOf(c, w, p.tools[o])}}

\* A post with one lane, with rows that keep apart and begin within the horizon.
OneAtATime(p, rows, c) ==
  /\ p.cap[c] = 1 /\ ~Excess(rows, AtPost(rows, c), 1)
  /\ \A q \in AtPost(rows, c) : OccStart(rows[q]) >= 0

\* A try for every opening, and at a post with one lane one for every visit that may
\* be in the way; where there are more lanes the cursor may go minute by minute.
TriesSuffice(p) ==
  \A o \in p.ops : \A c \in p.posts[o], w \in EligibleCrews(p, o) :
    /\ IsFiniteSet(Openings(p, o, c, w)) /\ Cardinality(Openings(p, o, c, w)) < Tries
    /\ \/ OneAtATime(p, p.frozen, c) /\ Cardinality(p.ops) <= Tries
       \/ p.horizon <= Tries

\* The walk stops at the least start that nothing is in the way of, and it finds
\* none just when there is none: no jump of the cursor passes over a start.
ScanFindsLeast ==
  \A o \in Ready(problem, placed) :
    \A c \in problem.posts[o], w \in EligibleCrews(problem, o) :
      \A g \in Gaps(problem, placed, c) :
        LET fits == {a.row : a \in SlotsIn(problem, placed, o, c, w, g)}
            usable == /\ GapSetup(problem, o, c, g) # NoCell
                      /\ FollowerHolds(problem, placed, o, g)
        IN usable => Scan(problem, placed, o, c, w, g)
                       = {r \in fits : \A q \in fits : r.start <= q.start}
=============================================================================
