----------------------------- MODULE ReplanProofs -----------------------------
(***************************************************************************)
(* What the list planner and the replanning around it keep, for every      *)
(* problem, in every order of the list, and whatever happens in the shop.  *)
(*                                                                         *)
(* The loop adds one row at a time and never changes one, so what holds    *)
(* between the rows that are there goes on to hold, and only the new row   *)
(* has to be looked at.  Its links were looked at when all predecessors    *)
(* were placed; a row that meets it was asked for its crew and tools, and  *)
(* meeting is mutual; and a post other than its own holds what it held.    *)
(*                                                                         *)
(* An event keeps a card that model validation accepts, and the rows it    *)
(* does not free become frozen rows.  Frozen rows stay as they are while   *)
(* the loop runs, and publishing a row changes its tools and its lane at   *)
(* most, and its crew if it names none: so what was not freed is where it  *)
(* was when the answer is issued.  What is kept of a sound plan passes     *)
(* model validation again: no row of it is one that the event broke, fewer *)
(* rows share no more, and on a post with one lane they are the first.     *)
(*                                                                         *)
(* The loop looks for a start with a cursor that jumps.  What is in the    *)
(* way of a start is in the way of every later one until it is over, and a *)
(* later start never ends earlier: no jump passes over a start that fits.  *)
(***************************************************************************)
EXTENDS Replan, SlotScan, OperatorProofs

-----------------------------------------------------------------------------
(***************************************************************************)
(* Adding one row to a plan.                                               *)
(***************************************************************************)
\* A post that did not get the row holds the rows that it held, and is over its
\* capacity just when it was.
LEMMA OtherPosts ==
  ASSUME NEW plan, NEW o, o \notin DOMAIN plan, NEW r, NEW c, r.post # c, NEW cap
  PROVE  LET all == With(plan, o, r)
         IN Excess(all, AtPost(all, c), cap) => Excess(plan, AtPost(plan, c), cap)
  <1>. DEFINE all == With(plan, o, r)
              S == AtPost(plan, c)
  <1>0. /\ DOMAIN all = DOMAIN plan \cup {o}
        /\ all[o] = r
        /\ \A x \in DOMAIN plan : all[x] = plan[x]
    BY DEF With
  <1>1. AtPost(all, c) = S
    <2>. HIDE DEF all
    <2>. QED
      BY <1>0 DEF AtPost
  <1>2. \A q \in S : all[q] = plan[q]
    <2>. HIDE DEF all
    <2>. QED
      BY <1>0 DEF AtPost
  <1>3. \A t : LiveAt(all, S, t) = LiveAt(plan, S, t)
    <2>. HIDE DEF all, S
    <2>. QED
      BY <1>2 DEF LiveAt
  <1>4. Excess(all, S, cap) => Excess(plan, S, cap)
    <2>. HIDE DEF all, S
    <2>. QED
      BY <1>2, <1>3 DEF Excess
  <1>. QED
    BY <1>1, <1>4

LEMMA MeetingIsMutual ==
  ASSUME NEW r, NEW s
  PROVE  Meets(r, s) <=> Meets(s, r)
  BY DEF Meets

-----------------------------------------------------------------------------
(***************************************************************************)
(* The slots of an operation.                                              *)
(***************************************************************************)
\* The rows of a plan of visits on the card, none of which names a lane.
PlacedRowOk(p, r) == RowOk(p, r) /\ r.lane = NoLane

RowsOk(p, rows) ==
  /\ DOMAIN rows \subseteq p.ops
  /\ \A o \in DOMAIN rows : PlacedRowOk(p, rows[o])

RowsOnCard(p, rows) ==
  /\ DOMAIN rows \subseteq p.ops
  /\ \A o \in DOMAIN rows : RowOk(p, rows[o])

LEMMA OnCard == \A p, rows : RowsOk(p, rows) => RowsOnCard(p, rows)
  BY DEF RowsOk, PlacedRowOk, RowsOnCard

LEMMA RowsAreUnnamed ==
  ASSUME NEW p, ProblemOk(p), NEW rows, RowsOk(p, rows), NEW S \in SUBSET DOMAIN rows
  PROVE  Unnamed(rows, S)
  <1>1. IsFiniteSet(DOMAIN p.dur) /\ S \subseteq DOMAIN p.dur /\ DOMAIN p.dur \subseteq Nat
    BY DEF ProblemOk, RowsOk
  <1>2. IsFiniteSet(S)
    BY <1>1, FS_Subset
  <1>3. \A o \in S : PlacedRowOk(p, rows[o])
    BY DEF RowsOk
  <1>. QED
    BY <1>1, <1>2, <1>3 DEF Unnamed, Timed, PlacedRowOk, RowOk, OccStart

\* A gap starts from the setup state of a visit, or from idle, and lies between
\* minutes.
LEMMA GapsTyped ==
  ASSUME NEW p, ProblemOk(p), NEW rows, RowsOk(p, rows), NEW c \in DOMAIN p.cap,
         NEW g \in Gaps(p, rows, c)
  PROVE  /\ g.from \in {Idle} \cup {p.state[o] : o \in DOMAIN p.dur}
         /\ g.after \in Int /\ g.limit \in Int
  <1>. DEFINE S == AtPost(rows, c)
              col == ColourLanes(p, c, rows, S)
              L == LanesOf(p, S)
              P == Put(p, c, S) \cup {}
  <1>1. S \in SUBSET DOMAIN rows /\ S \subseteq DOMAIN p.dur
    BY DEF AtPost, RowsOk, ProblemOk
  <1>2. p.cap[c] \in Int
    BY DEF ProblemOk
  <1>3. col \in Colourings(p, c, S, S, {})
    <2>. HIDE DEF S
    <2>. QED
      BY <1>1, <1>2, RowsAreUnnamed, ColouringTyped
  <1>. HIDE DEF col
  <1>4. /\ col.lanes \in Seq(L)
        /\ col.at \in UNION {[U -> P] : U \in SUBSET S}
        /\ ~col.overflow => DOMAIN col.at = S
    BY <1>3 DEF Colourings
  <1>5. SetupsOf(p, S) \subseteq {Idle} \cup {p.state[o] : o \in DOMAIN p.dur}
    BY <1>1 DEF SetupsOf
  <1>6. ~col.overflow
    BY DEF Gaps, col
  <1>7. \/ \E o \in S : g.from = col.at[o].from
        \/ \E k \in 0..(Len(col.lanes) - 1) : g.from = col.lanes[k + 1].state
        \/ g.from = Idle
    BY <1>6 DEF Gaps, Gap, col
  <1>8. ASSUME NEW o \in S
        PROVE  col.at[o].from \in SetupsOf(p, S)
    <2>1. col.at[o] \in P
      <3>. HIDE DEF P, S
      <3>. QED
        BY <1>4, <1>6
    <2>. QED
      BY <2>1 DEF Put
  <1>9. ASSUME NEW k \in 0..(Len(col.lanes) - 1)
        PROVE  col.lanes[k + 1].state \in SetupsOf(p, S)
    <2>1. k + 1 \in 1..Len(col.lanes)
      BY <1>4
    <2>2. col.lanes[k + 1] \in L
      <3>. HIDE DEF L, S
      <3>. QED
        BY <1>4, <2>1
    <2>. QED
      BY <2>2 DEF LanesOf
  <1>10. g.from \in {Idle} \cup {p.state[o] : o \in DOMAIN p.dur}
    BY <1>5, <1>7, <1>8, <1>9
  <1>11. \A o \in S : OccStart(rows[o]) \in Int /\ rows[o].end \in Int
    BY <1>1 DEF RowsOk, PlacedRowOk, RowOk, OccStart
  <1>12. \/ \E o \in S : /\ g.after = IF col.at[o].prev = NoOp THEN 0 ELSE rows[col.at[o].prev].end
                        /\ g.limit = OccStart(rows[o])
         \/ \E k \in 0..(Len(col.lanes) - 1) : g.after = col.lanes[k + 1].free /\ g.limit = NoLimit
         \/ g.after = 0 /\ g.limit = NoLimit
    BY <1>6 DEF Gaps, Gap, col
  <1>13. ASSUME NEW o \in S
         PROVE  col.at[o].prev \in S \cup {NoOp}
    <2>1. col.at[o] \in P
      <3>. HIDE DEF P, S
      <3>. QED
        BY <1>4, <1>6
    <2>. QED
      BY <2>1 DEF Put
  <1>14. ASSUME NEW k \in 0..(Len(col.lanes) - 1)
         PROVE  col.lanes[k + 1].free \in Int
    <2>1. k + 1 \in 1..Len(col.lanes)
      BY <1>4
    <2>2. col.lanes[k + 1] \in L
      <3>. HIDE DEF L, S
      <3>. QED
        BY <1>4, <2>1
    <2>. QED
      BY <2>2 DEF LanesOf
  <1>15. g.after \in Int /\ g.limit \in Int
    <2>. HIDE DEF S
    <2>. QED
      BY <1>11, <1>12, <1>13, <1>14 DEF NoLimit
  <1>. QED
    BY <1>10, <1>15

\* What a row of o keeps to whatever other rows there are.
FitsAlone(p, o, r) ==
  LET cals == CalendarsOf(r.post, r.crew, p.tools[o])
  IN /\ r.post \in p.posts[o] /\ r.crew \in EligibleCrews(p, o) /\ r.tools = p.tools[o]
     /\ SparesReady(p, o, r.start)
     /\ OccStart(r) >= 0 /\ OccStart(r) >= p.floor[o]
     /\ InCalendars(p, o, cals, r.start, r.setup)
     /\ r.end \in Ends(p, o, cals, r.start) /\ r.end <= p.horizon
     /\ \A d \in Deadlines(p, o) : r.end <= d

\* Its setup is that of a gap of its post, whose next row keeps its own.
FromGap(p, rows, o, r, g) ==
  /\ g \in Gaps(p, rows, r.post) /\ FollowerHolds(p, rows, o, g)
  /\ r.setup = GapSetup(p, o, r.post, g) /\ r.setup # NoCell

\* A chosen slot fits, and its row is one that model validation would accept.
LEMMA ChosenSlotFits ==
  ASSUME NEW p, ProblemOk(p), NEW rows, RowsOk(p, rows), NEW o \in p.ops,
         NEW a \in Best(Slots(p, rows, o))
  PROVE  \E g : /\ Fits(p, rows, o, a.row, g) /\ FromGap(p, rows, o, a.row, g)
                /\ FitsAlone(p, o, a.row)
                /\ PlacedRowOk(p, a.row)
  <1>1. a \in Slots(p, rows, o)
    BY DEF Best
  <1>2. PICK c \in p.posts[o], w \in EligibleCrews(p, o) :
          \E g \in Gaps(p, rows, c) : a \in SlotsIn(p, rows, o, c, w, g)
    BY <1>1 DEF Slots
  <1>3. PICK g \in Gaps(p, rows, c) : a \in SlotsIn(p, rows, o, c, w, g)
    BY <1>2
  <1>. DEFINE setup == GapSetup(p, o, c, g)
              cals  == CalendarsOf(c, w, p.tools[o])
  <1>4. PICK s \in 0..p.horizon : \E e \in Ends(p, o, cals, s) :
          /\ a.row = Row(c, w, p.tools[o], s, e, setup)
          /\ setup # NoCell
          /\ Fits(p, rows, o, a.row, g)
    <2>. HIDE DEF cals
    <2>. QED
      BY <1>3 DEF SlotsIn, cals
  <1>5. PICK e \in Ends(p, o, cals, s) :
          /\ a.row = Row(c, w, p.tools[o], s, e, setup)
          /\ setup # NoCell
          /\ Fits(p, rows, o, a.row, g)
    BY <1>4
  <1>50. FollowerHolds(p, rows, o, g)
    BY <1>3 DEF SlotsIn
  <1>6. /\ o \in DOMAIN p.dur /\ c \in DOMAIN p.cap /\ p.horizon \in Nat
        /\ p.dur[o] \in Nat \ {0} /\ w \in DOMAIN p.crewCap /\ p.tools[o] \subseteq DOMAIN p.toolCap
    BY DEF ProblemOk, EligibleCrews
  <1>7. e \in Int /\ s \in Int /\ s < e
    BY <1>6 DEF Ends
  <1>8. setup \in Nat
    <2>. DEFINE states == {Idle} \cup {p.state[x] : x \in DOMAIN p.dur}
    <2>1. \A from \in states : Cell(p, c, from, p.state[o]) \in Nat \cup {NoCell}
      BY <1>6 DEF ProblemOk
    <2>2. g.from \in states
      BY <1>6, GapsTyped
    <2>3. Cell(p, c, g.from, p.state[o]) \in Nat \cup {NoCell}
      <3>. HIDE DEF states
      <3>. QED
        BY <2>1, <2>2
    <2>. QED
      BY <1>5, <2>3 DEF GapSetup
  <1>. HIDE DEF setup, cals
  <1>9. /\ a.row.post = c /\ a.row.crew = w /\ a.row.start = s /\ a.row.end = e /\ a.row.setup = setup
        /\ a.row.lane = NoLane /\ a.row.tools = p.tools[o]
        /\ DOMAIN a.row = {"post", "crew", "tools", "start", "end", "setup", "lane"}
    BY <1>5 DEF Row
  <1>10. PlacedRowOk(p, a.row)
    BY <1>6, <1>7, <1>8, <1>9 DEF PlacedRowOk, RowOk
  <1>11. FitsAlone(p, o, a.row)
    BY <1>5, <1>9 DEF Fits, NotBefore, FitsAlone
  <1>12. FromGap(p, rows, o, a.row, g)
    BY <1>5, <1>50, <1>9 DEF FromGap, setup
  <1>. QED
    BY <1>5, <1>10, <1>11, <1>12

-----------------------------------------------------------------------------
(***************************************************************************)
(* Setups on posts with one lane.                                          *)
(***************************************************************************)
\* The setup that a row of o is written with is right after the visit x, or after
\* the lane was idle.
SetupFits(p, c, x, o, setup) ==
  LET cell == Cell(p, c, StateAfter(p, x), p.state[o])
  IN IF cell = NoCell THEN p.missing = "zero" /\ setup = 0 ELSE setup = cell

\* On a post with one lane every setup is right after the row it follows.
SetupsInTurn(p, rows) ==
  \A c \in DOMAIN p.cap : p.cap[c] = 1 =>
    \A o \in AtPost(rows, c), x \in AtPost(rows, c) \cup {NoOp} :
      Follows(rows, AtPost(rows, c), o, x) => SetupFits(p, c, x, o, rows[o].setup)

\* No post is over its capacity.
RoomOnPosts(p, rows) == \A c \in DOMAIN p.cap : ~Excess(rows, AtPost(rows, c), p.cap[c])

LEMMA RowsOneByOne ==
  ASSUME NEW p, ProblemOk(p), NEW rows, RowsOnCard(p, rows),
         NEW c, p.cap[c] = 1, ~Excess(rows, AtPost(rows, c), 1)
  PROVE  /\ OneByOne(rows, AtPost(rows, c))
         /\ ColourLanes(p, c, rows, AtPost(rows, c)) \in OnOneLane(p, c, rows, AtPost(rows, c), AtPost(rows, c))
  <1>. DEFINE S == AtPost(rows, c)
  <1>1. S \in SUBSET DOMAIN rows
    BY DEF AtPost
  <1>2. Timed(rows, S)
    <2>1. IsFiniteSet(DOMAIN p.dur) /\ S \subseteq DOMAIN p.dur /\ DOMAIN p.dur \subseteq Nat
      BY <1>1 DEF ProblemOk, RowsOnCard
    <2>2. IsFiniteSet(S)
      BY <2>1, FS_Subset
    <2>. QED
      BY <1>1, <2>1, <2>2 DEF Timed, RowsOnCard, RowOk, OccStart
  <1>3. NoOp \notin S
    BY <1>1 DEF RowsOnCard, ProblemOk
  <1>4. \A o \in S : OccStart(rows[o]) < rows[o].end
    BY <1>1 DEF RowsOnCard, RowOk, OccStart
  <1>5. OneByOne(rows, S)
    <2>. HIDE DEF S
    <2>. QED
      BY <1>2, <1>3, <1>4, NeverTwoAtOnce DEF S
  <1>. QED
    BY <1>5, OneLaneInTurn

\* A gap of a post with one lane lies between a row and the one it follows, or
\* after all of them.
GapIsBetween(p, rows, S, g) ==
  /\ g.lane = 0 /\ g.next \in S /\ g.limit = OccStart(rows[g.next])
  /\ \E x : /\ Follows(rows, S, g.next, x) /\ g.from = StateAfter(p, x)
            /\ x # NoOp => x \in S /\ g.after = rows[x].end

GapIsLast(p, rows, S, g) ==
  /\ g.lane = 0 /\ g.next = NoOp
  /\ S = {} => g.from = Idle
  /\ S # {} => \E x \in S : /\ g.after = rows[x].end /\ g.from = p.state[x]
                            /\ \A q \in S \ {x} : rows[q].end <= OccStart(rows[x])

LEMMA GapsOfOneLane ==
  ASSUME NEW p, NEW rows, NEW c, p.cap[c] = 1, NEW S, S = AtPost(rows, c), OneByOne(rows, S),
         NEW g \in Gaps(p, rows, c)
  PROVE  GapIsBetween(p, rows, S, g) \/ GapIsLast(p, rows, S, g)
  <1>. DEFINE col == ColourLanes(p, c, rows, S)
  <1>1. /\ ~col.overflow
        /\ \A o \in S : InTurn(p, c, rows, S, o, col.at[o])
        /\ IF S = {} THEN Len(col.lanes) = 0
           ELSE Len(col.lanes) = 1 /\ LeftBy(p, rows, S, col.lanes[1])
    BY OneLaneInTurn DEF OnOneLane
  <1>. HIDE DEF col
  <1>2. \/ \E o \in S : g = Gap(col.at[o].lane, IF col.at[o].prev = NoOp THEN 0 ELSE rows[col.at[o].prev].end,
                                OccStart(rows[o]), col.at[o].from, o)
        \/ \E k \in 0..(Len(col.lanes) - 1) :
             g = Gap(k, col.lanes[k + 1].free, NoLimit, col.lanes[k + 1].state, NoOp)
        \/ Len(col.lanes) < 1 /\ g = Gap(Len(col.lanes), 0, NoLimit, Idle, NoOp)
    BY <1>1 DEF Gaps, col
  <1>3. CASE \E o \in S : g = Gap(col.at[o].lane, IF col.at[o].prev = NoOp THEN 0 ELSE rows[col.at[o].prev].end,
                                  OccStart(rows[o]), col.at[o].from, o)
    <2>1. PICK o \in S : g = Gap(col.at[o].lane, IF col.at[o].prev = NoOp THEN 0 ELSE rows[col.at[o].prev].end,
                                  OccStart(rows[o]), col.at[o].from, o)
      BY <1>3
    <2>. DEFINE x == col.at[o].prev
    <2>2. Follows(rows, S, o, x) /\ col.at[o].from = StateAfter(p, x) /\ col.at[o].lane = 0
      BY <1>1 DEF InTurn
    <2>3. x # NoOp => x \in S
      BY <2>2 DEF Follows, OverBefore
    <2>4. /\ g.next = o /\ g.limit = OccStart(rows[o]) /\ g.from = col.at[o].from
          /\ g.lane = col.at[o].lane
          /\ x # NoOp => g.after = rows[x].end
      BY <2>1 DEF Gap
    <2>. HIDE DEF x
    <2>. QED
      BY <2>2, <2>3, <2>4 DEF GapIsBetween
  <1>4. CASE \E k \in 0..(Len(col.lanes) - 1) :
               g = Gap(k, col.lanes[k + 1].free, NoLimit, col.lanes[k + 1].state, NoOp)
    <2>1. S # {} /\ Len(col.lanes) = 1 /\ LeftBy(p, rows, S, col.lanes[1])
      BY <1>1, <1>4
    <2>2. g.next = NoOp /\ g.after = col.lanes[1].free /\ g.from = col.lanes[1].state /\ g.lane = 0
      BY <1>4, <2>1 DEF Gap
    <2>. QED
      BY <2>1, <2>2 DEF LeftBy, GapIsLast
  <1>5. CASE Len(col.lanes) < 1 /\ g = Gap(Len(col.lanes), 0, NoLimit, Idle, NoOp)
    <2>1. S = {} /\ g.next = NoOp /\ g.from = Idle /\ g.lane = 0
      BY <1>1, <1>5 DEF Gap
    <2>. QED
      BY <2>1 DEF GapIsLast
  <1>. QED
    BY <1>2, <1>3, <1>4, <1>5

\* A row put into such a gap is followed by the next row of the gap at most.
LEMMA OnlyNextFollows ==
  ASSUME NEW p, NEW rows, NEW S, OneByOne(rows, S), \A q \in S : OccStart(rows[q]) >= 0,
         NEW g, GapIsBetween(p, rows, S, g) \/ GapIsLast(p, rows, S, g),
         NEW all, NEW o, o \notin S, OneByOne(all, S \cup {o}),
         \A q \in S : OccStart(all[q]) = OccStart(rows[q]) /\ all[q].end = rows[q].end,
         OccStart(all[o]) >= g.after, g.limit # NoLimit => all[o].end <= g.limit,
         NEW q \in S, Follows(all, S \cup {o}, q, o)
  PROVE  q = g.next
  <1>1. /\ OccStart(all[o]) < all[o].end /\ all[o].end <= OccStart(all[q])
        /\ \A x \in S : all[x].end <= OccStart(all[q]) => all[x].end <= OccStart(all[o])
    BY DEF Follows, OverBefore, OneByOne
  <1>2. \A x \in S \cup {o} : OccStart(all[x]) \in Int /\ all[x].end \in Int /\ OccStart(all[x]) < all[x].end
    BY DEF OneByOne, Timed
  <1>3. \A x \in S \cup {o} : OccStart(all[x]) < all[x].end
    BY DEF OneByOne
  <1>4. CASE GapIsLast(p, rows, S, g)
    <2>1. PICK x \in S : /\ g.after = rows[x].end
                         /\ \A y \in S \ {x} : rows[y].end <= OccStart(rows[x])
      BY <1>4 DEF GapIsLast
    <2>2. all[x].end = g.after /\ all[q].end <= all[x].end
      BY <1>2, <1>3, <2>1
    <2>. QED
      BY <1>1, <1>2, <2>1, <2>2
  <1>5. CASE GapIsBetween(p, rows, S, g)
    <2>. DEFINE n == g.next
    <2>1. n \in S /\ all[o].end <= OccStart(all[n])
      BY <1>5 DEF GapIsBetween, NoLimit
    <2>2. SUFFICES ASSUME q # n PROVE FALSE
      OBVIOUS
    <2>3. PICK x : /\ Follows(rows, S, n, x)
                   /\ x # NoOp => x \in S /\ g.after = rows[x].end
      BY <1>5 DEF GapIsBetween
    <2>4. CASE all[n].end <= OccStart(all[q])
      BY <1>1, <1>2, <2>1, <2>4
    <2>5. CASE all[q].end <= OccStart(all[n])
      <3>1. q \in OverBefore(rows, S, n)
        BY <2>1, <2>5 DEF OverBefore
      <3>2. x \in S /\ x # NoOp /\ (q = x \/ rows[q].end <= OccStart(rows[x]))
        BY <2>3, <3>1 DEF Follows, OverBefore, OneByOne
      <3>3. all[q].end <= all[x].end
        BY <1>2, <3>2
      <3>4. all[x].end = g.after
        BY <2>3, <3>2
      <3>. QED
        BY <1>1, <1>2, <3>2, <3>3, <3>4
    <2>. QED
      BY <2>1, <2>2, <2>4, <2>5 DEF OneByOne
  <1>. QED
    BY <1>4, <1>5

\* A chosen slot leaves every setup right.
LEMMA SetupsStayInTurn ==
  ASSUME NEW p, ProblemOk(p), NEW rows, RowsOk(p, rows), NEW o \in p.ops \ DOMAIN rows, NEW r,
         PlacedRowOk(p, r), NEW g, Fits(p, rows, o, r, g), FromGap(p, rows, o, r, g),
         \A q \in DOMAIN rows : OccStart(rows[q]) >= 0, RoomOnPosts(p, rows), SetupsInTurn(p, rows)
  PROVE  SetupsInTurn(p, With(rows, o, r))
  <1>. DEFINE all == With(rows, o, r)
  <1>1. /\ DOMAIN all = DOMAIN rows \cup {o}
        /\ all[o] = r
        /\ \A q \in DOMAIN rows : all[q] = rows[q]
    BY DEF With
  <1>2. Unblocked(p, rows, o, r) /\ LaneMatches(p, rows, o, r, g) /\ OccStart(r) >= g.after
        /\ (g.limit # NoLimit => r.end <= g.limit)
    BY DEF Fits, NotBefore
  <1>3. ~Excess(all, AtPost(all, r.post), p.cap[r.post])
    BY <1>2 DEF Unblocked
  <1>4. LET col == ColourLanes(p, r.post, all, AtPost(all, r.post))
        IN col.at[o].from = g.from
    BY <1>2 DEF LaneMatches
  <1>. HIDE DEF all
  <1>5. RowsOk(p, all)
    BY <1>1 DEF RowsOk
  <1>6. SUFFICES ASSUME NEW c \in DOMAIN p.cap, p.cap[c] = 1,
                        NEW q \in AtPost(all, c), NEW y \in AtPost(all, c) \cup {NoOp},
                        Follows(all, AtPost(all, c), q, y)
                 PROVE  SetupFits(p, c, y, q, all[q].setup)
    BY DEF SetupsInTurn, all
  <1>. DEFINE S == AtPost(rows, c)
              now == AtPost(all, c)
  <1>7. CASE r.post # c
    <2>1. now = S /\ \A x \in S : all[x] = rows[x]
      BY <1>1, <1>7 DEF AtPost
    <2>. HIDE DEF now, S
    <2>2. Follows(rows, S, q, y)
      BY <1>6, <2>1, FollowsReadsTimes DEF now
    <2>. QED
      BY <1>6, <2>1, <2>2 DEF SetupsInTurn, now, S
  <1>8. CASE r.post = c
    <2>1. now = S \cup {o} /\ o \notin S /\ \A x \in S : all[x] = rows[x]
      BY <1>1, <1>8 DEF AtPost
    <2>2. OneByOne(rows, S) /\ OneByOne(all, now) /\ ColourLanes(p, c, all, now) \in OnOneLane(p, c, all, now, now)
      BY <1>3, <1>5, <1>6, <1>8, OnCard, RowsOneByOne DEF RoomOnPosts
    <2>3. CASE q = o
      <3>. DEFINE put == ColourLanes(p, c, all, now).at[o]
      <3>1. InTurn(p, c, all, now, o, put)
        BY <1>6, <2>2, <2>3 DEF OnOneLane
      <3>2. put.from = g.from
        BY <1>4, <1>8
      <3>. HIDE DEF put, now
      <3>3. put.prev = y
        BY <1>6, <2>2, <2>3, <3>1, FollowsOnlyOne DEF InTurn, now
      <3>4. g.from = StateAfter(p, y)
        BY <3>1, <3>2, <3>3 DEF InTurn
      <3>5. all[q].setup = GapSetup(p, o, c, g) /\ GapSetup(p, o, c, g) # NoCell
        BY <1>1, <1>8, <2>3 DEF FromGap
      <3>. QED
        BY <2>3, <3>4, <3>5 DEF GapSetup, SetupFits
    <2>4. CASE q # o /\ y # o
      <3>1. q \in S /\ y \in S \cup {NoOp} /\ all[q] = rows[q]
        BY <1>6, <2>1, <2>4
      <3>. HIDE DEF S, now
      <3>2. Follows(all, S, q, y)
        BY <1>6, <2>1, <2>2, <2>4, <3>1, FollowsNowOrThen DEF now
      <3>3. Follows(rows, S, q, y)
        BY <2>1, <3>1, <3>2, FollowsReadsTimes
      <3>. QED
        BY <1>6, <3>1, <3>3 DEF SetupsInTurn, S
    <2>5. CASE q # o /\ y = o
      <3>1. q \in S /\ all[q] = rows[q]
        BY <1>6, <2>1, <2>5
      <3>2. GapIsBetween(p, rows, S, g) \/ GapIsLast(p, rows, S, g)
        BY <1>6, <1>8, <2>2, GapsOfOneLane DEF FromGap
      <3>3. \A x \in S : OccStart(rows[x]) >= 0
        BY DEF AtPost
      <3>. HIDE DEF S, now
      <3>40. /\ OneByOne(rows, S) /\ OneByOne(all, S \cup {o}) /\ o \notin S
             /\ Follows(all, S \cup {o}, q, o)
        BY <1>6, <2>1, <2>2, <2>5 DEF now
      <3>41. /\ \A x \in S : OccStart(all[x]) = OccStart(rows[x]) /\ all[x].end = rows[x].end
             /\ OccStart(all[o]) >= g.after
             /\ g.limit # NoLimit => all[o].end <= g.limit
        BY <1>1, <1>2, <2>1
      <3>4. q = g.next
        BY <3>1, <3>2, <3>3, <3>40, <3>41, OnlyNextFollows
      <3>5. o # NoOp /\ q # NoOp
        BY <2>1, <2>2, <3>1 DEF OneByOne
      <3>6. rows[q].post = c
        BY <3>1 DEF S, AtPost
      <3>7. LET cell == Cell(p, c, p.state[o], p.state[q])
            IN IF cell = NoCell THEN p.missing = "zero" /\ rows[q].setup = 0
                                ELSE rows[q].setup = cell
        BY <3>4, <3>5, <3>6 DEF FromGap, FollowerHolds
      <3>. QED
        BY <2>5, <3>1, <3>5, <3>7 DEF SetupFits, StateAfter
    <2>. QED
      BY <2>3, <2>4, <2>5
  <1>. QED
    BY <1>7, <1>8

\* Model validation reads the frozen rows as the planner does.
LEMMA FrozenIsAsRead ==
  ASSUME NEW p, ProblemOk(p), ReadsAllThatBinds(p)
  PROVE  SameButLanes(p.frozen, FrozenTools(p))
  <1>1. /\ DOMAIN FrozenTools(p) = DOMAIN p.frozen
        /\ \A f \in DOMAIN p.frozen : FrozenTools(p)[f] = [p.frozen[f] EXCEPT !.tools = p.tools[f]]
    BY DEF FrozenTools
  <1>2. \A f \in DOMAIN p.frozen : /\ p.frozen[f].tools = {} /\ p.tools[f] = {}
                                   /\ DOMAIN p.frozen[f] = RowFields
    BY DEF ReadsAllThatBinds, FrozenPlain, ProblemOk, FrozenRowOk, RowOk, RowFields
  <1>3. \A f \in DOMAIN p.frozen : SameWork(p.frozen[f], FrozenTools(p)[f])
    BY <1>1, <1>2 DEF SameWork, RowFields
  <1>. QED
    BY <1>1, <1>3 DEF SameButLanes

\* And none is wrong where the loop starts.
LEMMA FrozenSetupsInTurn ==
  ASSUME NEW p, ProblemOk(p), ReadsAllThatBinds(p)
  PROVE  RoomOnPosts(p, p.frozen) /\ SetupsInTurn(p, p.frozen)
  <1>1. SameButLanes(p.frozen, FrozenTools(p))
    BY FrozenIsAsRead
  <1>2. RoomOnPosts(p, p.frozen)
    <2>1. Overlaps(p, p.frozen) = {}
      BY <1>1, OverlapsAreSame DEF ReadsAllThatBinds, FrozenFragmentOk
    <2>. QED
      BY <2>1 DEF Overlaps, Codes, RoomOnPosts
  <1>3. RowsOk(p, p.frozen)
    BY DEF ProblemOk, RowsOk, PlacedRowOk, FrozenRowOk
  <1>4. ASSUME NEW c \in DOMAIN p.cap, p.cap[c] = 1, NEW o \in AtPost(p.frozen, c),
               NEW x \in AtPost(p.frozen, c) \cup {NoOp}, Follows(p.frozen, AtPost(p.frozen, c), o, x)
        PROVE  SetupFits(p, c, x, o, p.frozen[o].setup)
    <2>. DEFINE S == AtPost(p.frozen, c)
                at == ColourLanes(p, c, p.frozen, S).at
    <2>1. OneByOne(p.frozen, S) /\ ColourLanes(p, c, p.frozen, S) \in OnOneLane(p, c, p.frozen, S, S)
      BY <1>2, <1>3, <1>4, OnCard, RowsOneByOne DEF RoomOnPosts
    <2>2. InTurn(p, c, p.frozen, S, o, at[o])
      BY <1>4, <2>1 DEF OnOneLane
    <2>3. o \in DOMAIN at
      BY <1>4, <2>1 DEF OnOneLane, Colourings
    <2>4. IF at[o].expected = NoCell THEN p.missing = "zero" /\ p.frozen[o].setup = 0
                                     ELSE p.frozen[o].setup = at[o].expected
      BY <1>4, <2>3 DEF ReadsAllThatBinds, FrozenFragmentOk, FrozenSetupHolds
    <2>. HIDE DEF at, S
    <2>5. at[o].prev = x
      BY <1>4, <2>1, <2>2, FollowsOnlyOne DEF InTurn, S
    <2>6. at[o].expected = Cell(p, c, StateAfter(p, x), p.state[o])
      BY <2>2, <2>5 DEF InTurn
    <2>. QED
      BY <2>4, <2>6 DEF SetupFits
  <1>. QED
    BY <1>2, <1>4 DEF SetupsInTurn

-----------------------------------------------------------------------------
(***************************************************************************)
(* The invariant of the loop.                                              *)
(***************************************************************************)
\* The frozen rows stay as they are.
FrozenStay == \A f \in DOMAIN problem.frozen : f \in DOMAIN placed /\ placed[f] = problem.frozen[f]

\* What the loop placed is where its operation may be, and no frozen row keeps it
\* from a minute that it was to end by.
PlacedFitsAlone ==
  \A o \in DOMAIN placed \ DOMAIN problem.frozen : FitsAlone(problem, o, placed[o])

\* Where the planner reads all that binds, no row makes the setup of another wrong
\* on a post with one lane.
SetupsFollow == ReadsAllThatBinds(problem) => SetupsInTurn(problem, placed)

PlannerInv ==
  /\ TypeOK
  /\ ProblemOk(problem)
  /\ RowsOk(problem, placed)
  /\ FrozenStay
  /\ PlacedFitsAlone
  /\ SetupsFollow
  /\ PlacedInOrder
  /\ CrewsAndToolsApart
  /\ PostsWithinCapacity

\* Where the loop starts, with the frozen rows laid down.
LEMMA SeededPlan ==
  ASSUME ProblemOk(problem), placed = problem.frozen, done = FALSE
  PROVE  PlannerInv
  BY FrozenSetupsInTurn DEF PlannerInv, TypeOK, ProblemOk, RowsOk, PlacedRowOk, FrozenRowOk, FrozenStay,
     PlacedFitsAlone, SetupsFollow, PlacedInOrder, CrewsAndToolsApart, PostsWithinCapacity

LEMMA PlannerInit == Init => PlannerInv
  BY ProblemsAssumption, SeededPlan DEF Init

LEMMA PlaceKeeps ==
  ASSUME PlannerInv, NEW o \in problem.ops, Place(o)
  PROVE  PlannerInv'
  <1>1. PICK a \in Best(Slots(problem, placed, o)) : placed' = With(placed, o, a.row)
    BY DEF Place
  <1>. DEFINE r == a.row
  <1>2. PICK g : /\ Fits(problem, placed, o, r, g) /\ FromGap(problem, placed, o, r, g)
                 /\ FitsAlone(problem, o, r) /\ PlacedRowOk(problem, r)
    BY ChosenSlotFits DEF PlannerInv
  <1>3. problem' = problem /\ done' = done
    BY DEF Place
  <1>4. o \notin DOMAIN placed /\ \A l \in problem.links[o] : l.pred \in DOMAIN placed
    BY DEF Place, Ready, Preds
  <1>5. /\ DOMAIN placed' = DOMAIN placed \cup {o}
        /\ placed'[o] = r
        /\ \A x \in DOMAIN placed : placed'[x] = placed[x]
    BY <1>1, <1>4 DEF With
  <1>. HIDE DEF r
  <1>6. TypeOK' /\ FrozenStay' /\ ProblemOk(problem)' /\ RowsOk(problem, placed)' /\ PlacedFitsAlone'
    <2>1. TypeOK' /\ FrozenStay' /\ ProblemOk(problem)'
      BY <1>3, <1>4, <1>5 DEF PlannerInv, TypeOK, FrozenStay
    <2>2. RowsOk(problem, placed)'
      BY <1>2, <1>3, <1>5 DEF PlannerInv, RowsOk
    <2>3. PlacedFitsAlone'
      BY <1>2, <1>3, <1>5 DEF PlannerInv, PlacedFitsAlone
    <2>. QED
      BY <2>1, <2>2, <2>3
  <1>7. PlacedInOrder'
    <2>1. SUFFICES ASSUME NEW q \in DOMAIN placed' \ DOMAIN problem.frozen,
                          NEW l \in problem.links[q]
                   PROVE  LinkHolds(placed', q, l)
      BY <1>3 DEF PlacedInOrder
    <2>2. CASE q = o
      <3>1. /\ r.start >= placed[l.pred].end + l.min
            /\ l.max # NoMax => r.start <= placed[l.pred].end + l.max
        BY <1>2, <2>2 DEF Fits, AfterPredecessors, WithinMaxLag
      <3>. QED
        BY <1>4, <1>5, <2>2, <3>1 DEF LinkHolds
    <2>3. CASE q # o
      <3>1. q \in DOMAIN placed /\ LinkHolds(placed, q, l)
        BY <1>5, <2>1, <2>3 DEF PlannerInv, PlacedInOrder
      <3>. QED
        BY <1>5, <3>1 DEF LinkHolds
    <2>. QED
      BY <2>2, <2>3
  <1>8. CrewsAndToolsApart'
    <2>1. \A q \in DOMAIN placed : Meets(r, placed[q]) =>
            placed[q].crew # r.crew /\ r.tools \cap placed[q].tools = {}
      BY <1>2 DEF Fits, Unblocked
    <2>2. SUFFICES ASSUME NEW x \in DOMAIN placed' \ DOMAIN problem.frozen,
                          NEW q \in DOMAIN placed',
                          q # x, Meets(placed'[x], placed'[q])
                   PROVE  /\ placed'[q].crew # placed'[x].crew
                          /\ placed'[x].tools \cap placed'[q].tools = {}
      BY <1>3 DEF CrewsAndToolsApart
    <2>3. CASE x = o
      BY <1>5, <2>1, <2>2, <2>3
    <2>4. CASE q = o
      <3>1. Meets(r, placed[x])
        BY <1>5, <2>2, <2>4, MeetingIsMutual
      <3>. QED
        BY <1>5, <2>1, <2>2, <2>4, <3>1
    <2>5. CASE x # o /\ q # o
      BY <1>5, <2>2, <2>5 DEF PlannerInv, CrewsAndToolsApart
    <2>. QED
      BY <2>3, <2>4, <2>5
  <1>9. PostsWithinCapacity'
    <2>1. SUFFICES ASSUME NEW c \in DOMAIN problem.cap,
                          Excess(placed', AtPost(placed', c), problem.cap[c])
                   PROVE  Excess(problem.frozen, AtPost(problem.frozen, c), problem.cap[c])
      BY <1>3 DEF PostsWithinCapacity
    <2>2. r.post # c
      BY <1>1, <1>2, <2>1 DEF Fits, Unblocked, r
    <2>3. Excess(placed, AtPost(placed, c), problem.cap[c])
      BY <1>1, <1>4, <2>1, <2>2, OtherPosts DEF r
    <2>. QED
      BY <2>3 DEF PlannerInv, PostsWithinCapacity
  <1>10. SetupsFollow'
    <2>. SUFFICES ASSUME ReadsAllThatBinds(problem)
                  PROVE  SetupsInTurn(problem, With(placed, o, r))
      BY <1>1, <1>3 DEF SetupsFollow, r
    <2>1. SetupsInTurn(problem, placed) /\ RoomOnPosts(problem, placed)
      BY FrozenSetupsInTurn DEF PlannerInv, SetupsFollow, PostsWithinCapacity, RoomOnPosts
    <2>2. \A q \in DOMAIN placed : OccStart(placed[q]) >= 0
      BY DEF PlannerInv, PlacedFitsAlone, FitsAlone, FrozenStay, ReadsAllThatBinds, FrozenPlain
    <2>. QED
      BY <1>2, <1>4, <2>1, <2>2, SetupsStayInTurn DEF PlannerInv
  <1>. QED
    BY <1>6, <1>7, <1>8, <1>9, <1>10 DEF PlannerInv

LEMMA PlannerNext == PlannerInv /\ [Next]_vars => PlannerInv'
  <1>1. ASSUME PlannerInv, UNCHANGED <<problem, placed>>, done' \in BOOLEAN
        PROVE  PlannerInv'
    <2>1. TypeOK' /\ FrozenStay' /\ PlacedFitsAlone' /\ ProblemOk(problem)' /\ RowsOk(problem, placed)'
      BY <1>1 DEF PlannerInv, TypeOK, FrozenStay, PlacedFitsAlone
    <2>5. SetupsFollow'
      BY <1>1 DEF PlannerInv, SetupsFollow
    <2>2. PlacedInOrder'
      BY <1>1 DEF PlannerInv, PlacedInOrder, LinkHolds
    <2>3. CrewsAndToolsApart'
      BY <1>1 DEF PlannerInv, CrewsAndToolsApart
    <2>4. PostsWithinCapacity'
      BY <1>1 DEF PlannerInv, PostsWithinCapacity
    <2>. QED
      BY <2>1, <2>2, <2>3, <2>4, <2>5 DEF PlannerInv
  <1>2. ASSUME PlannerInv, NEW o \in problem.ops, Place(o)
        PROVE  PlannerInv'
    BY <1>2, PlaceKeeps DEF PlannerInv, TypeOK
  <1>3. ASSUME PlannerInv, Stop
        PROVE  PlannerInv'
    BY <1>1, <1>3 DEF Stop
  <1>4. ASSUME PlannerInv, UNCHANGED vars
        PROVE  PlannerInv'
    BY <1>1, <1>4 DEF vars, PlannerInv, TypeOK
  <1>. QED
    BY <1>2, <1>3, <1>4 DEF Next

\* The loop keeps its invariant in every reachable state.
THEOREM PlannerKeepsInv == Spec => []PlannerInv
  BY PlannerInit, PlannerNext, PTL DEF Spec

\* Only operations of the card are placed, and every frozen one is.
THEOREM PlannerTyped == Spec => []TypeOK
  <1>1. PlannerInv => TypeOK
    BY DEF PlannerInv
  <1>. QED
    BY <1>1, PlannerKeepsInv, PTL

\* domain_greed keeps both lags of every link of what it placed.
THEOREM PlannerKeepsOrder == Spec => []PlacedInOrder
  <1>1. PlannerInv => PlacedInOrder
    BY DEF PlannerInv
  <1>. QED
    BY <1>1, PlannerKeepsInv, PTL

\* domain_greed books no crew and no tool twice.
THEOREM NoDoubleBooking == Spec => []CrewsAndToolsApart
  <1>1. PlannerInv => CrewsAndToolsApart
    BY DEF PlannerInv
  <1>. QED
    BY <1>1, PlannerKeepsInv, PTL

\* domain_greed takes no post over its capacity.
THEOREM NoPostOverfilled == Spec => []PostsWithinCapacity
  <1>1. PlannerInv => PostsWithinCapacity
    BY DEF PlannerInv
  <1>. QED
    BY <1>1, PlannerKeepsInv, PTL

-----------------------------------------------------------------------------
(***************************************************************************)
(* wrap: what a published row has in common with the one that was placed.  *)
(***************************************************************************)
Carries(r, s) == DOMAIN r = DOMAIN s /\ SameSlot(r, s)

LEMMA CarriesOn ==
  ASSUME NEW r, NEW s, NEW t, Carries(r, s), Carries(s, t)
  PROVE  Carries(r, t)
  BY DEF Carries, SameSlot

\* Publishing neither adds nor drops a row, nor moves one.
LEMMA PublishedRows ==
  ASSUME NEW p, ProblemOk(p), NEW rows, RowsOk(p, rows)
  PROVE  /\ DOMAIN Published(p, rows) = DOMAIN rows
         /\ \A o \in DOMAIN rows :
              /\ RowOk(p, Published(p, rows)[o])
              /\ SameSlot(Published(p, rows)[o], rows[o])
              /\ Published(p, rows)[o].tools = IF rows[o].tools = {} THEN p.tools[o] ELSE rows[o].tools
  <1>. DEFINE D == DOMAIN rows
              filled == FillTools(p, rows)
              bound == BindCrews(p, filled)
              stamped == StampLanes(p, bound)
              keeps(b, a) == Carries(b, a) /\ RowOk(p, b) /\ b.tools = a.tools
  <1>1. \A o \in D : RowOk(p, rows[o])
    BY DEF RowsOk, PlacedRowOk
  <1>2. DOMAIN filled = D /\ \A o \in D : Carries(filled[o], rows[o])
    <2>1. DOMAIN filled = D /\ \A o \in D : \E t : filled[o] = [rows[o] EXCEPT !.tools = t]
      BY DEF FillTools
    <2>2. ASSUME NEW o \in D, NEW t PROVE Carries([rows[o] EXCEPT !.tools = t], rows[o])
      BY <1>1 DEF Carries, SameSlot, RowOk
    <2>. QED
      BY <2>1, <2>2
  <1>10. \A o \in D : filled[o].tools = IF rows[o].tools = {} THEN p.tools[o] ELSE rows[o].tools
    <2>1. \A o \in D : filled[o] = [rows[o] EXCEPT !.tools = IF @ = {} THEN p.tools[o] ELSE @]
      BY DEF FillTools
    <2>. HIDE DEF filled
    <2>. QED
      BY <1>1, <2>1 DEF RowOk
  <1>3. \A o \in D : RowOk(p, filled[o])
    <2>1. \A o \in D : filled[o] = [rows[o] EXCEPT !.tools = IF @ = {} THEN p.tools[o] ELSE @]
      BY DEF FillTools
    <2>2. \A o \in D : p.tools[o] \subseteq DOMAIN p.toolCap
      BY DEF ProblemOk, RowsOk
    <2>3. ASSUME NEW o \in D
          PROVE  filled[o].tools \subseteq DOMAIN p.toolCap /\ filled[o].crew = rows[o].crew
      <3>. HIDE DEF filled
      <3>. QED
        BY <1>1, <2>1, <2>2 DEF RowOk
    <2>. HIDE DEF filled
    <2>. QED
      BY <1>1, <1>2, <2>3 DEF Carries, SameSlot, RowOk
  <1>4. DOMAIN bound = D /\ \A o \in D : keeps(bound[o], filled[o])
    <2>1. /\ IsFiniteSet(DOMAIN filled) /\ DOMAIN filled \subseteq Int
          /\ \A o \in DOMAIN filled : filled[o].start \in Int
          /\ DOMAIN p.crewCap \subseteq Nat
      <3>1. IsFiniteSet(DOMAIN p.dur) /\ D \subseteq DOMAIN p.dur /\ DOMAIN p.dur \subseteq Nat
        BY DEF ProblemOk, RowsOk
      <3>2. IsFiniteSet(D)
        BY <3>1, FS_Subset
      <3>. QED
        BY <1>2, <1>3, <3>1, <3>2 DEF RowOk, ProblemOk
    <2>2. Crewed(p, filled, bound)
      <3>. HIDE DEF filled
      <3>. QED
        BY <2>1, CrewsAreBound
    <2>3. ASSUME NEW o \in D, filled[o].crew = NoCrew, NEW w \in DOMAIN p.crewCap
          PROVE  keeps([filled[o] EXCEPT !.crew = w], filled[o])
      <3>. HIDE DEF filled
      <3>. QED
        BY <1>3, <2>3 DEF Carries, SameSlot, RowOk
    <2>4. \A o \in D : keeps(filled[o], filled[o])
      BY <1>3 DEF Carries, SameSlot
    <2>. HIDE DEF filled, bound, keeps
    <2>. QED
      BY <1>2, <2>2, <2>3, <2>4 DEF Crewed
  <1>6. DOMAIN stamped = D /\ \A o \in D : keeps(stamped[o], bound[o])
    <2>. HIDE DEF bound
    <2>1. /\ DOMAIN stamped = D
          /\ \A o \in D : \/ stamped[o] = bound[o]
                          \/ \E k : stamped[o] = [bound[o] EXCEPT !.lane = k]
      BY <1>4 DEF StampLanes
    <2>2. ASSUME NEW o \in D, NEW k
          PROVE  keeps([bound[o] EXCEPT !.lane = k], bound[o])
      BY <1>4, <2>2 DEF Carries, SameSlot, RowOk
    <2>3. \A o \in D : keeps(bound[o], bound[o])
      BY <1>4 DEF Carries, SameSlot
    <2>. HIDE DEF stamped, keeps
    <2>. QED
      BY <2>1, <2>2, <2>3
  <1>7. \A o \in D : RowOk(p, stamped[o]) /\ SameSlot(stamped[o], rows[o])
    BY <1>2, <1>4, <1>6, CarriesOn DEF Carries
  <1>8. Published(p, rows) = stamped
    BY DEF Published
  <1>9. \A o \in D : stamped[o].tools = IF rows[o].tools = {} THEN p.tools[o] ELSE rows[o].tools
    <2>. HIDE DEF filled, bound, stamped
    <2>. QED
      BY <1>10, <1>4, <1>6
  <1>. HIDE DEF stamped
  <1>. QED
    BY <1>6, <1>7, <1>8, <1>9

-----------------------------------------------------------------------------
(***************************************************************************)
(* The notary, on the rows that are placed: each of its checks has been    *)
(* kept to by the slot of a row, or by model validation for a frozen row.  *)
(***************************************************************************)
\* What the planner reads is all that binds, and its invariant holds.
AllIsRead == PlannerInv /\ ReadsAllThatBinds(problem)

\* A row passes every check that looks at it alone.
PassesAlone(p, o, r) ==
  /\ r.start < r.end /\ DurationHolds(p, o, r)
  /\ Eligible(p, o, r.post) /\ CrewFits(p, o, r) /\ p.tools[o] \subseteq r.tools
  /\ OccStart(r) >= 0 /\ r.end <= p.horizon /\ OccStart(r) >= p.floor[o] /\ r.end <= p.latest[o]
  /\ \A cal \in CalendarsOf(r.post, r.crew, r.tools \cup p.tools[o]) : CalendarFits(p, o, r, cal)
  /\ SparesReady(p, o, r.start)

\* Model validation has looked at a frozen row, and FrozenPlain says the rest.
LEMMA FrozenRowsPass ==
  ASSUME NEW p, ProblemOk(p), ReadsAllThatBinds(p), NEW f \in DOMAIN p.frozen
  PROVE  /\ PassesAlone(p, f, p.frozen[f])
         /\ \A l \in p.links[f] : IF l.pred \in DOMAIN p.frozen THEN LinkHolds(p.frozen, f, l)
                                                                ELSE l.min = 0 /\ l.max = NoMax
  <1>. DEFINE r == p.frozen[f]
              t == FrozenTools(p)[f]
  <1>1. SameButLanes(p.frozen, FrozenTools(p))
    BY FrozenIsAsRead
  <1>2. SameWork(r, t) /\ DOMAIN FrozenTools(p) = DOMAIN p.frozen
    BY <1>1 DEF SameButLanes
  <1>3. /\ p.tools[f] = {} /\ r.tools = {} /\ t.tools = {}
        /\ t.post = r.post /\ t.crew = r.crew /\ t.start = r.start /\ t.end = r.end
    BY <1>2 DEF ReadsAllThatBinds, FrozenPlain, ProblemOk, FrozenRowOk, SameWork
  <1>4. /\ Eligible(p, f, t.post) /\ t.start < t.end /\ DurationHolds(p, f, t)
        /\ \A cal \in CalendarsOf(t.post, t.crew, t.tools) : CalendarFits(p, f, t, cal)
        /\ \A l \in p.links[f] : l.pred \in DOMAIN p.frozen => LinkHolds(FrozenTools(p), f, l)
    BY <1>2 DEF ReadsAllThatBinds, FrozenFragmentOk
  <1>5. /\ SparesReady(p, f, r.start) /\ OccStart(r) >= p.floor[f] /\ r.end <= p.latest[f]
        /\ CrewFits(p, f, r) /\ OccStart(r) >= 0 /\ r.end <= p.horizon
        /\ \A l \in p.links[f] : l.pred \notin DOMAIN p.frozen => l.min = 0 /\ l.max = NoMax
    BY DEF ReadsAllThatBinds, FrozenPlain
  <1>. HIDE DEF r, t
  <1>6. DurationHolds(p, f, r) /\ \A cal : CalendarFits(p, f, t, cal) <=> CalendarFits(p, f, r, cal)
    BY <1>2, <1>4, LanesAreNotRead
  <1>7. CalendarsOf(r.post, r.crew, r.tools \cup p.tools[f]) = CalendarsOf(t.post, t.crew, t.tools)
    BY <1>3
  <1>8. PassesAlone(p, f, r)
    BY <1>3, <1>4, <1>5, <1>6, <1>7 DEF PassesAlone
  <1>9. ASSUME NEW l \in p.links[f], l.pred \in DOMAIN p.frozen
        PROVE  LinkHolds(p.frozen, f, l)
    <2>1. LinkHolds(FrozenTools(p), f, l)
      BY <1>4, <1>9
    <2>2. \A o \in DOMAIN p.frozen : /\ FrozenTools(p)[o].start = p.frozen[o].start
                                     /\ FrozenTools(p)[o].end = p.frozen[o].end
      BY <1>1 DEF SameButLanes, SameWork
    <2>. QED
      BY <1>9, <2>1, <2>2 DEF LinkHolds
  <1>. QED
    BY <1>5, <1>8, <1>9 DEF r

\* A row in one window of a calendar fits it.
LEMMA WindowsFit ==
  ASSUME NEW p, ProblemOk(p), NEW o \in p.ops, NEW r, PlacedRowOk(p, r),
         NEW cals, \A k \in cals : k \in DOMAIN p.cal, InCalendars(p, o, cals, r.start, r.setup),
         p.policy[o] # "preemptive" => r.end = r.start + p.dur[o], NEW cal \in cals
  PROVE  CalendarFits(p, o, r, cal)
  <1>. DEFINE b == IF p.policy[o] = "preemptive" THEN r.start ELSE r.end
  <1>1. CASE cal \in p.unattended
    BY <1>1 DEF CalendarFits
  <1>2. CASE cal \notin p.unattended
    <2>1. InWindow(p, cal, r.start - r.setup, b)
      BY <1>2 DEF InCalendars
    <2>2. PICK w \in p.cal[cal] : w[1] <= r.start - r.setup /\ b <= w[2]
      BY <2>1 DEF InWindow
    <2>3. w[1] \in Int /\ w[2] \in Int
      BY DEF ProblemOk
    <2>4. r.start \in Int /\ r.end \in Int /\ r.setup \in Int
      BY DEF PlacedRowOk, RowOk
    <2>5. InMergedWindows(p, cal, OccStart(r), b)
      <3>1. ASSUME NEW t \in OccStart(r)..(b - 1)
            PROVE  w[1] <= t /\ t < w[2]
        BY <2>2, <2>3, <2>4 DEF OccStart
      <3>. QED
        BY <3>1 DEF InMergedWindows, Open
    <2>6. p.cal[cal] # {}
      OBVIOUS
    <2>. QED
      BY <2>5, <2>6 DEF CalendarFits
  <1>. QED
    BY <1>1, <1>2

\* What the slot of a row kept to is what these checks ask for.
LEMMA PlacedRowsPass ==
  ASSUME NEW p, ProblemOk(p), ReadsAllThatBinds(p), NEW o \in p.ops, NEW r, PlacedRowOk(p, r),
         FitsAlone(p, o, r)
  PROVE  PassesAlone(p, o, r)
  <1>. DEFINE cals == CalendarsOf(r.post, r.crew, p.tools[o])
  <1>1. /\ o \in DOMAIN p.dur /\ p.dur[o] \in Nat /\ p.policy[o] \in {"exact", "min", "preemptive"}
        /\ p.horizon \in Nat /\ p.latest[o] \in Int
    BY DEF ProblemOk
  <1>2. r.start \in Int /\ r.end \in Int /\ r.setup \in Nat /\ r.start < r.end
    BY DEF PlacedRowOk, RowOk
  <1>3. r.end \in Ends(p, o, cals, r.start) /\ r.tools = p.tools[o] /\ r.end <= p.horizon
    BY DEF FitsAlone
  <1>4. CalendarsOf(r.post, r.crew, r.tools \cup p.tools[o]) = cals
    BY <1>3
  <1>5. p.policy[o] # "preemptive" => r.end = r.start + p.dur[o]
    BY <1>3 DEF Ends
  <1>6. p.policy[o] = "preemptive" => OpenMinutes(p, Staffed(p, cals), r.start, r.end) = p.dur[o]
    BY <1>3 DEF Ends
  <1>7. DurationHolds(p, o, r)
    <2>. HIDE DEF cals
    <2>1. CASE p.policy[o] = "exact"
      BY <1>1, <1>2, <1>5, <2>1 DEF DurationHolds
    <2>2. CASE p.policy[o] = "min"
      BY <1>1, <1>2, <1>5, <2>2 DEF DurationHolds
    <2>3. CASE p.policy[o] = "preemptive"
      BY <1>4, <1>6, <2>3 DEF DurationHolds
    <2>. QED
      BY <1>1, <2>1, <2>2, <2>3
  <1>8. CrewFits(p, o, r)
    <2>1. r.crew \in DOMAIN p.crewCap /\ (NeedsCrew(p, o) => Skilled(p, o, r.crew))
      BY DEF FitsAlone, EligibleCrews
    <2>2. r.crew # NoCrew /\ p.permit[o][r.crew] \in Int
      BY <1>1, <2>1 DEF ProblemOk
    <2>3. Skilled(p, o, r.crew) => p.permit[o][r.crew] >= p.horizon
      BY <2>1 DEF ReadsAllThatBinds, NothingRunsOut, Skilled
    <2>. QED
      BY <1>1, <1>2, <1>3, <2>1, <2>2, <2>3 DEF CrewFits
  <1>9. r.end <= p.latest[o]
    BY <1>1, <1>2, <1>3 DEF ReadsAllThatBinds, NothingRunsOut
  <1>10. \A cal \in cals : CalendarFits(p, o, r, cal)
    <2>1. \A k \in cals : k \in DOMAIN p.cal
      BY <1>1 DEF CalendarsOf, ProblemOk, PlacedRowOk, RowOk, FitsAlone
    <2>2. InCalendars(p, o, cals, r.start, r.setup)
      BY DEF FitsAlone
    <2>. HIDE DEF cals
    <2>. QED
      BY <1>5, <2>1, <2>2, WindowsFit
  <1>11. /\ r.post \in p.posts[o] /\ SparesReady(p, o, r.start)
         /\ OccStart(r) >= 0 /\ OccStart(r) >= p.floor[o]
    BY DEF FitsAlone
  <1>. HIDE DEF cals
  <1>. QED
    BY <1>2, <1>3, <1>4, <1>7, <1>8, <1>9, <1>10, <1>11 DEF PassesAlone, Eligible

\* So every row that is there passes.
LEMMA EveryRowPassesAlone ==
  ASSUME AllIsRead, NEW o \in DOMAIN placed
  PROVE  PassesAlone(problem, o, placed[o])
  <1>1. CASE o \in DOMAIN problem.frozen
    BY <1>1, FrozenRowsPass DEF AllIsRead, PlannerInv, FrozenStay
  <1>2. CASE o \notin DOMAIN problem.frozen
    BY <1>2, PlacedRowsPass DEF AllIsRead, PlannerInv, PlacedFitsAlone, RowsOk
  <1>. QED
    BY <1>1, <1>2

\* No check of single rows finds anything.
LEMMA RowsFindNothing ==
  ASSUME AllIsRead
  PROVE  /\ Durations(problem, placed) = {} /\ Eligibility(problem, placed) = {}
         /\ Windows(problem, placed) = {} /\ Frozen(problem, placed) = {}
  <1>1. \A o \in DOMAIN placed : PassesAlone(problem, o, placed[o])
    BY EveryRowPassesAlone
  <1>2. /\ problem.horizon \in Int
        /\ \A o \in DOMAIN placed : /\ OccStart(placed[o]) \in Int /\ placed[o].end \in Int
                                    /\ problem.latest[o] \in Int /\ problem.floor[o] \in Int
    BY DEF AllIsRead, PlannerInv, RowsOk, PlacedRowOk, RowOk, OccStart, ProblemOk
  <1>3. Durations(problem, placed) = {}
    BY <1>1 DEF PassesAlone, Durations, Codes
  <1>4. Eligibility(problem, placed) = {}
    BY <1>1 DEF PassesAlone, Eligibility, Codes
  <1>5. Windows(problem, placed) = {}
    <2>. DEFINE from(o) == OccStart(placed[o])
                to(o)   == placed[o].end
    <2>0. \A o \in DOMAIN placed : /\ from(o) >= 0 /\ to(o) <= problem.horizon
                                   /\ from(o) >= problem.floor[o] /\ to(o) <= problem.latest[o]
                                   /\ from(o) \in Int /\ to(o) \in Int
                                   /\ problem.latest[o] \in Int /\ problem.floor[o] \in Int
      BY <1>1, <1>2 DEF PassesAlone
    <2>. HIDE DEF from, to
    <2>1. \A o \in DOMAIN placed : /\ ~(from(o) < 0 \/ to(o) > problem.horizon)
                                   /\ ~(to(o) > problem.latest[o] \/ from(o) < problem.floor[o])
      BY <1>2, <2>0
    <2>2. \A o \in DOMAIN placed :
            /\ ~(OccStart(placed[o]) < 0 \/ placed[o].end > problem.horizon)
            /\ ~(placed[o].end > problem.latest[o] \/ OccStart(placed[o]) < problem.floor[o])
      BY <2>1 DEF from, to
    <2>3. \A o \in DOMAIN placed :
            \A cal \in CalendarsOf(placed[o].post, placed[o].crew, placed[o].tools \cup problem.tools[o]) :
              CalendarFits(problem, o, placed[o], cal)
      BY <1>1 DEF PassesAlone
    <2>. QED
      BY <2>2, <2>3 DEF Windows, Codes
  <1>6. Frozen(problem, placed) = {}
    BY DEF AllIsRead, PlannerInv, FrozenStay, Frozen, Codes, SameSlot
  <1>. QED
    BY <1>3, <1>4, <1>5, <1>6

\* Links are found broken where a frozen row lacks a predecessor, and nowhere else.
LEMMA LinksFindNothingElse ==
  ASSUME AllIsRead
  PROVE  Precedence(problem, placed) \subseteq Unfinished(problem, placed)
  <1>. DEFINE short == {f \in DOMAIN problem.frozen : ~(Preds(problem, f) \subseteq DOMAIN placed)}
  <1>1. ASSUME NEW o \in DOMAIN placed, o \notin short, NEW l \in problem.links[o]
        PROVE  LinkHolds(placed, o, l)
    <2>1. CASE o \notin DOMAIN problem.frozen
      BY <2>1 DEF AllIsRead, PlannerInv, PlacedInOrder
    <2>2. CASE o \in DOMAIN problem.frozen
      <3>1. l.pred \in Preds(problem, o) /\ l.pred \in DOMAIN placed
        BY <1>1, <2>2 DEF Preds
      <3>2. /\ \A f \in DOMAIN problem.frozen : placed[f] = problem.frozen[f]
            /\ IF l.pred \in DOMAIN problem.frozen THEN LinkHolds(problem.frozen, o, l)
                                                   ELSE l.min = 0 /\ l.max = NoMax
        BY <2>2, FrozenRowsPass DEF AllIsRead, PlannerInv, FrozenStay
      <3>3. CASE l.pred \in DOMAIN problem.frozen
        BY <2>2, <3>1, <3>2, <3>3 DEF LinkHolds
      <3>4. CASE l.pred \notin DOMAIN problem.frozen
        <4>1. \A d \in Deadlines(problem, l.pred) : placed[l.pred].end <= d
          BY <3>1, <3>4 DEF AllIsRead, PlannerInv, PlacedFitsAlone, FitsAlone
        <4>2. l.pred \in Ancestors(problem, o)
          BY <3>1 DEF Ancestors
        <4>3. problem.frozen[o].start \in Deadlines(problem, l.pred)
          BY <2>2, <4>2 DEF Deadlines
        <4>4. placed[l.pred].end <= placed[o].start /\ placed[l.pred].end \in Int
          BY <2>2, <3>1, <3>2, <4>1, <4>3 DEF AllIsRead, PlannerInv, RowsOk, PlacedRowOk, RowOk
        <4>. QED
          BY <3>1, <3>2, <3>4, <4>4 DEF LinkHolds
      <3>. QED
        BY <3>3, <3>4
    <2>. QED
      BY <2>1, <2>2
  <1>2. Precedence(problem, placed) \subseteq Codes("PRECEDENCE_BROKEN", short)
    <2>. HIDE DEF short
    <2>. QED
      BY <1>1 DEF Precedence, Codes
  <1>. QED
    BY <1>2 DEF Unfinished

\* Rows among which the loop let none meet another are no more than one at once,
\* but for the frozen ones.
LEMMA NoneTogether ==
  ASSUME NEW rows, NEW S \in SUBSET DOMAIN rows, IsFiniteSet(S),
         NEW cap \in Nat \ {0}, NEW fr, NEW F, F = S \cap DOMAIN fr,
         \A o \in F : fr[o] = rows[o], ~Excess(fr, F, cap),
         \A x \in S \ F, q \in S : q # x => ~Meets(rows[x], rows[q]),
         \A o \in S : OccStart(rows[o]) \in Int /\ rows[o].end \in Int
  PROVE  ~Excess(rows, S, cap)
  <1>. SUFFICES ASSUME NEW o \in S, Live(rows[o], OccStart(rows[o])),
                       Cardinality(LiveAt(rows, S, OccStart(rows[o]))) > cap
                PROVE  FALSE
    BY DEF Excess
  <1>. DEFINE t == OccStart(rows[o])
              live == LiveAt(rows, S, t)
  <1>1. o \in live /\ \A x, y \in live : Meets(rows[x], rows[y])
    BY DEF LiveAt, Live, Meets
  <1>2. CASE live \subseteq F
    <2>1. LiveAt(fr, F, t) = live
      BY <1>2 DEF LiveAt
    <2>2. o \in F /\ Live(fr[o], OccStart(fr[o])) /\ Cardinality(LiveAt(fr, F, OccStart(fr[o]))) > cap
      BY <1>1, <1>2, <2>1
    <2>. QED
      BY <2>2 DEF Excess
  <1>3. CASE ~(live \subseteq F)
    <2>1. PICK x \in live : x \notin F
      BY <1>3
    <2>2. live \subseteq S
      BY DEF LiveAt
    <2>3. \A q \in live : q = x
      <3>. HIDE DEF live
      <3>. QED
        BY <1>1, <2>1, <2>2
    <2>4. live = {x}
      BY <2>1, <2>3
    <2>5. Cardinality(live) = 1
      <3>. HIDE DEF live
      <3>. QED
        BY <2>4, FS_Singleton
    <2>. QED
      BY <2>5
  <1>. QED
    BY <1>2, <1>3

\* No post, crew or tool is found over its capacity.
LEMMA OverlapsFindNothing ==
  ASSUME AllIsRead
  PROVE  Overlaps(problem, placed) = {}
  <1>1. RoomOnPosts(problem, problem.frozen) /\ Overlaps(problem, problem.frozen) = {}
    BY FrozenSetupsInTurn, FrozenIsAsRead, OverlapsAreSame
      DEF AllIsRead, PlannerInv, ReadsAllThatBinds, FrozenFragmentOk
  <1>2. \A c \in DOMAIN problem.cap : ~Excess(placed, AtPost(placed, c), problem.cap[c])
    BY <1>1 DEF AllIsRead, PlannerInv, PostsWithinCapacity, RoomOnPosts
  <1>3. /\ \A f \in DOMAIN problem.frozen : f \in DOMAIN placed /\ placed[f] = problem.frozen[f]
        /\ \A o \in DOMAIN placed : OccStart(placed[o]) \in Int /\ placed[o].end \in Int
        /\ \A o \in DOMAIN placed \ DOMAIN problem.frozen, q \in DOMAIN placed :
             q # o /\ Meets(placed[o], placed[q])
               => placed[q].crew # placed[o].crew /\ placed[o].tools \cap placed[q].tools = {}
    BY DEF AllIsRead, PlannerInv, FrozenStay, CrewsAndToolsApart, RowsOk, PlacedRowOk, RowOk, OccStart
  <1>4. IsFiniteSet(DOMAIN placed)
    BY FS_Subset DEF AllIsRead, PlannerInv, RowsOk, ProblemOk
  <1>5. ASSUME NEW w \in DOMAIN problem.crewCap
        PROVE  ~Excess(placed, OfCrew(placed, w), problem.crewCap[w])
    <2>. DEFINE S == OfCrew(placed, w)
                F == OfCrew(problem.frozen, w)
    <2>1. /\ S \in SUBSET DOMAIN placed /\ F = S \cap DOMAIN problem.frozen
          /\ \A o \in F : problem.frozen[o] = placed[o]
      BY <1>3 DEF OfCrew
    <2>2. ~Excess(problem.frozen, F, problem.crewCap[w])
      BY <1>1 DEF Overlaps, Codes
    <2>3. \A x \in S \ F, q \in S : q # x => ~Meets(placed[x], placed[q])
      BY <1>3, <2>1 DEF OfCrew
    <2>4. problem.crewCap[w] \in Nat \ {0} /\ IsFiniteSet(S)
      BY <1>4, <2>1, FS_Subset DEF AllIsRead, PlannerInv, ProblemOk
    <2>. HIDE DEF S, F
    <2>. QED
      BY <1>3, <2>1, <2>2, <2>3, <2>4, NoneTogether DEF S
  <1>6. ASSUME NEW x \in DOMAIN problem.toolCap
        PROVE  ~Excess(placed, OnTool(placed, x), problem.toolCap[x])
    <2>. DEFINE S == OnTool(placed, x)
                F == OnTool(problem.frozen, x)
    <2>1. /\ S \in SUBSET DOMAIN placed /\ F = S \cap DOMAIN problem.frozen
          /\ \A o \in F : problem.frozen[o] = placed[o]
      BY <1>3 DEF OnTool
    <2>2. ~Excess(problem.frozen, F, problem.toolCap[x])
      BY <1>1 DEF Overlaps, Codes
    <2>3. \A y \in S \ F, q \in S : q # y => ~Meets(placed[y], placed[q])
      BY <1>3, <2>1 DEF OnTool
    <2>4. problem.toolCap[x] \in Nat \ {0} /\ IsFiniteSet(S)
      BY <1>4, <2>1, FS_Subset DEF AllIsRead, PlannerInv, ProblemOk
    <2>. HIDE DEF S, F
    <2>. QED
      BY <1>3, <2>1, <2>2, <2>3, <2>4, NoneTogether DEF S
  <1>. QED
    BY <1>2, <1>5, <1>6 DEF Overlaps, Codes

\* No spare and no pool is found short.
LEMMA StockFindsNothing ==
  ASSUME AllIsRead
  PROVE  Spares(problem, placed) = {} /\ LedgerFindings(problem, placed) = {}
  <1>. DEFINE stock == problem.stock
              users(s) == {o \in problem.ops : s \in problem.needs[o]}
  <1>1. \A s \in DOMAIN stock : /\ stock[s].receipts = {} /\ ~stock[s].rotable
                                /\ stock[s].qty \in Nat /\ stock[s].from \in Int
                                /\ stock[s].qty >= Cardinality(users(s))
    BY DEF AllIsRead, PlannerInv, ReadsAllThatBinds, NothingRunsOut, ProblemOk, SpareOk
  <1>2. IsFiniteSet(problem.ops) /\ DOMAIN placed \subseteq problem.ops
    BY FS_Subset DEF AllIsRead, PlannerInv, RowsOk, ProblemOk
  <1>3. ASSUME NEW s \in DOMAIN stock
        PROVE  ~(Cardinality(Drawers(problem, placed, s)) > stock[s].qty)
    <2>1. Drawers(problem, placed, s) \in SUBSET users(s) /\ IsFiniteSet(users(s))
      BY <1>2, FS_Subset DEF Drawers
    <2>. HIDE DEF users
    <2>2. /\ Cardinality(Drawers(problem, placed, s)) \in Nat /\ Cardinality(users(s)) \in Nat
          /\ Cardinality(Drawers(problem, placed, s)) <= Cardinality(users(s))
      BY <2>1, FewerRows
    <2>. QED
      BY <1>1, <2>2
  <1>4. ASSUME NEW o \in DOMAIN placed, NEW s \in problem.needs[o], s \in DOMAIN stock
        PROVE  ~(stock[s].qty <= 0 \/ placed[o].start < stock[s].from)
    <2>1. PassesAlone(problem, o, placed[o]) /\ placed[o].start \in Int
      BY EveryRowPassesAlone DEF AllIsRead, PlannerInv, RowsOk, PlacedRowOk, RowOk
    <2>2. placed[o].start >= stock[s].from
      BY <2>1 DEF PassesAlone, SparesReady
    <2>3. {o} \in SUBSET users(s) /\ IsFiniteSet(users(s))
      BY <1>2, FS_Subset
    <2>4. Cardinality({o}) = 1
      BY FS_Singleton
    <2>. HIDE DEF users
    <2>5. Cardinality(users(s)) \in Nat /\ Cardinality({o}) <= Cardinality(users(s))
      BY <2>3, FewerRows
    <2>. QED
      BY <1>1, <1>4, <2>1, <2>2, <2>4, <2>5
  <1>5. Spares(problem, placed) = {}
    <2>. HIDE DEF users
    <2>. QED
      BY <1>1, <1>3, <1>4 DEF Spares, Codes
  <1>6. LedgerFindings(problem, placed) = {}
    <2>1. Stockouts(problem, placed) = {}
      BY DEF Stockouts, AllIsRead, ReadsAllThatBinds, NothingRunsOut
    <2>2. Rotables(problem) = {}
      BY <1>1 DEF Rotables
    <2>. QED
      BY <2>1, <2>2 DEF LedgerFindings
  <1>. QED
    BY <1>5, <1>6

\* Publishing fills in what the rows have: it names lanes, and nothing else.
LEMMA PublishingNamesLanes ==
  ASSUME AllIsRead
  PROVE  SameButLanes(placed, Published(problem, placed))
  <1>. DEFINE D == DOMAIN placed
              filled == FillTools(problem, placed)
              bound == BindCrews(problem, filled)
              stamped == StampLanes(problem, bound)
  <1>1. \A o \in D : /\ DOMAIN placed[o] = RowFields
                     /\ problem.tools[o] \subseteq placed[o].tools
                     /\ NeedsCrew(problem, o) => placed[o].crew # NoCrew
                     /\ placed[o].start \in Int
    BY EveryRowPassesAlone DEF AllIsRead, PlannerInv, RowsOk, PlacedRowOk, RowOk, RowFields, PassesAlone, CrewFits
  <1>2. SameButLanes(placed, filled)
    <2>1. DOMAIN filled = D
      BY DEF FillTools
    <2>2. \A o \in D : \E t : filled[o] = [placed[o] EXCEPT !.tools = t] /\ t = placed[o].tools
      <3>1. \A o \in D : filled[o] = [placed[o] EXCEPT !.tools = IF @ = {} THEN problem.tools[o] ELSE @]
        BY DEF FillTools
      <3>2. \A o \in D : (IF placed[o].tools = {} THEN problem.tools[o] ELSE placed[o].tools) = placed[o].tools
        BY <1>1
      <3>. HIDE DEF filled
      <3>. QED
        BY <1>1, <3>1, <3>2 DEF RowFields
    <2>. HIDE DEF filled
    <2>3. \A o \in D : SameWork(placed[o], filled[o])
      BY <1>1, <2>2 DEF SameWork, RowFields
    <2>. QED
      BY <2>1, <2>3 DEF SameButLanes
  <1>. HIDE DEF filled
  <1>3. DOMAIN bound = D /\ \A o \in D : bound[o] = filled[o]
    <2>1. /\ DOMAIN filled = D
          /\ \A o \in D : /\ filled[o].start \in Int
                          /\ NeedsCrew(problem, o) => filled[o].crew # NoCrew
      BY <1>1, <1>2 DEF SameButLanes, SameWork
    <2>2. /\ IsFiniteSet(DOMAIN problem.dur) /\ D \subseteq DOMAIN problem.dur
          /\ DOMAIN problem.dur \subseteq Nat /\ DOMAIN problem.crewCap \subseteq Nat
      BY DEF AllIsRead, PlannerInv, RowsOk, ProblemOk
    <2>3. IsFiniteSet(DOMAIN filled) /\ DOMAIN filled \subseteq Int
      <3>1. IsFiniteSet(D)
        BY <2>2, FS_Subset
      <3>. QED
        BY <2>1, <2>2, <3>1
    <2>4. Crewed(problem, filled, bound)
      <3>1. \A o \in DOMAIN filled : filled[o].start \in Int
        BY <2>1
      <3>. QED
        BY <2>2, <2>3, <3>1, CrewsAreBound
    <2>. QED
      BY <2>1, <2>4 DEF Crewed
  <1>. HIDE DEF bound
  <1>4. DOMAIN stamped = D
    BY <1>3 DEF StampLanes
  <1>5. \A o \in D : stamped[o] = bound[o] \/ \E k : stamped[o] = [bound[o] EXCEPT !.lane = k]
    BY <1>3 DEF StampLanes
  <1>6. Published(problem, placed) = stamped
    BY DEF Published, bound, filled
  <1>. HIDE DEF stamped
  <1>7. ASSUME NEW o \in D
        PROVE  SameWork(placed[o], stamped[o])
    <2>1. SameWork(placed[o], bound[o])
      BY <1>2, <1>3 DEF SameButLanes
    <2>2. ASSUME NEW k PROVE SameWork(placed[o], [bound[o] EXCEPT !.lane = k])
      BY <2>1 DEF SameWork, RowFields
    <2>. QED
      BY <1>5, <2>1, <2>2
  <1>. QED
    BY <1>4, <1>6, <1>7 DEF SameButLanes

\* On a post with one lane every setup is found right.
LEMMA SetupsOfOneLanePass ==
  ASSUME AllIsRead, NEW c \in DOMAIN problem.cap, problem.cap[c] = 1,
         NEW rows, SameButLanes(placed, rows)
  PROVE  SetupsAt(problem, rows, c) = {}
  <1>. DEFINE S == AtPost(placed, c)
              at == ColourLanes(problem, c, rows, S).at
  <1>1. AtPost(rows, c) = S /\ S \in SUBSET DOMAIN placed
    BY RowsAreSame
  <1>2. \A o \in S : /\ OccStart(rows[o]) = OccStart(placed[o]) /\ rows[o].end = placed[o].end
                     /\ rows[o].setup = placed[o].setup
    BY <1>1 DEF SameButLanes, SameWork, OccStart
  <1>3. ~Excess(placed, S, 1)
    BY FrozenSetupsInTurn DEF AllIsRead, PlannerInv, PostsWithinCapacity, RoomOnPosts
  <1>4. OneByOne(placed, S)
    BY <1>3, OnCard, RowsOneByOne DEF AllIsRead, PlannerInv
  <1>5. OneByOne(rows, S)
    <2>. HIDE DEF S
    <2>. QED
      BY <1>2, <1>4 DEF OneByOne, Timed
  <1>6. ColourLanes(problem, c, rows, S) \in OnOneLane(problem, c, rows, S, S)
    <2>. HIDE DEF S
    <2>. QED
      BY <1>5, OneLaneInTurn
  <1>7. DOMAIN at = S /\ \A o \in S : InTurn(problem, c, rows, S, o, at[o])
    BY <1>6 DEF OnOneLane, Colourings
  <1>8. ASSUME NEW o \in S
        PROVE  /\ ~at[o].ambiguous
               /\ ExpectedSetup(problem, at[o]) # NoCell
               /\ rows[o].setup = ExpectedSetup(problem, at[o])
    <2>. DEFINE x == at[o].prev
                cell == Cell(problem, c, StateAfter(problem, x), problem.state[o])
    <2>1. /\ ~at[o].ambiguous /\ Follows(rows, S, o, x)
          /\ at[o].from = StateAfter(problem, x) /\ at[o].expected = cell
      BY <1>7 DEF InTurn
    <2>2. Follows(placed, S, o, x) /\ x \in S \cup {NoOp}
      <3>. HIDE DEF S, x
      <3>1. Follows(placed, S, o, x)
        BY <1>2, <2>1, FollowsReadsTimes
      <3>. QED
        BY <3>1 DEF Follows, OverBefore
    <2>3. SetupFits(problem, c, x, o, placed[o].setup)
      <3>. HIDE DEF x
      <3>. QED
        BY <2>2 DEF AllIsRead, PlannerInv, SetupsFollow, SetupsInTurn
    <2>4. IF cell = NoCell THEN problem.missing = "zero" /\ placed[o].setup = 0
                           ELSE placed[o].setup = cell
      BY <2>3 DEF SetupFits
    <2>5. cell = NoCell => StateAfter(problem, x) # Idle
      <3>1. o \in problem.ops
        BY <1>1 DEF AllIsRead, PlannerInv, RowsOk
      <3>. HIDE DEF x
      <3>. QED
        BY <2>4, <3>1 DEF AllIsRead, ReadsAllThatBinds, IdleCellsGiven
    <2>. HIDE DEF cell, x, at
    <2>. QED
      BY <1>2, <2>1, <2>4, <2>5 DEF ExpectedSetup, NoCell
  <1>. HIDE DEF at, S
  <1>. QED
    BY <1>1, <1>7, <1>8 DEF SetupsAt, Codes, at

\* OnlyShortOfOperations, in a state.
LEMMA NothingElseIsFound ==
  ASSUME PlannerInv
  PROVE  OnlyShortOfOperations
  <1>. SUFFICES ASSUME ReadsAllThatBinds(problem)
                PROVE  LET rows == Published(problem, placed)
                       IN Violations(problem, rows) \subseteq
                            Unfinished(problem, placed) \cup Recoloured(problem, rows)
    BY DEF OnlyShortOfOperations
  <1>. DEFINE rows == Published(problem, placed)
  <1>1. AllIsRead
    BY DEF AllIsRead
  <1>2. SameButLanes(placed, rows)
    BY <1>1, PublishingNamesLanes
  <1>. HIDE DEF rows
  <1>3. Others(problem, rows) = Others(problem, placed)
    BY <1>2, OthersAreSame
  <1>4. Coverage(problem, placed) \subseteq Unfinished(problem, placed)
    BY DEF Coverage, Unfinished
  <1>5. Others(problem, placed) \subseteq Unfinished(problem, placed)
    BY <1>1, <1>4, RowsFindNothing, LinksFindNothingElse, OverlapsFindNothing, StockFindsNothing DEF Others
  <1>6. Setups(problem, rows) \subseteq Recoloured(problem, rows)
    <2>1. \A c \in DOMAIN problem.cap : ~(problem.cap[c] > 1) => SetupsAt(problem, rows, c) = {}
      <3>1. \A c \in DOMAIN problem.cap : problem.cap[c] \in Nat \ {0}
        BY DEF PlannerInv, ProblemOk
      <3>. QED
        BY <1>1, <1>2, <3>1, SetupsOfOneLanePass
    <2>. QED
      BY <2>1 DEF Setups, Recoloured
  <1>7. Violations(problem, rows) = Others(problem, rows) \cup Setups(problem, rows)
    BY DEF Violations, Findings, Others, ReadsAllThatBinds
  <1>. QED
    BY <1>3, <1>5, <1>6, <1>7 DEF rows

\* Where the planner reads all that binds, the notary finds at any moment of
\* domain_greed that operations are missing, on posts with several lanes that
\* setups changed hands, and nothing else.
THEOREM NotaryFindsNothingElse == Spec => []OnlyShortOfOperations
  <1>1. PlannerInv => OnlyShortOfOperations
    BY NothingElseIsFound
  <1>. QED
    BY <1>1, PlannerKeepsInv, PTL

-----------------------------------------------------------------------------
(***************************************************************************)
(* apply_disruption: what an event leaves of a card.                       *)
(***************************************************************************)
\* The cards p and q differ in the fields F at most.
AlikeBut(F, p, q) == \A k \in ProblemFields \ F : q[k] = p[k]

\* A window that a closure leaves keeps out of it, and lies in one there was.
LEMMA PunchedWindows ==
  ASSUME NEW ws, ws \subseteq Int \X Int, NEW a \in Int, NEW b \in Int
  PROVE  /\ Punch(ws, a, b) \subseteq Int \X Int
         /\ \A w \in Punch(ws, a, b) : /\ w[2] <= a \/ b <= w[1]
                                      /\ \E v \in ws : v[1] <= w[1] /\ w[2] <= v[2]
  <1>1. ASSUME NEW w \in Punch(ws, a, b)
        PROVE  /\ w \in Int \X Int
               /\ w[2] <= a \/ b <= w[1]
               /\ \E v \in ws : v[1] <= w[1] /\ w[2] <= v[2]
    <2>1. PICK v \in ws : \/ w = <<v[1], IF v[2] < a THEN v[2] ELSE a>>
                          \/ w = <<IF v[1] > b THEN v[1] ELSE b, v[2]>>
      BY <1>1 DEF Punch
    <2>2. v[1] \in Int /\ v[2] \in Int
      BY <2>1
    <2>3. CASE w = <<v[1], IF v[2] < a THEN v[2] ELSE a>>
      BY <2>2, <2>3
    <2>4. CASE w = <<IF v[1] > b THEN v[1] ELSE b, v[2]>>
      BY <2>2, <2>4
    <2>. QED
      BY <2>1, <2>3, <2>4
  <1>. QED
    BY <1>1

\* The card q is of the same shop as p, and what differs is of its kind.
SameKind(p, q) ==
  /\ DOMAIN q = ProblemFields
  /\ AlikeBut({"cal", "stock", "dur", "ops", "links", "floor", "frozen"}, p, q)
  /\ q.ops \subseteq DOMAIN p.dur
  /\ q.dur \in [DOMAIN p.dur -> Nat \ {0}]
  /\ q.floor \in [DOMAIN p.dur -> Int]
  /\ \A s \in DOMAIN q.stock : SpareOk(q.stock[s])
  /\ DOMAIN q.cal = DOMAIN p.cal
  /\ \A k \in DOMAIN q.cal : q.cal[k] \subseteq Int \X Int
  /\ DOMAIN q.frozen \subseteq q.ops
  /\ \A f \in DOMAIN q.frozen : FrozenRowOk(p, q.frozen[f])

LEMMA OfItsOwnKind ==
  ASSUME NEW p, ProblemOk(p)
  PROVE  SameKind(p, p)
  BY DEF ProblemOk, SameKind, AlikeBut

\* Model validation, but for the frozen batch, accepts it too.
LEMMA CardStaysOk ==
  ASSUME NEW p, ProblemOk(p), NEW q, SameKind(p, q)
  PROVE  ProblemOk(q)
  <1>1. /\ q.horizon = p.horizon /\ q.posts = p.posts /\ q.cap = p.cap /\ q.setup = p.setup
        /\ q.state = p.state /\ q.crewCap = p.crewCap /\ q.tools = p.tools /\ q.toolCap = p.toolCap
    BY DEF AlikeBut, ProblemFields, SameKind
  <1>2. DOMAIN q.dur = DOMAIN p.dur
    BY DEF SameKind
  <1>3. \A f \in DOMAIN q.frozen : FrozenRowOk(q, q.frozen[f])
    BY <1>1 DEF FrozenRowOk, RowOk, SameKind
  <1>. DEFINE visits == DOMAIN p.dur
              states == {Idle} \cup {p.state[o] : o \in visits}
  <1>4. /\ IsFiniteSet(visits) /\ visits \subseteq Nat \ {NoOp} /\ p.horizon \in Nat
        /\ \A o \in visits : p.posts[o] \subseteq DOMAIN p.cap /\ p.tools[o] \subseteq DOMAIN p.toolCap
        /\ DOMAIN p.crewCap \subseteq Nat \ {NoCrew}
        /\ \A w \in DOMAIN p.crewCap : CrewCal(w) \in DOMAIN p.cal
        /\ \A x \in DOMAIN p.toolCap : ToolCal(x) \in DOMAIN p.cal
    BY DEF ProblemOk
  <1>5. \A c \in DOMAIN p.cap : /\ p.cap[c] \in Nat \ {0}
                               /\ PostCal(c) \in DOMAIN p.cal
                               /\ \A from \in states, o \in visits :
                                    Cell(p, c, from, p.state[o]) \in Nat \cup {NoCell}
    BY DEF ProblemOk
  <1>6. \A c, from, o : Cell(q, c, from, q.state[o]) = Cell(p, c, from, p.state[o])
    BY <1>1 DEF Cell
  <1>7. \A c \in DOMAIN q.cap : /\ q.cap[c] \in Nat \ {0}
                               /\ PostCal(c) \in DOMAIN q.cal
                               /\ \A from \in states, o \in visits :
                                    Cell(q, c, from, q.state[o]) \in Nat \cup {NoCell}
    <2>. HIDE DEF states
    <2>. QED
      BY <1>1, <1>5, <1>6 DEF SameKind
  <1>8. {Idle} \cup {q.state[o] : o \in DOMAIN q.dur} = states
    BY <1>1, <1>2
  <1>. HIDE DEF states
  <1>9. /\ q.policy = p.policy /\ q.latest = p.latest /\ q.permit = p.permit
        /\ p.policy \in [visits -> {"exact", "min", "preemptive"}]
        /\ p.latest \in [visits -> Int]
        /\ \A o \in visits, w \in DOMAIN p.crewCap : p.permit[o][w] \in Int
    BY DEF AlikeBut, ProblemFields, SameKind, ProblemOk
  <1>10. /\ \A w \in DOMAIN p.crewCap : p.crewCap[w] \in Nat \ {0}
         /\ \A x \in DOMAIN p.toolCap : p.toolCap[x] \in Nat \ {0}
    BY DEF ProblemOk
  <1>. QED
    BY <1>1, <1>2, <1>3, <1>4, <1>7, <1>8, <1>9, <1>10 DEF ProblemOk, SameKind

\* An event changes the calendar of what is closed, a spare, a duration, or the
\* operations that are on the card.
LEMMA Applied ==
  ASSUME NEW p, ProblemOk(p), NEW e, EventOk(p, e), e.kind # "INSPECTION"
  PROVE  LET q == Apply(p, e)
         IN /\ ProblemOk(q)
            /\ AlikeBut({"cal", "stock", "dur", "ops"}, p, q)
            /\ p.ops \subseteq q.ops
            /\ DOMAIN q.dur = DOMAIN p.dur /\ DOMAIN q.stock = DOMAIN p.stock
            /\ DOMAIN q.cal = DOMAIN p.cal
            /\ IF IsClosure(e)
               THEN /\ Closure(e)[1] \in DOMAIN p.cal
                    /\ q.cal = [p.cal EXCEPT ![Closure(e)[1]] = Punch(@, e.from, e.to)]
               ELSE q.cal = p.cal
  <1>. DEFINE q == Apply(p, e)
  <1>0. SameKind(p, p)
    BY OfItsOwnKind
  <1>1. CASE IsClosure(e)
    <2>. DEFINE k == Closure(e)[1]
    <2>1. k \in DOMAIN p.cal /\ e.from \in Int /\ e.to \in Int
      <3>1. k = IF e.kind = "POST_DOWN" THEN PostCal(e.on) ELSE CrewCal(e.on)
        BY DEF Closure
      <3>2. /\ e.kind = "POST_DOWN" => e.on \in DOMAIN p.cap
            /\ e.kind = "CREW_ABSENT" => e.on \in DOMAIN p.crewCap
            /\ e.from \in Int /\ e.to \in Int
        BY <1>1 DEF EventOk, IsClosure
      <3>3. /\ \A c \in DOMAIN p.cap : PostCal(c) \in DOMAIN p.cal
            /\ \A w \in DOMAIN p.crewCap : CrewCal(w) \in DOMAIN p.cal
        BY DEF ProblemOk
      <3>4. e.kind = "POST_DOWN" \/ e.kind = "CREW_ABSENT"
        BY <1>1 DEF IsClosure
      <3>. HIDE DEF k
      <3>. QED
        BY <3>1, <3>2, <3>3, <3>4
    <2>2. q = [p EXCEPT !.cal[k] = Punch(@, e.from, e.to)]
      BY <1>1 DEF Apply, IsClosure
    <2>. HIDE DEF k, q
    <2>3. /\ DOMAIN q = ProblemFields /\ AlikeBut({"cal"}, p, q)
          /\ q.cal = [p.cal EXCEPT ![k] = Punch(@, e.from, e.to)]
      BY <2>2 DEF ProblemOk, ProblemFields, AlikeBut
    <2>4. \A c \in DOMAIN q.cal : q.cal[c] \subseteq Int \X Int
      <3>1. \A c \in DOMAIN p.cal : p.cal[c] \subseteq Int \X Int
        BY DEF ProblemOk
      <3>2. Punch(p.cal[k], e.from, e.to) \subseteq Int \X Int
        BY <2>1, <3>1, PunchedWindows
      <3>. QED
        BY <2>1, <2>3, <3>1, <3>2
    <2>5. /\ q.ops = p.ops /\ q.dur = p.dur /\ q.floor = p.floor /\ q.frozen = p.frozen
          /\ q.stock = p.stock
      BY <2>3 DEF AlikeBut, ProblemFields
    <2>6. AlikeBut({"cal", "stock", "dur", "ops"}, p, q)
          /\ AlikeBut({"cal", "stock", "dur", "ops", "links", "floor", "frozen"}, p, q)
      BY <2>3 DEF AlikeBut
    <2>7. ProblemOk(q)
      <3>1. SameKind(p, q)
        BY <1>0, <2>3, <2>4, <2>5, <2>6 DEF SameKind
      <3>. QED
        BY <3>1, CardStaysOk
    <2>. QED
      BY <1>1, <2>1, <2>3, <2>5, <2>6, <2>7 DEF k, q
  <1>2. CASE e.kind = "PART_DELAY"
    <2>. DEFINE late == [p.stock[e.on] EXCEPT !.from = e.at, !.receipts = {x \in @ : x[1] >= e.at}]
    <2>1. q = [p EXCEPT !.stock[e.on] = late]
      BY <1>2 DEF Apply, IsClosure
    <2>. HIDE DEF q
    <2>2. /\ DOMAIN q = ProblemFields /\ AlikeBut({"stock"}, p, q) /\ DOMAIN q.stock = DOMAIN p.stock
          /\ q.stock = [p.stock EXCEPT ![e.on] = late]
      BY <2>1 DEF ProblemOk, ProblemFields, AlikeBut
    <2>3. q.ops = p.ops /\ q.dur = p.dur /\ q.floor = p.floor /\ q.frozen = p.frozen /\ q.cal = p.cal
      BY <2>2 DEF AlikeBut, ProblemFields
    <2>4. AlikeBut({"cal", "stock", "dur", "ops"}, p, q)
          /\ AlikeBut({"cal", "stock", "dur", "ops", "links", "floor", "frozen"}, p, q)
      BY <2>2 DEF AlikeBut
    <2>5. \A s \in DOMAIN q.stock : SpareOk(q.stock[s])
      <3>1. \A s \in DOMAIN p.stock : SpareOk(p.stock[s])
        BY DEF ProblemOk
      <3>2. SpareOk(late)
        <4>1. SpareOk(p.stock[e.on]) /\ e.at \in Int
          BY <1>2, <3>1 DEF EventOk
        <4>. QED
          BY <4>1 DEF SpareOk
      <3>. HIDE DEF late
      <3>. QED
        BY <2>2, <3>1, <3>2
    <2>6. ProblemOk(q)
      <3>1. SameKind(p, q)
        BY <1>0, <2>2, <2>3, <2>4, <2>5 DEF SameKind
      <3>. QED
        BY <3>1, CardStaysOk
    <2>. QED
      BY <1>2, <2>2, <2>3, <2>4, <2>6 DEF q, IsClosure
  <1>3. CASE e.kind = "DURATION_OVERRUN"
    <2>1. q = [p EXCEPT !.dur[e.on] = e.minutes] /\ e.minutes \in Nat \ {0}
      BY <1>3 DEF Apply, IsClosure, EventOk
    <2>. HIDE DEF q
    <2>2. DOMAIN q = ProblemFields /\ AlikeBut({"dur"}, p, q) /\ q.dur = [p.dur EXCEPT ![e.on] = e.minutes]
      BY <2>1 DEF ProblemOk, ProblemFields, AlikeBut
    <2>3. q.ops = p.ops /\ q.stock = p.stock /\ q.floor = p.floor /\ q.frozen = p.frozen /\ q.cal = p.cal
      BY <2>2 DEF AlikeBut, ProblemFields
    <2>4. AlikeBut({"cal", "stock", "dur", "ops"}, p, q)
          /\ AlikeBut({"cal", "stock", "dur", "ops", "links", "floor", "frozen"}, p, q)
      BY <2>2 DEF AlikeBut
    <2>5. q.dur \in [DOMAIN p.dur -> Nat \ {0}]
      <3>1. p.dur \in [DOMAIN p.dur -> Nat \ {0}]
        BY DEF ProblemOk
      <3>. QED
        BY <2>1, <2>2, <3>1
    <2>6. ProblemOk(q)
      <3>1. SameKind(p, q)
        BY <1>0, <2>2, <2>3, <2>4, <2>5 DEF SameKind
      <3>. QED
        BY <3>1, CardStaysOk
    <2>. QED
      BY <1>3, <2>2, <2>3, <2>4, <2>5, <2>6 DEF q, IsClosure
  <1>4. CASE e.kind = "URGENT_JOB"
    <2>1. q = [p EXCEPT !.ops = @ \cup e.ops] /\ e.ops \subseteq DOMAIN p.dur
      BY <1>4 DEF Apply, IsClosure, EventOk
    <2>. HIDE DEF q
    <2>2. DOMAIN q = ProblemFields /\ AlikeBut({"ops"}, p, q) /\ q.ops = p.ops \cup e.ops
      BY <2>1 DEF ProblemOk, ProblemFields, AlikeBut
    <2>3. q.dur = p.dur /\ q.stock = p.stock /\ q.floor = p.floor /\ q.frozen = p.frozen /\ q.cal = p.cal
      BY <2>2 DEF AlikeBut, ProblemFields
    <2>4. AlikeBut({"cal", "stock", "dur", "ops"}, p, q)
          /\ AlikeBut({"cal", "stock", "dur", "ops", "links", "floor", "frozen"}, p, q)
      BY <2>2 DEF AlikeBut
    <2>5. q.ops \subseteq DOMAIN p.dur /\ DOMAIN q.frozen \subseteq q.ops
      BY <2>1, <2>2, <2>3 DEF ProblemOk
    <2>6. ProblemOk(q)
      <3>1. SameKind(p, q)
        BY <1>0, <2>2, <2>3, <2>4, <2>5 DEF SameKind
      <3>. QED
        BY <3>1, CardStaysOk
    <2>. QED
      BY <1>4, <2>2, <2>3, <2>4, <2>6 DEF q, IsClosure
  <1>5. CASE e.kind = "RELEASE"
    <2>1. q = p
      BY <1>5 DEF Apply, IsClosure
    <2>. QED
      BY <1>5, <2>1 DEF AlikeBut, IsClosure
  <1>. QED
    BY <1>1, <1>2, <1>3, <1>4, <1>5 DEF EventOk, IsClosure

-----------------------------------------------------------------------------
(***************************************************************************)
(* _replan_lane_local: the card that planning starts from again.           *)
(***************************************************************************)
\* The released visits are on the card, and those that were hit are among them.
LEMMA ReleasedVisits ==
  ASSUME NEW p, NEW plan, DOMAIN plan \subseteq p.ops, NEW hits \in SUBSET p.ops
  PROVE  hits \subseteq Release(p, plan, hits) /\ Release(p, plan, hits) \subseteq p.ops
  <1>1. LaneTail(p, plan, hits) \subseteq DOMAIN plan
    BY DEF LaneTail, AtPost
  <1>. QED
    BY <1>1 DEF Release

\* Freezing keeps the rows that were frozen and freezes the others as issued.
LEMMA FrozenAgain ==
  ASSUME NEW p, ProblemOk(p), NEW plan, NEW free,
         \A o \in DOMAIN plan : o \in p.ops /\ RowOk(p, plan[o]),
         \A f \in DOMAIN p.frozen : f \in DOMAIN plan => SameSlot(plan[f], p.frozen[f])
  PROVE  LET Z == FreezeRest(p, plan, free)
         IN /\ DOMAIN Z = (DOMAIN p.frozen \cup DOMAIN plan) \ free
            /\ \A f \in DOMAIN Z : f \in p.ops /\ FrozenRowOk(p, Z[f])
            /\ \A o \in DOMAIN plan \ free : SameSlot(plan[o], Z[o])
  <1>. DEFINE Z == FreezeRest(p, plan, free)
  <1>1. /\ DOMAIN Z = (DOMAIN p.frozen \cup DOMAIN plan) \ free
        /\ \A f \in DOMAIN Z : Z[f] = IF f \in DOMAIN p.frozen THEN p.frozen[f] ELSE AsFrozen(plan[f])
    BY DEF FreezeRest
  <1>2. ASSUME NEW f \in DOMAIN plan
        PROVE  FrozenRowOk(p, AsFrozen(plan[f])) /\ SameSlot(plan[f], AsFrozen(plan[f]))
    <2>1. RowOk(p, plan[f])
      OBVIOUS
    <2>. QED
      BY <2>1 DEF AsFrozen, Row, FrozenRowOk, RowOk, SameSlot
  <1>3. \A f \in DOMAIN p.frozen : f \in p.ops /\ FrozenRowOk(p, p.frozen[f])
    BY DEF ProblemOk
  <1>. HIDE DEF Z
  <1>. QED
    BY <1>1, <1>2, <1>3 DEF Z

\* What was hit may start again when its old slot is over.
LEMMA FloorsAfterHits ==
  ASSUME NEW p, ProblemOk(p), NEW plan, NEW hits,
         \A o \in DOMAIN plan : o \in p.ops /\ RowOk(p, plan[o])
  PROVE  LET F == RestartFloor(p, plan, hits)
         IN /\ F \in [DOMAIN p.dur -> Int]
            /\ \A o \in hits \cap DOMAIN plan : F[o] >= plan[o].end
  <1>. DEFINE F == RestartFloor(p, plan, hits)
  <1>1. p.floor \in [DOMAIN p.dur -> Int] /\ p.ops \subseteq DOMAIN p.dur
    BY DEF ProblemOk
  <1>2. \A o \in DOMAIN plan : o \in DOMAIN p.dur /\ plan[o].end \in Int
    BY <1>1 DEF RowOk
  <1>3. F = [o \in DOMAIN p.dur |-> IF o \in hits \cap DOMAIN plan
                                     THEN Max({p.floor[o], plan[o].end}) ELSE p.floor[o]]
    BY <1>1 DEF RestartFloor
  <1>4. ASSUME NEW o \in DOMAIN p.dur
        PROVE  F[o] \in Int /\ (o \in hits \cap DOMAIN plan => F[o] >= plan[o].end)
    <2>1. p.floor[o] \in Int
      BY <1>1
    <2>2. CASE o \in hits \cap DOMAIN plan
      <3>1. F[o] = Max({p.floor[o], plan[o].end}) /\ plan[o].end \in Int
        BY <1>2, <1>3, <2>2
      <3>. QED
        BY <2>1, <3>1, LaterOfTwo
    <2>3. CASE o \notin hits \cap DOMAIN plan
      <3>1. F[o] = p.floor[o]
        BY <1>3, <2>3
      <3>. QED
        BY <2>1, <2>3, <3>1
    <2>. QED
      BY <2>2, <2>3
  <1>5. F \in [DOMAIN p.dur -> Int]
    <2>. HIDE DEF F
    <2>. QED
      BY <1>3, <1>4
  <1>. HIDE DEF F
  <1>. QED
    BY <1>2, <1>4, <1>5 DEF F

-----------------------------------------------------------------------------
(***************************************************************************)
(* The invariant of replanning.                                            *)
(***************************************************************************)
\* The events go on to be about things there are.
EventsFit == \A e \in Events : EventOk(problem, e)

IssuedPlan == phase = "issued" => done /\ issued = Published(problem, placed)

ReplanSets ==
  /\ phase \in {"planning", "issued"}
  /\ rounds \in 0..MaxRounds
  /\ replan.hits \subseteq problem.ops
  /\ replan.free \subseteq problem.ops
  /\ \A o \in DOMAIN replan.base : o \in problem.ops /\ RowOk(problem, replan.base[o])

\* What the last event did not free is frozen where it was issued.
KeptRows ==
  \A o \in DOMAIN replan.base \ replan.free :
    o \in DOMAIN problem.frozen /\ SameSlot(replan.base[o], problem.frozen[o])

\* What it hit is not frozen, and may start again when its old slot is over.
BrokenSlotsOver ==
  \A o \in replan.hits \cap DOMAIN replan.base :
    o \notin DOMAIN problem.frozen /\ problem.floor[o] >= replan.base[o].end

\* No window of a calendar reaches into what was reported closed.
CutFrom(p, k) ==
  /\ k[2] \in Int /\ k[3] \in Int /\ k[2] < k[3]
  /\ k[1] \in DOMAIN p.cal
  /\ \A w \in p.cal[k[1]] : w[2] <= k[2] \/ k[3] <= w[1]

ClosuresCut == \A k \in closures : CutFrom(problem, k)

ReplanInv ==
  /\ PlannerInv
  /\ ReplanSets
  /\ EventsFit
  /\ IssuedPlan
  /\ KeptRows
  /\ BrokenSlotsOver
  /\ ClosuresCut

LEMMA ReplanInitInv == ReplanInit => ReplanInv
  <1>. SUFFICES ASSUME ReplanInit PROVE ReplanInv
    OBVIOUS
  <1>1. PlannerInv
    BY PlannerInit DEF ReplanInit
  <1>2. ReplanSets
    BY EventsAssumption DEF ReplanInit, ReplanSets, NoReplan, NoRows
  <1>3. EventsFit
    BY EventsAssumption DEF ReplanInit, Init, EventsFit
  <1>4. IssuedPlan /\ KeptRows /\ BrokenSlotsOver /\ ClosuresCut
    BY DEF ReplanInit, IssuedPlan, KeptRows, BrokenSlotsOver, ClosuresCut, NoReplan, NoRows
  <1>. QED
    BY <1>1, <1>2, <1>3, <1>4 DEF ReplanInv

\* The issued plan, while an event may come.
LEMMA IssuedRows ==
  ASSUME ReplanInv, phase = "issued"
  PROVE  /\ DOMAIN issued = DOMAIN placed /\ DOMAIN issued \subseteq problem.ops
         /\ \A o \in DOMAIN issued : RowOk(problem, issued[o]) /\ SameSlot(issued[o], placed[o])
         /\ \A f \in DOMAIN problem.frozen : SameSlot(issued[f], problem.frozen[f])
         /\ \A o \in DOMAIN issued \ DOMAIN problem.frozen : issued[o].tools = problem.tools[o]
  <1>1. /\ ProblemOk(problem) /\ RowsOk(problem, placed) /\ issued = Published(problem, placed)
        /\ FrozenStay
    BY DEF ReplanInv, PlannerInv, IssuedPlan
  <1>3. \A o \in DOMAIN placed \ DOMAIN problem.frozen : placed[o].tools = problem.tools[o]
    BY DEF ReplanInv, PlannerInv, PlacedFitsAlone, FitsAlone
  <1>2. /\ DOMAIN issued = DOMAIN placed
        /\ \A o \in DOMAIN issued :
             /\ RowOk(problem, issued[o]) /\ SameSlot(issued[o], placed[o])
             /\ issued[o].tools = IF placed[o].tools = {} THEN problem.tools[o] ELSE placed[o].tools
    BY <1>1, PublishedRows
  <1>. QED
    BY <1>1, <1>2, <1>3 DEF RowsOk, FrozenStay

\* What an event names is on the card that it leaves.
LEMMA HitsOnCard ==
  ASSUME NEW p, ProblemOk(p), NEW e, EventOk(p, e), e.kind # "INSPECTION", Applies(p, e),
         NEW plan, DOMAIN plan \subseteq p.ops
  PROVE  Affected(p, e, plan) \subseteq Apply(p, e).ops
  <1>1. p.ops \subseteq Apply(p, e).ops
    BY Applied
  <1>2. CASE e.kind \in {"POST_DOWN", "CREW_ABSENT", "PART_DELAY"}
    <2>1. Affected(p, e, plan) \subseteq DOMAIN plan
      BY <1>2 DEF Affected
    <2>. QED
      BY <1>1, <2>1
  <1>3. CASE e.kind = "DURATION_OVERRUN"
    BY <1>1, <1>3 DEF Affected, Applies
  <1>4. CASE e.kind = "URGENT_JOB"
    <2>1. Apply(p, e) = [p EXCEPT !.ops = @ \cup e.ops]
      BY <1>4 DEF Apply, IsClosure
    <2>2. e.ops \subseteq Apply(p, e).ops
      BY <2>1 DEF ProblemOk, ProblemFields
    <2>3. Affected(p, e, plan) = e.ops
      BY <1>4 DEF Affected
    <2>. QED
      BY <2>2, <2>3
  <1>5. CASE e.kind = "RELEASE"
    BY <1>1, <1>5 DEF Affected, Applies
  <1>. QED
    BY <1>2, <1>3, <1>4, <1>5 DEF EventOk

\* The loop starts again on a card with other frozen rows.
LEMMA StartsAgain ==
  ASSUME ProblemOk(problem)', placed' = problem'.frozen, done' = FALSE
  PROVE  PlannerInv'
  <1>. DEFINE p == problem'
  <1>1. /\ DOMAIN p.frozen \subseteq p.ops
        /\ \A f \in DOMAIN p.frozen : FrozenRowOk(p, p.frozen[f])
    BY DEF ProblemOk
  <1>2. ReadsAllThatBinds(p) => SetupsInTurn(p, p.frozen)
    BY FrozenSetupsInTurn
  <1>. QED
    BY <1>1, <1>2 DEF PlannerInv, TypeOK, RowsOk, PlacedRowOk, FrozenRowOk, FrozenStay,
       PlacedFitsAlone, SetupsFollow, PlacedInOrder, CrewsAndToolsApart, PostsWithinCapacity

\* A closure is cut out of its calendar, and what was cut out stays so.
LEMMA ClosuresStayCut ==
  ASSUME NEW p, ProblemOk(p), NEW e, EventOk(p, e), e.kind # "INSPECTION"
  PROVE  /\ \A k : CutFrom(p, k) => CutFrom(Apply(p, e), k)
         /\ IsClosure(e) => CutFrom(Apply(p, e), Closure(e))
  <1>. DEFINE q == Apply(p, e)
              c == Closure(e)[1]
  <1>1. CASE IsClosure(e)
    <2>1. e.from \in Int /\ e.to \in Int /\ e.from < e.to
      BY <1>1 DEF IsClosure, EventOk
    <2>2. c \in DOMAIN p.cal /\ q.cal = [p.cal EXCEPT ![c] = Punch(@, e.from, e.to)]
      BY <1>1, Applied
    <2>3. p.cal[c] \subseteq Int \X Int
      BY <2>2 DEF ProblemOk
    <2>4. Closure(e) = <<c, e.from, e.to>>
      BY DEF Closure
    <2>. HIDE DEF q, c
    <2>5. \A w \in q.cal[c] : /\ w \in Int \X Int
                              /\ w[2] <= e.from \/ e.to <= w[1]
                              /\ \E v \in p.cal[c] : v[1] <= w[1] /\ w[2] <= v[2]
      <3>1. q.cal[c] = Punch(p.cal[c], e.from, e.to)
        BY <2>2
      <3>. QED
        BY <2>1, <2>3, <3>1, PunchedWindows
    <2>6. CutFrom(q, Closure(e))
      BY <2>1, <2>2, <2>4, <2>5 DEF CutFrom
    <2>7. ASSUME NEW k, CutFrom(p, k)
          PROVE  CutFrom(q, k)
      <3>1. CASE k[1] # c
        BY <2>2, <2>7, <3>1 DEF CutFrom
      <3>2. CASE k[1] = c
        <4>1. ASSUME NEW w \in q.cal[c]
              PROVE  w[2] <= k[2] \/ k[3] <= w[1]
          <5>1. PICK v \in p.cal[c] : v[1] <= w[1] /\ w[2] <= v[2]
            BY <2>5
          <5>2. v[2] <= k[2] \/ k[3] <= v[1]
            BY <2>7, <3>2 DEF CutFrom
          <5>3. /\ v[1] \in Int /\ v[2] \in Int /\ w[1] \in Int /\ w[2] \in Int
                /\ k[2] \in Int /\ k[3] \in Int
            BY <2>3, <2>5, <2>7 DEF CutFrom
          <5>. QED
            BY <5>1, <5>2, <5>3
        <4>. QED
          BY <2>2, <2>7, <3>2, <4>1 DEF CutFrom
      <3>. QED
        BY <3>1, <3>2
    <2>. QED
      BY <2>6, <2>7 DEF q
  <1>2. CASE ~IsClosure(e)
    <2>1. q.cal = p.cal
      BY <1>2, Applied
    <2>. QED
      BY <1>2, <2>1 DEF CutFrom
  <1>. QED
    BY <1>1, <1>2

LEMMA DisruptKeeps ==
  ASSUME ReplanInv, NEW e \in Events, e.kind # "INSPECTION", NEW limit, Disrupt(e, limit)
  PROVE  ReplanInv'
  <1>. DEFINE p == problem
              q == Apply(p, e)
              hits == Affected(p, e, issued)
              free == Release(q, issued, hits) \ (Protected(issued, limit) \ hits)
              F == RestartFloor(q, issued, hits)
              Z == FreezeRest(q, issued, free)
  <1>1. ProblemOk(p) /\ EventOk(p, e) /\ phase = "issued" /\ Applies(p, e)
    BY DEF ReplanInv, PlannerInv, EventsFit, Disrupt
  <1>2. /\ problem' = [q EXCEPT !.floor = F, !.frozen = Z] /\ placed' = problem'.frozen /\ done' = FALSE
        /\ phase' = "planning" /\ rounds' = rounds + 1 /\ rounds < MaxRounds
        /\ replan'.hits = hits /\ replan'.free = free /\ replan'.base = issued
        /\ closures' \subseteq closures \cup {Closure(e)}
        /\ ~IsClosure(e) => closures' = closures
    BY DEF Disrupt
  <1>3. /\ DOMAIN issued \subseteq p.ops
        /\ \A o \in DOMAIN issued : RowOk(p, issued[o])
        /\ \A f \in DOMAIN p.frozen : SameSlot(issued[f], p.frozen[f])
    BY <1>1, IssuedRows
  <1>4. /\ ProblemOk(q) /\ AlikeBut({"cal", "stock", "dur", "ops"}, p, q) /\ p.ops \subseteq q.ops
        /\ DOMAIN q.dur = DOMAIN p.dur /\ DOMAIN q.stock = DOMAIN p.stock
    BY <1>1, Applied
  <1>5. hits \in SUBSET q.ops
    BY <1>1, <1>3, HitsOnCard
  <1>6. \A k : CutFrom(p, k) => CutFrom(q, k)
    BY <1>1, ClosuresStayCut
  <1>7. IsClosure(e) => CutFrom(q, Closure(e))
    BY <1>1, ClosuresStayCut
  <1>. HIDE DEF p, q, hits
  <1>8. q.cap = p.cap /\ q.frozen = p.frozen /\ q.crewCap = p.crewCap /\ q.toolCap = p.toolCap
    BY <1>4 DEF AlikeBut, ProblemFields
  <1>9. \A o \in DOMAIN issued : o \in q.ops /\ RowOk(q, issued[o])
    BY <1>3, <1>4, <1>8 DEF RowOk
  <1>10. hits \subseteq free /\ free \subseteq q.ops
    BY <1>5, <1>9, ReleasedVisits
  <1>11. F \in [DOMAIN q.dur -> Int] /\ \A o \in hits \cap DOMAIN issued : F[o] >= issued[o].end
    BY <1>4, <1>9, FloorsAfterHits
  <1>12. /\ DOMAIN Z = (DOMAIN q.frozen \cup DOMAIN issued) \ free
         /\ \A f \in DOMAIN Z : f \in q.ops /\ FrozenRowOk(q, Z[f])
         /\ \A o \in DOMAIN issued \ free : SameSlot(issued[o], Z[o])
    BY <1>3, <1>4, <1>8, <1>9, FrozenAgain
  <1>. HIDE DEF F, Z, free
  <1>. DEFINE r == problem'
  <1>13. /\ DOMAIN r = ProblemFields /\ AlikeBut({"floor", "frozen"}, q, r)
         /\ r.floor = F /\ r.frozen = Z
    BY <1>2, <1>4 DEF ProblemOk, ProblemFields, AlikeBut
  <1>. HIDE DEF r
  <1>14. /\ r.ops = q.ops /\ r.dur = q.dur /\ r.cal = q.cal /\ r.cap = q.cap /\ r.crewCap = q.crewCap
         /\ r.stock = q.stock /\ r.toolCap = q.toolCap
    BY <1>13 DEF AlikeBut, ProblemFields
  <1>15. ProblemOk(r)
    <2>1. AlikeBut({"cal", "stock", "dur", "ops", "links", "floor", "frozen"}, q, r)
      BY <1>13 DEF AlikeBut
    <2>2. SameKind(q, q)
      BY <1>4, OfItsOwnKind
    <2>3. DOMAIN r.frozen \subseteq r.ops /\ \A f \in DOMAIN r.frozen : FrozenRowOk(q, r.frozen[f])
      BY <1>12, <1>13, <1>14
    <2>4. SameKind(q, r)
      BY <1>11, <1>13, <1>14, <2>1, <2>2, <2>3 DEF SameKind
    <2>. QED
      BY <1>4, <2>4, CardStaysOk
  <1>16. PlannerInv'
    <2>1. ProblemOk(problem)' /\ placed' = problem'.frozen /\ done' = FALSE
      BY <1>2, <1>15 DEF r
    <2>. QED
      BY <2>1, StartsAgain
  <1>17. ReplanSets'
    <2>1. \A o \in DOMAIN issued : o \in r.ops /\ RowOk(r, issued[o])
      BY <1>9, <1>14 DEF RowOk
    <2>2. rounds' \in 0..MaxRounds
      BY <1>2, EventsAssumption DEF ReplanInv, ReplanSets
    <2>. QED
      BY <1>2, <1>5, <1>10, <1>14, <2>1, <2>2 DEF ReplanSets, r
  <1>18. EventsFit'
    <2>1. \A x : EventOk(p, x) => EventOk(r, x)
      BY <1>4, <1>8, <1>14 DEF EventOk
    <2>. QED
      BY <2>1 DEF ReplanInv, EventsFit, p, r
  <1>19. IssuedPlan'
    BY <1>2 DEF IssuedPlan
  <1>20. KeptRows'
    BY <1>2, <1>12, <1>13 DEF KeptRows, r
  <1>21. BrokenSlotsOver'
    BY <1>2, <1>10, <1>11, <1>12, <1>13 DEF BrokenSlotsOver, r
  <1>22. ClosuresCut'
    <2>1. \A k : CutFrom(q, k) => CutFrom(r, k)
      BY <1>14 DEF CutFrom
    <2>2. \A k \in closures : CutFrom(p, k)
      BY DEF ReplanInv, ClosuresCut, p
    <2>. QED
      BY <1>2, <1>6, <1>7, <2>1, <2>2 DEF ClosuresCut, r
  <1>. QED
    BY <1>16, <1>17, <1>18, <1>19, <1>20, <1>21, <1>22 DEF ReplanInv

LEMMA InspectKeeps ==
  ASSUME ReplanInv, NEW e \in Events, Inspect(e)
  PROVE  ReplanInv'
  <1>. DEFINE p == problem
              L == [o \in DOMAIN p.links |-> IF o \in DOMAIN e.rewire THEN e.rewire[o] ELSE p.links[o]]
              q == [p EXCEPT !.ops = @ \cup e.ops, !.links = L]
              Z == FreezeRest(q, issued, {})
              r == problem'
  <1>1. /\ ProblemOk(p) /\ EventOk(p, e) /\ phase = "issued" /\ e.kind = "INSPECTION"
        /\ e.ops \subseteq DOMAIN p.dur
    BY DEF ReplanInv, PlannerInv, EventsFit, Inspect, EventOk
  <1>2. /\ r = [q EXCEPT !.frozen = Z] /\ placed' = r.frozen /\ done' = FALSE
        /\ phase' = "planning" /\ rounds' = rounds + 1 /\ rounds < MaxRounds
        /\ replan'.hits = {} /\ replan'.free = e.ops /\ replan'.base = issued
        /\ closures' = closures
    BY DEF Inspect
  <1>3. /\ DOMAIN issued \subseteq p.ops
        /\ \A o \in DOMAIN issued : RowOk(p, issued[o])
        /\ \A f \in DOMAIN p.frozen : SameSlot(issued[f], p.frozen[f])
    BY <1>1, IssuedRows
  <1>4. /\ DOMAIN q = ProblemFields /\ AlikeBut({"ops", "links"}, p, q)
        /\ q.ops = p.ops \cup e.ops
    <2>. HIDE DEF L
    <2>. QED
      BY <1>1 DEF ProblemOk, ProblemFields, AlikeBut
  <1>. HIDE DEF p, q
  <1>5. /\ q.cap = p.cap /\ q.frozen = p.frozen /\ q.dur = p.dur /\ q.floor = p.floor /\ q.cal = p.cal
        /\ q.stock = p.stock /\ q.crewCap = p.crewCap /\ q.toolCap = p.toolCap
    BY <1>4 DEF AlikeBut, ProblemFields
  <1>6. SameKind(p, p)
    BY <1>1, OfItsOwnKind
  <1>7. ProblemOk(q)
    <2>1. AlikeBut({"cal", "stock", "dur", "ops", "links", "floor", "frozen"}, p, q)
      BY <1>4 DEF AlikeBut
    <2>2. SameKind(p, q)
      BY <1>1, <1>4, <1>5, <1>6, <2>1 DEF SameKind
    <2>. QED
      BY <1>1, <2>2, CardStaysOk
  <1>8. \A o \in DOMAIN issued : o \in q.ops /\ RowOk(q, issued[o])
    BY <1>3, <1>4, <1>5 DEF RowOk
  <1>9. /\ DOMAIN Z = DOMAIN q.frozen \cup DOMAIN issued
        /\ \A f \in DOMAIN Z : f \in q.ops /\ FrozenRowOk(q, Z[f])
        /\ \A o \in DOMAIN issued : SameSlot(issued[o], Z[o])
    <2>1. /\ DOMAIN Z = (DOMAIN q.frozen \cup DOMAIN issued) \ {}
          /\ \A f \in DOMAIN Z : f \in q.ops /\ FrozenRowOk(q, Z[f])
          /\ \A o \in DOMAIN issued \ {} : SameSlot(issued[o], Z[o])
      BY <1>3, <1>5, <1>7, <1>8, FrozenAgain
    <2>. HIDE DEF Z
    <2>. QED
      BY <2>1
  <1>. HIDE DEF Z, r
  <1>10. DOMAIN r = ProblemFields /\ AlikeBut({"frozen"}, q, r) /\ r.frozen = Z
    BY <1>2, <1>4 DEF ProblemFields, AlikeBut
  <1>11. /\ r.ops = q.ops /\ r.dur = q.dur /\ r.cal = q.cal /\ r.cap = q.cap /\ r.crewCap = p.crewCap
         /\ r.stock = q.stock /\ r.floor = q.floor /\ r.toolCap = q.toolCap
    BY <1>4, <1>10 DEF AlikeBut, ProblemFields
  <1>12. ProblemOk(r)
    <2>1. AlikeBut({"cal", "stock", "dur", "ops", "links", "floor", "frozen"}, q, r)
      BY <1>10 DEF AlikeBut
    <2>2. SameKind(q, q)
      BY <1>7, OfItsOwnKind
    <2>3. SameKind(q, r)
      BY <1>9, <1>10, <1>11, <2>1, <2>2 DEF SameKind
    <2>. QED
      BY <1>7, <2>3, CardStaysOk
  <1>13. PlannerInv'
    <2>1. ProblemOk(problem)' /\ placed' = problem'.frozen /\ done' = FALSE
      BY <1>2, <1>12 DEF r
    <2>. QED
      BY <2>1, StartsAgain
  <1>14. ReplanSets'
    <2>1. \A o \in DOMAIN issued : o \in r.ops /\ RowOk(r, issued[o])
      BY <1>5, <1>8, <1>11 DEF RowOk
    <2>2. rounds' \in 0..MaxRounds
      BY <1>2, EventsAssumption DEF ReplanInv, ReplanSets
    <2>. QED
      BY <1>2, <1>4, <1>11, <2>1, <2>2 DEF ReplanSets, r
  <1>15. EventsFit'
    <2>1. \A x : EventOk(p, x) => EventOk(r, x)
      BY <1>5, <1>11 DEF EventOk
    <2>. QED
      BY <2>1 DEF ReplanInv, EventsFit, p, r
  <1>16. IssuedPlan' /\ BrokenSlotsOver'
    BY <1>2 DEF IssuedPlan, BrokenSlotsOver
  <1>17. KeptRows'
    BY <1>2, <1>9, <1>10 DEF KeptRows, r
  <1>18. ClosuresCut'
    <2>1. \A k : CutFrom(p, k) => CutFrom(r, k)
      BY <1>5, <1>11 DEF CutFrom
    <2>. QED
      BY <1>2, <2>1 DEF ReplanInv, ClosuresCut, p, r
  <1>. QED
    BY <1>13, <1>14, <1>15, <1>16, <1>17, <1>18 DEF ReplanInv

LEMMA ReplanNextKeeps == ReplanInv /\ [ReplanNext]_allVars => ReplanInv'
  <1>. USE DEF ReplanInv
  <1>1. ASSUME ReplanInv, Plan
        PROVE  ReplanInv'
    <2>1. [Next]_vars /\ problem' = problem
      BY <1>1 DEF Plan, Next, Place, Stop
    <2>2. PlannerInv'
      BY <1>1, <2>1, PlannerNext
    <2>. QED
      BY <1>1, <2>1, <2>2 DEF Plan, ReplanSets, EventsFit, IssuedPlan, KeptRows, BrokenSlotsOver, ClosuresCut
  <1>2. ASSUME ReplanInv, UNCHANGED vars
        PROVE  PlannerInv'
    BY <1>2, PlannerNext
  <1>3. ASSUME ReplanInv, Issue
        PROVE  ReplanInv'
    <2>1. PlannerInv'
      BY <1>2, <1>3 DEF Issue, vars
    <2>. QED
      BY <1>3, <2>1 DEF Issue, ReplanSets, EventsFit, IssuedPlan, KeptRows, BrokenSlotsOver, ClosuresCut
  <1>4. ASSUME ReplanInv, UNCHANGED allVars
        PROVE  ReplanInv'
    <2>1. PlannerInv'
      BY <1>2, <1>4 DEF allVars, vars
    <2>. QED
      BY <1>4, <2>1 DEF allVars, ReplanSets, EventsFit, IssuedPlan, KeptRows, BrokenSlotsOver, ClosuresCut
  <1>. QED
    BY <1>1, <1>3, <1>4, DisruptKeeps, InspectKeeps DEF ReplanNext

-----------------------------------------------------------------------------
(***************************************************************************)
(* What replanning promises.                                               *)
(***************************************************************************)
\* The invariant of replanning holds in every reachable state.
THEOREM ReplanKeepsInv == ReplanSpec => []ReplanInv
  BY ReplanInitInv, ReplanNextKeeps, PTL DEF ReplanSpec

\* What the list planner promises goes on to hold round after round, on the
\* cards that events leave behind; the notary agrees with it on these too.
THEOREM EveryRoundPlansInOrder ==
  ReplanSpec => [](PlacedInOrder /\ CrewsAndToolsApart /\ PostsWithinCapacity /\ OnlyShortOfOperations)
  <1>1. ReplanInv => PlacedInOrder /\ CrewsAndToolsApart /\ PostsWithinCapacity /\ OnlyShortOfOperations
    BY NothingElseIsFound DEF ReplanInv, PlannerInv
  <1>. QED
    BY <1>1, ReplanKeepsInv, PTL

\* Only visits of the card are placed, hit and freed, and an issued plan has a
\* row for each that was placed.
THEOREM ReplanTyped == ReplanSpec => []ReplanTypeOK
  <1>1. ReplanInv => ReplanTypeOK
    <2>1. ReplanInv /\ phase = "issued" => done /\ DOMAIN issued = DOMAIN placed
      BY IssuedRows DEF ReplanInv, IssuedPlan
    <2>. QED
      BY <2>1 DEF ReplanInv, PlannerInv, ReplanSets, ReplanTypeOK
  <1>. QED
    BY <1>1, ReplanKeepsInv, PTL

\* _replan_lane_local moves no visit but those it freed: their rows were frozen,
\* the loop left them alone, and publishing did not move them.
THEOREM OthersStayPut == ReplanSpec => []OnlyFreedVisitsMove
  <1>1. ReplanInv => OnlyFreedVisitsMove
    <2>1. SUFFICES ASSUME ReplanInv, phase = "issued", NEW o \in DOMAIN replan.base \ replan.free
                   PROVE  LET was == AsFrozen(replan.base[o])
                          IN /\ o \in DOMAIN issued
                             /\ SameSlot(issued[o], IF FrozenWithoutCrew(o)
                                                    THEN [was EXCEPT !.crew = NoCrew] ELSE was)
      BY DEF OnlyFreedVisitsMove
    <2>. DEFINE was == AsFrozen(replan.base[o])
    <2>2. o \in DOMAIN problem.frozen /\ SameSlot(replan.base[o], problem.frozen[o])
      BY <2>1 DEF ReplanInv, KeptRows
    <2>3. o \in DOMAIN issued /\ SameSlot(issued[o], problem.frozen[o])
      BY <2>1, <2>2, IssuedRows DEF ReplanInv, PlannerInv, FrozenStay
    <2>4. /\ \A f \in {"post", "crew", "start", "end", "setup"} : was[f] = replan.base[o][f]
          /\ \A f \in {"post", "start", "end", "setup"} : [was EXCEPT !.crew = NoCrew][f] = was[f]
          /\ [was EXCEPT !.crew = NoCrew].crew = NoCrew
      BY DEF AsFrozen, Row
    <2>. HIDE DEF was
    <2>5. CASE FrozenWithoutCrew(o)
      <3>1. SameSlot(issued[o], [was EXCEPT !.crew = NoCrew])
        BY <2>2, <2>3, <2>4 DEF SameSlot
      <3>. QED
        BY <2>3, <2>5, <3>1 DEF was
    <2>6. CASE ~FrozenWithoutCrew(o)
      <3>1. SameSlot(issued[o], was)
        BY <2>2, <2>3, <2>4, <2>6 DEF SameSlot, FrozenWithoutCrew
      <3>. QED
        BY <2>3, <2>6, <3>1 DEF was
    <2>. QED
      BY <2>5, <2>6
  <1>. QED
    BY <1>1, ReplanKeepsInv, PTL

\* _restart_after_broken_slot: what was hit is planned again after its old slot.
THEOREM HitsStartLater == ReplanSpec => []BrokenSlotConsumed
  <1>1. ReplanInv => BrokenSlotConsumed
    <2>1. SUFFICES ASSUME ReplanInv, phase = "issued",
                          NEW o \in replan.hits \cap DOMAIN replan.base \cap DOMAIN issued
                   PROVE  OccStart(issued[o]) >= replan.base[o].end
      BY DEF BrokenSlotConsumed
    <2>2. o \notin DOMAIN problem.frozen /\ problem.floor[o] >= replan.base[o].end
      BY <2>1 DEF ReplanInv, BrokenSlotsOver
    <2>3. o \in DOMAIN placed /\ OccStart(issued[o]) = OccStart(placed[o])
      BY <2>1, IssuedRows DEF SameSlot, OccStart
    <2>4. OccStart(placed[o]) >= problem.floor[o]
      BY <2>1, <2>2, <2>3 DEF ReplanInv, PlannerInv, PlacedFitsAlone, FitsAlone
    <2>5. problem.floor[o] \in Int /\ replan.base[o].end \in Int /\ OccStart(placed[o]) \in Int
      <3>1. problem.floor \in [DOMAIN problem.dur -> Int] /\ problem.ops \subseteq DOMAIN problem.dur
        BY <2>1 DEF ReplanInv, PlannerInv, ProblemOk
      <3>2. o \in problem.ops /\ RowOk(problem, replan.base[o]) /\ RowOk(problem, issued[o])
        BY <2>1, IssuedRows DEF ReplanInv, ReplanSets
      <3>. QED
        BY <2>3, <3>1, <3>2 DEF RowOk, OccStart
    <2>. QED
      BY <2>2, <2>3, <2>4, <2>5
  <1>. QED
    BY <1>1, ReplanKeepsInv, PTL

-----------------------------------------------------------------------------
(***************************************************************************)
(* Closures.  The notary reads no calendar of a resource that runs         *)
(* unattended, so that what is reported closed must be staffed.            *)
(***************************************************************************)
\* A visit that occupies its resources in [a, b) does so in some minute.
LEMMA SharedMinute ==
  ASSUME NEW p, NEW r, RowOk(p, r), NEW a \in Int, NEW b \in Int, a < b, OccupancyHits(r, a, b)
  PROVE  \E t \in OccStart(r)..(r.end - 1) : a <= t /\ t < b
  <1>1. /\ OccStart(r) \in Int /\ r.end \in Int /\ OccStart(r) < r.end
        /\ OccStart(r) < b /\ a < r.end
    BY DEF RowOk, OccStart, OccupancyHits
  <1>2. CASE OccStart(r) <= a
    BY <1>1, <1>2
  <1>3. CASE ~(OccStart(r) <= a)
    BY <1>1, <1>3
  <1>. QED
    BY <1>2, <1>3

\* A calendar that a closure was cut out of is not open in it.
LEMMA NotOpenWhenCut ==
  ASSUME NEW p, ProblemOk(p), NEW k, CutFrom(p, k), NEW t \in Int, k[2] <= t, t < k[3]
  PROVE  ~Open(p, k[1], t)
  <1>1. p.cal[k[1]] \subseteq Int \X Int
    BY DEF CutFrom, ProblemOk
  <1>2. ASSUME NEW w \in p.cal[k[1]], w[1] <= t, t < w[2]
        PROVE  FALSE
    <2>1. w[1] \in Int /\ w[2] \in Int
      BY <1>1
    <2>2. w[2] <= k[2] \/ k[3] <= w[1]
      BY DEF CutFrom
    <2>. QED
      BY <1>2, <2>1, <2>2 DEF CutFrom
  <1>. QED
    BY <1>2 DEF Open

\* Work without a pause does not fit a calendar that is cut in its occupancy.
LEMMA CutWorkDoesNotFit ==
  ASSUME NEW p, ProblemOk(p), NEW k, CutFrom(p, k), k[1] \notin p.unattended,
         NEW o, p.policy[o] # "preemptive",
         NEW r, RowOk(p, r), OccupancyHits(r, k[2], k[3])
  PROVE  ~CalendarFits(p, o, r, k[1])
  <1>1. PICK t \in OccStart(r)..(r.end - 1) : k[2] <= t /\ t < k[3]
    BY SharedMinute DEF CutFrom
  <1>2. t \in Int
    BY DEF RowOk, OccStart
  <1>3. ~Open(p, k[1], t)
    BY <1>1, <1>2, NotOpenWhenCut
  <1>. QED
    BY <1>3 DEF CalendarFits, InMergedWindows

\* What may be reported closed is staffed.
ClosedAreStaffed ==
  \A p \in Problems, e \in Events : IsClosure(e) => Closure(e)[1] \notin p.unattended

StaysStaffed ==
  /\ \A e \in Events : IsClosure(e) => Closure(e)[1] \notin problem.unattended
  /\ \A k \in closures : k[1] \notin problem.unattended

LEMMA StaffedInit == ClosedAreStaffed /\ ReplanInit => StaysStaffed
  BY DEF ClosedAreStaffed, ReplanInit, Init, StaysStaffed

LEMMA StaffedNext == ReplanInv /\ StaysStaffed /\ [ReplanNext]_allVars => StaysStaffed'
  <1>. SUFFICES ASSUME ReplanInv, StaysStaffed, [ReplanNext]_allVars
                PROVE  StaysStaffed'
    OBVIOUS
  <1>1. ASSUME NEW e \in Events, e.kind # "INSPECTION", NEW limit, Disrupt(e, limit)
        PROVE  problem'.unattended = problem.unattended
    <2>. DEFINE q == Apply(problem, e)
    <2>1. /\ ProblemOk(problem) /\ EventOk(problem, e)
      BY DEF ReplanInv, PlannerInv, EventsFit
    <2>2. ProblemOk(q) /\ AlikeBut({"cal", "stock", "dur", "ops"}, problem, q)
      BY <1>1, <2>1, Applied
    <2>3. \E F, Z : problem' = [q EXCEPT !.floor = F, !.frozen = Z]
      BY <1>1 DEF Disrupt
    <2>. HIDE DEF q
    <2>. QED
      BY <2>2, <2>3 DEF ProblemOk, ProblemFields, AlikeBut
  <1>2. ASSUME NEW e \in Events, Inspect(e)
        PROVE  problem'.unattended = problem.unattended
    <2>1. \E L, Z : problem' = [[problem EXCEPT !.ops = @ \cup e.ops, !.links = L] EXCEPT !.frozen = Z]
      BY <1>2 DEF Inspect
    <2>. QED
      BY <2>1 DEF ReplanInv, PlannerInv, ProblemOk, ProblemFields
  <1>3. ASSUME NEW e \in Events, NEW limit, Disrupt(e, limit)
        PROVE  closures' = closures \/ (IsClosure(e) /\ closures' = closures \cup {Closure(e)})
    BY <1>3 DEF Disrupt
  <1>4. CASE Plan
    BY <1>4 DEF Plan, Next, Place, Stop, StaysStaffed
  <1>5. CASE Issue
    BY <1>5 DEF Issue, StaysStaffed
  <1>6. CASE \E e \in Events, limit \in Limits : e.kind # "INSPECTION" /\ Disrupt(e, limit)
    BY <1>1, <1>3, <1>6 DEF StaysStaffed
  <1>7. CASE \E e \in Events : Inspect(e)
    BY <1>2, <1>7 DEF StaysStaffed, Inspect
  <1>8. CASE UNCHANGED allVars
    BY <1>8 DEF allVars, StaysStaffed
  <1>. QED
    BY <1>4, <1>5, <1>6, <1>7, <1>8 DEF ReplanNext

\* Where an accepted plan works without a pause on what is staffed, nothing was
\* reported closed.
LEMMA AcceptedKeepsOut ==
  ASSUME ReplanInv, Accepted, NEW k \in closures, k[1] \notin problem.unattended,
         NEW o \in DOMAIN issued, problem.policy[o] # "preemptive",
         k[1] \in CalendarsOf(issued[o].post, issued[o].crew, issued[o].tools)
  PROVE  ~OccupancyHits(issued[o], k[2], k[3])
  <1>1. ProblemOk(problem) /\ CutFrom(problem, k) /\ RowOk(problem, issued[o])
    BY IssuedRows DEF ReplanInv, PlannerInv, ClosuresCut, Accepted
  <1>2. Windows(problem, issued) = {}
    <2>1. Findings(problem, issued) = {}
      BY DEF Accepted, Violations
    <2>. QED
      BY <2>1 DEF Findings
  <1>3. k[1] \in CalendarsOf(issued[o].post, issued[o].crew, issued[o].tools \cup problem.tools[o])
    BY DEF CalendarsOf
  <1>4. CalendarFits(problem, o, issued[o], k[1])
    <2>1. <<"CALENDAR_BROKEN", o>> \notin Windows(problem, issued)
      BY <1>2
    <2>. QED
      BY <1>3, <2>1 DEF Windows, Codes
  <1>. QED
    BY <1>1, <1>4, CutWorkDoesNotFit

\* No accepted plan works in what was reported closed, however many closures
\* came and in whatever order, if what they close is staffed.
THEOREM ClosedMeansNoWork ==
  ASSUME ClosedAreStaffed
  PROVE  ReplanSpec => []NoWorkInClosures
  <1>1. ReplanInit => StaysStaffed
    BY StaffedInit
  <1>2. ReplanInv /\ StaysStaffed => NoWorkInClosures
    BY AcceptedKeepsOut DEF StaysStaffed, NoWorkInClosures
  <1>. QED
    BY <1>1, <1>2, StaffedNext, ReplanKeepsInv, PTL DEF ReplanSpec

\* affected_operation_ids names no visit without a pause that a closure of what
\* is staffed has not broken.
THEOREM ClosuresHitNothingElse ==
  ASSUME ClosedAreStaffed
  PROVE  ReplanSpec => []ClosureHitsAreBroken
  <1>1. ReplanInit => StaysStaffed
    BY StaffedInit
  <1>2. ReplanInv /\ StaysStaffed => ClosureHitsAreBroken
    <2>1. SUFFICES ASSUME ReplanInv, StaysStaffed, Accepted, NEW e \in Events, IsClosure(e),
                          NEW o \in Affected(problem, e, issued), problem.policy[o] # "preemptive"
                   PROVE  o \in Broken(Apply(problem, e), issued)
      BY DEF ClosureHitsAreBroken
    <2>. DEFINE q == Apply(problem, e)
                k == Closure(e)
    <2>2. /\ ProblemOk(problem) /\ EventOk(problem, e) /\ e.kind # "INSPECTION"
          /\ k[1] \notin problem.unattended
      BY <2>1 DEF ReplanInv, PlannerInv, EventsFit, StaysStaffed, IsClosure
    <2>3. /\ ProblemOk(q) /\ AlikeBut({"cal", "stock", "dur", "ops"}, problem, q) /\ CutFrom(q, k)
      BY <2>1, <2>2, Applied, ClosuresStayCut
    <2>4. /\ o \in DOMAIN issued /\ OccupancyHits(issued[o], k[2], k[3])
          /\ k[1] \in CalendarsOf(issued[o].post, issued[o].crew, issued[o].tools \cup q.tools[o])
      <3>1. k[2] = e.from /\ k[3] = e.to
        BY DEF Closure
      <3>2. CASE e.kind = "POST_DOWN"
        BY <2>1, <3>1, <3>2 DEF Affected, Closure, CalendarsOf
      <3>3. CASE e.kind = "CREW_ABSENT"
        <4>1. e.on # NoCrew
          BY <2>2, <3>3 DEF EventOk, ProblemOk
        <4>. QED
          BY <2>1, <3>1, <3>3, <4>1 DEF Affected, Closure, CalendarsOf
      <3>. QED
        BY <2>1, <3>2, <3>3 DEF IsClosure
    <2>5. RowOk(problem, issued[o])
      BY <2>1, <2>4, IssuedRows DEF Accepted
    <2>. HIDE DEF q, k
    <2>6. q.cap = problem.cap /\ q.crewCap = problem.crewCap /\ q.toolCap = problem.toolCap
          /\ q.policy = problem.policy /\ q.unattended = problem.unattended
      BY <2>3 DEF AlikeBut, ProblemFields
    <2>7. RowOk(q, issued[o])
      BY <2>5, <2>6 DEF RowOk
    <2>8. ~CalendarFits(q, o, issued[o], k[1])
      BY <2>1, <2>2, <2>3, <2>4, <2>6, <2>7, CutWorkDoesNotFit
    <2>9. <<"CALENDAR_BROKEN", o>> \in Findings(q, issued)
      <3>1. <<"CALENDAR_BROKEN", o>> \in Windows(q, issued)
        BY <2>4, <2>8 DEF Windows, Codes
      <3>. QED
        BY <3>1 DEF Findings
    <2>. QED
      BY <2>4, <2>9 DEF Broken, q
  <1>. QED
    BY <1>1, <1>2, StaffedNext, ReplanKeepsInv, PTL DEF ReplanSpec

-----------------------------------------------------------------------------
(***************************************************************************)
(* affected_operation_ids: of what was right in an accepted plan only what *)
(* an event names can be wrong after it.  Each check of the notary is      *)
(* looked at: most read nothing that an event changes.                     *)
(***************************************************************************)
\* The cards p and q differ in what an event may change.
AfterEvent(p, q) == AlikeBut({"cal", "stock", "dur", "ops"}, p, q)

LEMMA AfterEventFields ==
  ASSUME NEW p, NEW q, AfterEvent(p, q)
  PROVE  /\ q.horizon = p.horizon /\ q.policy = p.policy /\ q.state = p.state /\ q.links = p.links
         /\ q.floor = p.floor /\ q.latest = p.latest /\ q.needs = p.needs
         /\ q.posts = p.posts /\ q.permit = p.permit /\ q.skilled = p.skilled /\ q.tools = p.tools
         /\ q.cap = p.cap /\ q.crewCap = p.crewCap /\ q.toolCap = p.toolCap
         /\ q.unattended = p.unattended /\ q.setup = p.setup /\ q.missing = p.missing
         /\ q.frozen = p.frozen /\ q.pools = p.pools
  BY DEF AfterEvent, AlikeBut, ProblemFields

LEMMA SameColouring ==
  ASSUME NEW p, NEW q, q.cap = p.cap, q.state = p.state, q.setup = p.setup, NEW c, NEW plan, NEW S
  PROVE  ColourLanes(q, c, plan, S) = ColourLanes(p, c, plan, S)
  BY DEF ColourLanes, MapThenFoldSet, IsExplicit, IsMixed, ExplicitStep, ImplicitStep, Take, Cell,
         CandidateStates

\* What the checks that no event touches find.
LEMMA UntouchedChecks ==
  ASSUME NEW p, NEW q, AfterEvent(p, q), NEW plan
  PROVE  /\ Eligibility(q, plan) = Eligibility(p, plan)
         /\ Precedence(q, plan) = Precedence(p, plan)
         /\ Overlaps(q, plan) = Overlaps(p, plan)
         /\ Setups(q, plan) = Setups(p, plan)
         /\ Frozen(q, plan) = Frozen(p, plan)
  <1>1. /\ q.links = p.links /\ q.posts = p.posts /\ q.permit = p.permit /\ q.skilled = p.skilled
        /\ q.tools = p.tools /\ q.cap = p.cap /\ q.crewCap = p.crewCap /\ q.toolCap = p.toolCap
        /\ q.setup = p.setup /\ q.state = p.state /\ q.missing = p.missing /\ q.frozen = p.frozen
    BY AfterEventFields
  <1>2. Eligibility(q, plan) = Eligibility(p, plan)
    BY <1>1 DEF Eligibility, Eligible, CrewFits, NeedsCrew, Skilled
  <1>3. Precedence(q, plan) = Precedence(p, plan)
    BY <1>1 DEF Precedence
  <1>4. Overlaps(q, plan) = Overlaps(p, plan)
    BY <1>1 DEF Overlaps
  <1>5. Setups(q, plan) = Setups(p, plan)
    <2>1. \A c : ColourLanes(q, c, plan, AtPost(plan, c)) = ColourLanes(p, c, plan, AtPost(plan, c))
      BY <1>1, SameColouring
    <2>2. ASSUME NEW c
          PROVE  SetupsAt(q, plan, c) = SetupsAt(p, plan, c)
      <3>. DEFINE at(x) == ColourLanes(x, c, plan, AtPost(plan, c)).at
                  sure(y) == {o \in DOMAIN y : ~y[o].ambiguous}
                  missing(x, y) == {o \in sure(y) : ExpectedSetup(x, y[o]) = NoCell}
                  wrong(x, y) == {o \in sure(y) : /\ ExpectedSetup(x, y[o]) # NoCell
                                                 /\ plan[o].setup # ExpectedSetup(x, y[o])}
                  finds(x, y) ==      Codes("SETUP_MISMATCH", (DOMAIN y) \ sure(y))
                                 \cup Codes("MISSING_SETUP", missing(x, y))
                                 \cup Codes("SETUP_MISMATCH", wrong(x, y))
      <3>1. SetupsAt(q, plan, c) = finds(q, at(q)) /\ SetupsAt(p, plan, c) = finds(p, at(p))
        BY DEF SetupsAt
      <3>2. \A put : ExpectedSetup(q, put) = ExpectedSetup(p, put)
        BY <1>1 DEF ExpectedSetup
      <3>3. \A y : missing(q, y) = missing(p, y) /\ wrong(q, y) = wrong(p, y)
        BY <3>2
      <3>4. \A y : finds(q, y) = finds(p, y)
        <4>. HIDE DEF missing, wrong
        <4>. QED
          BY <3>3
      <3>5. at(q) = at(p)
        BY <2>1
      <3>. HIDE DEF finds, at
      <3>. QED
        BY <3>1, <3>4, <3>5
    <2>. QED
      BY <1>1, <2>2 DEF Setups
  <1>6. Frozen(q, plan) = Frozen(p, plan)
    BY <1>1 DEF Frozen
  <1>. QED
    BY <1>2, <1>3, <1>4, <1>5, <1>6

\* A closure leaves every minute outside of it as it was.
LEMMA OpenOutside ==
  ASSUME NEW ws, ws \subseteq Int \X Int, NEW a \in Int, NEW b \in Int,
         NEW t \in Int, t < a \/ b <= t
  PROVE  (\E w \in Punch(ws, a, b) : w[1] <= t /\ t < w[2]) <=> (\E w \in ws : w[1] <= t /\ t < w[2])
  <1>1. ASSUME NEW w \in Punch(ws, a, b), w[1] <= t, t < w[2]
        PROVE  \E v \in ws : v[1] <= t /\ t < v[2]
    <2>1. PICK v \in ws : v[1] <= w[1] /\ w[2] <= v[2]
      BY PunchedWindows
    <2>2. v[1] \in Int /\ v[2] \in Int /\ w[1] \in Int /\ w[2] \in Int
      BY PunchedWindows
    <2>. QED
      BY <1>1, <2>1, <2>2
  <1>2. ASSUME NEW v \in ws, v[1] <= t, t < v[2]
        PROVE  \E w \in Punch(ws, a, b) : w[1] <= t /\ t < w[2]
    <2>. DEFINE left  == <<v[1], IF v[2] < a THEN v[2] ELSE a>>
                right == <<IF v[1] > b THEN v[1] ELSE b, v[2]>>
    <2>1. v[1] \in Int /\ v[2] \in Int
      OBVIOUS
    <2>2. /\ left[1] < left[2] => left \in Punch(ws, a, b)
          /\ right[1] < right[2] => right \in Punch(ws, a, b)
      BY DEF Punch
    <2>3. CASE t < a
      <3>1. left[1] <= t /\ t < left[2] /\ left[1] < left[2]
        BY <1>2, <2>1, <2>3
      <3>. QED
        BY <2>2, <3>1
    <2>4. CASE b <= t
      <3>1. right[1] <= t /\ t < right[2] /\ right[1] < right[2]
        BY <1>2, <2>1, <2>4
      <3>. QED
        BY <2>2, <3>1
    <2>. QED
      BY <2>3, <2>4
  <1>. QED
    BY <1>1, <1>2

-----------------------------------------------------------------------------
\* What an event does to a spare and to a duration.
LEMMA WhatChanges ==
  ASSUME NEW p, ProblemOk(p), NEW e, EventOk(p, e), e.kind # "INSPECTION"
  PROVE  LET q == Apply(p, e)
         IN /\ DOMAIN q.stock = DOMAIN p.stock
            /\ \A s \in DOMAIN p.stock :
                 IF e.kind = "PART_DELAY" /\ s = e.on
                 THEN /\ q.stock[s].qty = p.stock[s].qty /\ q.stock[s].rotable = p.stock[s].rotable
                      /\ q.stock[s].lag = p.stock[s].lag /\ q.stock[s].from = e.at
                      /\ q.stock[s].receipts \subseteq p.stock[s].receipts
                 ELSE q.stock[s] = p.stock[s]
            /\ \A o \in DOMAIN p.dur :
                 q.dur[o] = p.dur[o] \/ (e.kind = "DURATION_OVERRUN" /\ o = e.on)
  <1>. DEFINE q == Apply(p, e)
  <1>1. CASE e.kind = "PART_DELAY"
    <2>. DEFINE late == [p.stock[e.on] EXCEPT !.from = e.at, !.receipts = {x \in @ : x[1] >= e.at}]
    <2>1. q = [p EXCEPT !.stock[e.on] = late]
      BY <1>1 DEF Apply, IsClosure
    <2>2. e.on \in DOMAIN p.stock
      BY <1>1 DEF EventOk
    <2>3. DOMAIN p.stock[e.on] = {"qty", "from", "receipts", "rotable", "lag"}
      BY <2>2 DEF ProblemOk, SpareOk
    <2>4. /\ late.qty = p.stock[e.on].qty /\ late.rotable = p.stock[e.on].rotable
          /\ late.lag = p.stock[e.on].lag /\ late.from = e.at
          /\ late.receipts \subseteq p.stock[e.on].receipts
      BY <2>3
    <2>. HIDE DEF q, late
    <2>5. q.stock = [p.stock EXCEPT ![e.on] = late] /\ q.dur = p.dur
      BY <2>1 DEF ProblemOk, ProblemFields
    <2>6. q.stock[e.on] = late /\ \A s \in DOMAIN p.stock \ {e.on} : q.stock[s] = p.stock[s]
      BY <2>2, <2>5
    <2>. QED
      BY <1>1, <2>4, <2>5, <2>6 DEF q
  <1>2. CASE e.kind = "DURATION_OVERRUN"
    <2>1. q = [p EXCEPT !.dur[e.on] = e.minutes]
      BY <1>2 DEF Apply, IsClosure
    <2>. HIDE DEF q
    <2>2. q.dur = [p.dur EXCEPT ![e.on] = e.minutes] /\ q.stock = p.stock
      BY <2>1 DEF ProblemOk, ProblemFields
    <2>. QED
      BY <1>2, <2>2 DEF q
  <1>3. CASE IsClosure(e)
    <2>1. q = [p EXCEPT !.cal[Closure(e)[1]] = Punch(@, e.from, e.to)]
      BY <1>3 DEF Apply, IsClosure
    <2>. HIDE DEF q
    <2>2. q.dur = p.dur /\ q.stock = p.stock
      BY <2>1 DEF ProblemOk, ProblemFields
    <2>. QED
      BY <1>3, <2>2 DEF q, IsClosure
  <1>4. CASE e.kind = "URGENT_JOB"
    <2>1. q = [p EXCEPT !.ops = @ \cup e.ops]
      BY <1>4 DEF Apply, IsClosure
    <2>. HIDE DEF q
    <2>2. q.dur = p.dur /\ q.stock = p.stock
      BY <2>1 DEF ProblemOk, ProblemFields
    <2>. QED
      BY <1>4, <2>2 DEF q
  <1>5. CASE e.kind = "RELEASE"
    <2>1. q = p
      BY <1>5 DEF Apply, IsClosure
    <2>. QED
      BY <1>5, <2>1
  <1>. QED
    BY <1>1, <1>2, <1>3, <1>4, <1>5 DEF EventOk, IsClosure

CalsOf(p, o, r) == CalendarsOf(r.post, r.crew, r.tools \cup p.tools[o])

\* A visit that an event does not name finds its calendars as they were, in
\* every minute in which it occupies them.
LEMMA SameMinutes ==
  ASSUME NEW p, ProblemOk(p), NEW e, EventOk(p, e), e.kind # "INSPECTION",
         NEW plan, NEW o \in DOMAIN plan, o \in DOMAIN p.dur, RowOk(p, plan[o]),
         o \notin Affected(p, e, plan), NEW cal \in CalsOf(p, o, plan[o]),
         NEW t \in OccStart(plan[o])..(plan[o].end - 1)
  PROVE  Open(Apply(p, e), cal, t) <=> Open(p, cal, t)
  <1>. DEFINE q == Apply(p, e)
              k == Closure(e)[1]
              r == plan[o]
  <1>1. CASE ~IsClosure(e)
    <2>1. q.cal = p.cal
      BY <1>1, Applied
    <2>. QED
      BY <2>1 DEF Open
  <1>2. CASE IsClosure(e)
    <2>1. k \in DOMAIN p.cal /\ q.cal = [p.cal EXCEPT ![k] = Punch(@, e.from, e.to)]
      BY <1>2, Applied
    <2>2. e.from \in Int /\ e.to \in Int
      BY <1>2 DEF IsClosure, EventOk
    <2>3. CASE cal # k
      <3>. HIDE DEF q, k
      <3>1. q.cal[cal] = p.cal[cal]
        BY <2>1, <2>3
      <3>. QED
        BY <3>1 DEF Open, q
    <2>4. CASE cal = k
      <3>1. ~OccupancyHits(r, e.from, e.to)
        <4>1. CASE e.kind = "POST_DOWN"
          <5>1. cal = <<"post", e.on>>
            BY <2>4, <4>1 DEF Closure, PostCal
          <5>2. r.post = e.on
            BY <5>1 DEF CalsOf, CalendarsOf, PostCal, CrewCal, ToolCal
          <5>. QED
            BY <4>1, <5>2 DEF Affected
        <4>2. CASE e.kind = "CREW_ABSENT"
          <5>1. cal = <<"crew", e.on>>
            BY <2>4, <4>2 DEF Closure, CrewCal
          <5>2. r.crew = e.on
            BY <5>1 DEF CalsOf, CalendarsOf, PostCal, CrewCal, ToolCal
          <5>. QED
            BY <4>2, <5>2 DEF Affected
        <4>. QED
          BY <1>2, <4>1, <4>2 DEF IsClosure
      <3>2. OccStart(r) \in Int /\ r.end \in Int
        BY DEF RowOk, OccStart
      <3>3. t \in Int /\ (t < e.from \/ e.to <= t)
        BY <2>2, <3>1, <3>2 DEF OccupancyHits
      <3>4. p.cal[k] \subseteq Int \X Int
        BY <2>1 DEF ProblemOk
      <3>5. (\E w \in Punch(p.cal[k], e.from, e.to) : w[1] <= t /\ t < w[2])
              <=> (\E w \in p.cal[k] : w[1] <= t /\ t < w[2])
        BY <2>2, <3>3, <3>4, OpenOutside
      <3>. HIDE DEF q, k
      <3>6. q.cal[k] = Punch(p.cal[k], e.from, e.to)
        BY <2>1
      <3>. QED
        BY <2>4, <3>5, <3>6 DEF Open, q
    <2>. QED
      BY <2>3, <2>4
  <1>. QED
    BY <1>1, <1>2

\* What is spared by an event keeps its duration.
LEMMA DurationStays ==
  ASSUME NEW p, ProblemOk(p), NEW e, EventOk(p, e), e.kind # "INSPECTION",
         NEW plan, RowsOnCard(p, plan), NEW o \in DOMAIN plan, o \notin Affected(p, e, plan),
         DurationHolds(p, o, plan[o])
  PROVE  DurationHolds(Apply(p, e), o, plan[o])
  <1>. DEFINE q == Apply(p, e)
              r == plan[o]
              cals(x) == Staffed(x, CalendarsOf(r.post, r.crew, r.tools \cup x.tools[o]))
              minutes(x) == {t \in r.start..(r.end - 1) : \A c \in cals(x) : Open(x, c, t)}
              holds(x, C, m) == CASE x.policy[o] = "exact"      -> r.end - r.start = x.dur[o]
                                  [] x.policy[o] = "min"        -> r.end - r.start >= x.dur[o]
                                  [] x.policy[o] = "preemptive" -> Cardinality(m) = x.dur[o]
  <1>1. q.policy = p.policy /\ q.tools = p.tools /\ q.unattended = p.unattended
    BY Applied, AfterEventFields DEF AfterEvent
  <1>2. q.dur[o] = p.dur[o]
    <2>1. o \in DOMAIN p.dur
      BY DEF RowsOnCard, ProblemOk
    <2>2. ~(e.kind = "DURATION_OVERRUN" /\ o = e.on)
      BY DEF Affected
    <2>. QED
      BY <2>1, <2>2, WhatChanges
  <1>3. cals(q) = cals(p)
    BY <1>1 DEF Staffed
  <1>4. minutes(q) = minutes(p)
    <2>1. \A t \in r.start..(r.end - 1) : t \in OccStart(r)..(r.end - 1)
      BY DEF RowsOnCard, RowOk, OccStart
    <2>2. \A c \in cals(p) : c \in CalsOf(p, o, r)
      BY DEF Staffed, CalsOf
    <2>3. RowOk(p, r) /\ o \in DOMAIN p.dur
      BY DEF RowsOnCard, ProblemOk
    <2>4. \A c \in cals(p), t \in r.start..(r.end - 1) : Open(q, c, t) <=> Open(p, c, t)
      BY <2>1, <2>2, <2>3, SameMinutes
    <2>. HIDE DEF cals, q, r
    <2>. QED
      BY <1>3, <2>4
  <1>5. \A x : DurationHolds(x, o, r) <=> holds(x, cals(x), minutes(x))
    BY DEF DurationHolds, OpenMinutes
  <1>6. holds(q, cals(q), minutes(q)) <=> holds(p, cals(p), minutes(p))
    <2>. HIDE DEF cals, minutes, q, r
    <2>. QED
      BY <1>1, <1>2, <1>4
  <1>. HIDE DEF holds, cals, minutes
  <1>. QED
    BY <1>5, <1>6

\* What is spared by an event still fits its calendars.
LEMMA CalendarsStillFit ==
  ASSUME NEW p, ProblemOk(p), NEW e, EventOk(p, e), e.kind # "INSPECTION",
         NEW plan, RowsOnCard(p, plan), NEW o \in DOMAIN plan, o \notin Affected(p, e, plan),
         DurationHolds(p, o, plan[o]), NEW cal \in CalsOf(p, o, plan[o]),
         CalendarFits(p, o, plan[o], cal)
  PROVE  CalendarFits(Apply(p, e), o, plan[o], cal)
  <1>. DEFINE q == Apply(p, e)
              r == plan[o]
  <1>1. q.policy = p.policy /\ q.unattended = p.unattended
    BY Applied, AfterEventFields DEF AfterEvent
  <1>2. /\ RowOk(p, r) /\ o \in DOMAIN p.dur
        /\ OccStart(r) \in Int /\ r.start \in Int /\ r.end \in Int
        /\ OccStart(r) <= r.start /\ r.start < r.end
    BY DEF RowsOnCard, ProblemOk, RowOk, OccStart
  <1>3. \A t \in OccStart(r)..(r.end - 1) : Open(q, cal, t) <=> Open(p, cal, t)
    BY <1>2, SameMinutes
  <1>. DEFINE until == IF p.policy[o] = "preemptive" THEN r.start ELSE r.end
  <1>4. CASE cal \in p.unattended
    BY <1>1, <1>4 DEF CalendarFits
  <1>5. CASE cal \notin p.unattended
    <2>1. \A t \in OccStart(r)..(until - 1) : Open(p, cal, t)
      BY <1>5 DEF CalendarFits, InMergedWindows
    <2>2. \A t \in OccStart(r)..(until - 1) : t \in OccStart(r)..(r.end - 1)
      BY <1>2
    <2>3. \E t \in OccStart(r)..(r.end - 1) : Open(p, cal, t)
      <3>1. CASE p.policy[o] # "preemptive"
        BY <1>2, <2>1, <3>1
      <3>2. CASE p.policy[o] = "preemptive"
        <4>. DEFINE cals == Staffed(p, CalendarsOf(r.post, r.crew, r.tools \cup p.tools[o]))
                    minutes == {t \in r.start..(r.end - 1) : \A c \in cals : Open(p, c, t)}
        <4>1. Cardinality(minutes) = p.dur[o]
          BY <3>2 DEF DurationHolds, OpenMinutes
        <4>2. p.dur[o] # 0
          BY <1>2 DEF ProblemOk
        <4>3. minutes # {}
          <5>. HIDE DEF minutes
          <5>. QED
            BY <4>1, <4>2, FS_EmptySet
        <4>4. cal \in cals
          BY <1>5 DEF Staffed, CalsOf
        <4>5. PICK t \in r.start..(r.end - 1) : Open(p, cal, t)
          BY <4>3, <4>4
        <4>. QED
          BY <1>2, <4>5
      <3>. QED
        BY <3>1, <3>2
    <2>4. q.cal[cal] # {}
      BY <1>3, <2>3 DEF Open
    <2>5. \A t \in OccStart(r)..(until - 1) : Open(q, cal, t)
      <3>. HIDE DEF q, r, until
      <3>. QED
        BY <1>3, <2>1, <2>2
    <2>. HIDE DEF q, r
    <2>. QED
      BY <1>1, <2>4, <2>5 DEF CalendarFits, InMergedWindows, q, r
  <1>. QED
    BY <1>4, <1>5

\* What the checks below assume of a spare that is delayed, and of the names
\* that a finding may be about.
PlainStock(p) ==
  /\ \A pool \in p.pools : pool.unit \notin DOMAIN p.dur
  /\ \A e \in Events : e.kind = "PART_DELAY" => p.stock[e.on].receipts = {}

\* The spares are the same ones, and only the date of the delayed one is new.
LEMMA SparesAlike ==
  ASSUME NEW p, ProblemOk(p), NEW e, EventOk(p, e), e.kind # "INSPECTION",
         e.kind = "PART_DELAY" => p.stock[e.on].receipts = {}
  PROVE  LET q == Apply(p, e)
         IN /\ DOMAIN q.stock = DOMAIN p.stock /\ Rotables(q) = Rotables(p)
            /\ \A plan, s : Drawers(q, plan, s) = Drawers(p, plan, s)
            /\ \A s \in DOMAIN p.stock :
                 /\ q.stock[s].qty = p.stock[s].qty /\ q.stock[s].lag = p.stock[s].lag
                 /\ q.stock[s].receipts = p.stock[s].receipts
                 /\ \/ q.stock[s].from = p.stock[s].from
                    \/ /\ e.kind = "PART_DELAY" /\ s = e.on
                       /\ q.stock[s].from = e.at /\ p.stock[s].receipts = {}
  <1>. DEFINE q == Apply(p, e)
  <1>1. q.needs = p.needs
    BY Applied, AfterEventFields DEF AfterEvent
  <1>2. \A plan, s : Drawers(q, plan, s) = Drawers(p, plan, s)
    BY <1>1 DEF Drawers
  <1>3. DOMAIN q.stock = DOMAIN p.stock
    BY WhatChanges
  <1>4. ASSUME NEW s \in DOMAIN p.stock
        PROVE  /\ q.stock[s].qty = p.stock[s].qty /\ q.stock[s].lag = p.stock[s].lag
               /\ q.stock[s].rotable = p.stock[s].rotable
               /\ q.stock[s].receipts = p.stock[s].receipts
               /\ \/ q.stock[s].from = p.stock[s].from
                  \/ /\ e.kind = "PART_DELAY" /\ s = e.on
                     /\ q.stock[s].from = e.at /\ p.stock[s].receipts = {}
    <2>1. CASE e.kind = "PART_DELAY" /\ s = e.on
      <3>1. /\ q.stock[s].qty = p.stock[s].qty /\ q.stock[s].rotable = p.stock[s].rotable
            /\ q.stock[s].lag = p.stock[s].lag /\ q.stock[s].from = e.at
            /\ q.stock[s].receipts \subseteq p.stock[s].receipts
        BY <2>1, WhatChanges
      <3>. HIDE DEF q
      <3>. QED
        BY <2>1, <3>1
    <2>2. CASE ~(e.kind = "PART_DELAY" /\ s = e.on)
      <3>1. q.stock[s] = p.stock[s]
        BY <2>2, WhatChanges
      <3>. HIDE DEF q
      <3>. QED
        BY <3>1
    <2>. QED
      BY <2>1, <2>2
  <1>5. Rotables(q) = Rotables(p)
    BY <1>3, <1>4 DEF Rotables
  <1>. HIDE DEF q
  <1>. QED
    BY <1>2, <1>3, <1>4, <1>5 DEF q

\* What is spared by an event still has the spares that it draws.
LEMMA SparesStillThere ==
  ASSUME NEW p, ProblemOk(p), NEW e, EventOk(p, e), e.kind # "INSPECTION",
         e.kind = "PART_DELAY" => p.stock[e.on].receipts = {},
         NEW plan, NEW o \in DOMAIN plan, o \notin Affected(p, e, plan),
         Spares(p, plan) = {}
  PROVE  \A v \in Spares(Apply(p, e), plan) : v[2] # o
  <1>. DEFINE q == Apply(p, e)
              consumed(x) == DOMAIN x.stock \ Rotables(x)
              flat(x, s) == x.stock[s].receipts = {}
              late(x, s) == x.stock[s].qty <= 0 \/ plan[o].start < x.stock[s].from
              missed(x, i) == \E s \in x.needs[i] \cap consumed(x) :
                IF flat(x, s) THEN x.stock[s].qty <= 0 \/ plan[i].start < x.stock[s].from
                              ELSE StockLeft(x, plan, s, i) < 0
              drained(x) == {s \in consumed(x) :
                flat(x, s) /\ Cardinality(Drawers(x, plan, s)) > x.stock[s].qty}
  <1>1. \A x : Spares(x, plan) =      Codes("SPARE_UNAVAILABLE", {i \in DOMAIN plan : missed(x, i)})
                                 \cup Codes("SPARE_UNAVAILABLE", {OfSpare(s) : s \in drained(x)})
    BY DEF Spares
  <1>2. /\ q.needs = p.needs
    BY Applied, AfterEventFields DEF AfterEvent
  <1>3. /\ consumed(q) = consumed(p)
        /\ \A s \in consumed(p) : flat(q, s) = flat(p, s) /\ q.stock[s].qty = p.stock[s].qty
    BY SparesAlike
  <1>4. drained(q) = drained(p)
    <2>1. \A s : Drawers(q, plan, s) = Drawers(p, plan, s)
      BY SparesAlike
    <2>. HIDE DEF consumed, flat, q
    <2>. QED
      BY <1>3, <2>1
  <1>5. drained(p) = {} /\ ~missed(p, o)
    <2>. HIDE DEF missed, drained
    <2>1. Codes("SPARE_UNAVAILABLE", {i \in DOMAIN plan : missed(p, i)}) = {}
          /\ Codes("SPARE_UNAVAILABLE", {OfSpare(s) : s \in drained(p)}) = {}
      BY <1>1
    <2>. QED
      BY <2>1 DEF Codes
  <1>6. ~missed(q, o)
    <2>. SUFFICES ASSUME NEW s \in p.needs[o] \cap consumed(p)
                  PROVE  IF flat(q, s) THEN ~late(q, s) ELSE ~(StockLeft(q, plan, s, o) < 0)
      <3>. HIDE DEF consumed, flat, q
      <3>. QED
        BY <1>2, <1>3
    <2>1. /\ flat(q, s) = flat(p, s) /\ q.stock[s].qty = p.stock[s].qty
          /\ q.stock[s].receipts = p.stock[s].receipts
          /\ \/ q.stock[s].from = p.stock[s].from
             \/ e.kind = "PART_DELAY" /\ s = e.on /\ q.stock[s].from = e.at /\ p.stock[s].receipts = {}
      BY SparesAlike
    <2>2. IF flat(p, s) THEN ~late(p, s) ELSE ~(StockLeft(p, plan, s, o) < 0)
      BY <1>5
    <2>3. CASE q.stock[s].from = p.stock[s].from
      <3>1. Drawers(q, plan, s) = Drawers(p, plan, s)
        BY SparesAlike
      <3>2. StockLeft(q, plan, s, o) = StockLeft(p, plan, s, o)
        <4>. HIDE DEF q
        <4>. QED
          BY <2>1, <2>3, <3>1 DEF StockLeft
      <3>. HIDE DEF q
      <3>. QED
        BY <2>1, <2>2, <2>3, <3>2
    <2>4. CASE e.kind = "PART_DELAY" /\ s = e.on /\ q.stock[s].from = e.at /\ p.stock[s].receipts = {}
      <3>1. ~(plan[o].start < e.at)
        BY <2>4 DEF Affected
      <3>2. ~late(q, s) /\ flat(q, s)
        <4>. HIDE DEF q
        <4>. QED
          BY <2>1, <2>2, <2>4, <3>1
      <3>. QED
        BY <3>2
    <2>. QED
      BY <2>1, <2>3, <2>4
  <1>. HIDE DEF missed, drained, q
  <1>7. Spares(q, plan) = Codes("SPARE_UNAVAILABLE", {i \in DOMAIN plan : missed(q, i)})
    BY <1>1, <1>4, <1>5 DEF Codes
  <1>. QED
    BY <1>6, <1>7 DEF Codes, q

\* A rotable spare is out as often as before, and one that is delayed is missed
\* by those that the event names.
LEMMA LedgerStillClean ==
  ASSUME NEW p, ProblemOk(p), NEW e, EventOk(p, e), e.kind # "INSPECTION",
         e.kind = "PART_DELAY" => p.stock[e.on].receipts = {},
         \A pool \in p.pools : pool.unit \notin DOMAIN p.dur,
         NEW plan, RowsOnCard(p, plan), NEW o \in DOMAIN plan, o \notin Affected(p, e, plan),
         LedgerFindings(p, plan) = {}
  PROVE  \A v \in LedgerFindings(Apply(p, e), plan) : v[2] # o
  <1>. DEFINE q == Apply(p, e)
  <1>1. \A v \in Stockouts(q, plan) : v[2] # o
    <2>1. q.pools = p.pools
      BY Applied, AfterEventFields DEF AfterEvent
    <2>2. o \in DOMAIN p.dur
      BY DEF RowsOnCard, ProblemOk
    <2>. HIDE DEF q
    <2>. QED
      BY <2>1, <2>2 DEF Stockouts
  <1>2. Rotables(q) = Rotables(p) /\ Rotables(p) \subseteq DOMAIN p.stock
    BY SparesAlike DEF Rotables
  <1>3. ASSUME NEW s \in Rotables(p), NEW v \in RotableFindings(q, plan, s)
        PROVE  v[2] # o
    <2>1. RotableFindings(p, plan, s) = {}
      BY DEF LedgerFindings
    <2>2. /\ q.stock[s].qty = p.stock[s].qty /\ q.stock[s].lag = p.stock[s].lag
          /\ Drawers(q, plan, s) = Drawers(p, plan, s)
          /\ \/ q.stock[s].from = p.stock[s].from
             \/ e.kind = "PART_DELAY" /\ s = e.on /\ q.stock[s].from = e.at
      BY <1>2, SparesAlike
    <2>. HIDE DEF q
    <2>3. Out(q, plan, s) = Out(p, plan, s)
      BY <2>2 DEF Out
    <2>. DEFINE out == Out(p, plan, s)
                tooMany == Excess(out, DOMAIN out, p.stock[s].qty)
    <2>4. p.stock[s].lag # NoLag /\ ~tooMany
      BY <2>1 DEF RotableFindings
    <2>5. PICK i \in DOMAIN out : out[i].start < q.stock[s].from /\ v = <<"SPARE_UNAVAILABLE", i>>
      BY <2>2, <2>3, <2>4 DEF RotableFindings
    <2>6. ~(out[i].start < p.stock[s].from)
      <3>1. {<<"SPARE_UNAVAILABLE", j>> : j \in {x \in DOMAIN out : out[x].start < p.stock[s].from}}
              \subseteq RotableFindings(p, plan, s)
        BY <2>4 DEF RotableFindings
      <3>. HIDE DEF out
      <3>2. i \notin {x \in DOMAIN out : out[x].start < p.stock[s].from}
        BY <2>1, <3>1
      <3>. QED
        BY <3>2
    <2>7. i \in Drawers(p, plan, s) /\ i \in DOMAIN plan /\ s \in p.needs[i]
      BY DEF Out, Drawers
    <2>8. out[i].start = plan[i].start
      <3>1. DOMAIN plan[i] = {"post", "crew", "tools", "start", "end", "setup", "lane"}
        BY <2>7 DEF RowsOnCard, RowOk
      <3>. QED
        BY <2>7, <3>1 DEF Out
    <2>. HIDE DEF out
    <2>9. i \in Affected(p, e, plan)
      BY <2>2, <2>5, <2>6, <2>7, <2>8 DEF Affected
    <2>. QED
      BY <2>5, <2>9
  <1>. HIDE DEF q
  <1>. QED
    BY <1>1, <1>2, <1>3 DEF LedgerFindings, q

LEMMA WindowsStillHold ==
  ASSUME NEW p, ProblemOk(p), NEW e, EventOk(p, e), e.kind # "INSPECTION",
         NEW plan, RowsOnCard(p, plan), NEW o \in DOMAIN plan, o \notin Affected(p, e, plan),
         DurationHolds(p, o, plan[o]), Windows(p, plan) = {}
  PROVE  \A v \in Windows(Apply(p, e), plan) : v[2] # o
  <1>. DEFINE q == Apply(p, e)
  <1>1. q.horizon = p.horizon /\ q.latest = p.latest /\ q.floor = p.floor /\ q.tools = p.tools
    BY Applied, AfterEventFields DEF AfterEvent
  <1>2. /\ ~(OccStart(plan[o]) < 0 \/ plan[o].end > p.horizon)
        /\ ~(plan[o].end > p.latest[o] \/ OccStart(plan[o]) < p.floor[o])
        /\ \A cal \in CalsOf(p, o, plan[o]) : CalendarFits(p, o, plan[o], cal)
    <2>1. /\ <<"HORIZON_VIOLATION", o>> \notin Windows(p, plan)
          /\ <<"WINDOW_BROKEN", o>> \notin Windows(p, plan)
          /\ <<"CALENDAR_BROKEN", o>> \notin Windows(p, plan)
      OBVIOUS
    <2>. QED
      BY <2>1 DEF Windows, Codes, CalsOf
  <1>3. \A cal \in CalsOf(p, o, plan[o]) : CalendarFits(q, o, plan[o], cal)
    BY <1>2, CalendarsStillFit
  <1>. HIDE DEF q
  <1>. QED
    BY <1>1, <1>2, <1>3 DEF Windows, Codes, CalsOf, q

\* Of a plan that the notary accepts, an event breaks only visits that it names.
LEMMA BrokenAreAffected ==
  ASSUME NEW p, ProblemOk(p), NEW e, EventOk(p, e), e.kind # "INSPECTION",
         e.kind = "PART_DELAY" => p.stock[e.on].receipts = {},
         \A pool \in p.pools : pool.unit \notin DOMAIN p.dur,
         NEW plan, RowsOnCard(p, plan), Findings(p, plan) = {}
  PROVE  Broken(Apply(p, e), plan) \subseteq Affected(p, e, plan)
  <1>. DEFINE q == Apply(p, e)
  <1>. SUFFICES ASSUME NEW o \in DOMAIN plan, o \notin Affected(p, e, plan),
                       NEW v \in Findings(q, plan)
                PROVE  v[2] # o
    BY DEF Broken
  <1>1. /\ Durations(p, plan) = {} /\ Eligibility(p, plan) = {} /\ Precedence(p, plan) = {}
        /\ Overlaps(p, plan) = {} /\ Windows(p, plan) = {} /\ Spares(p, plan) = {}
        /\ Setups(p, plan) = {} /\ Frozen(p, plan) = {} /\ LedgerFindings(p, plan) = {}
    BY DEF Findings
  <1>2. DurationHolds(p, o, plan[o]) /\ plan[o].start < plan[o].end
    <2>1. <<"INVALID_DURATION", o>> \notin Durations(p, plan)
      BY <1>1
    <2>. QED
      BY <2>1 DEF Durations, Codes
  <1>3. ASSUME v \in Durations(q, plan)
        PROVE  v[2] # o
    <2>1. DurationHolds(q, o, plan[o])
      BY <1>2, DurationStays
    <2>. HIDE DEF q
    <2>. QED
      BY <1>2, <1>3, <2>1 DEF Durations, Codes
  <1>4. ASSUME v \in Coverage(q, plan)
        PROVE  v[2] # o
    BY <1>4 DEF Coverage, Codes
  <1>5. ASSUME v \in Windows(q, plan)
        PROVE  v[2] # o
    BY <1>1, <1>2, <1>5, WindowsStillHold
  <1>6. ASSUME v \in Spares(q, plan)
        PROVE  v[2] # o
    BY <1>1, <1>6, SparesStillThere
  <1>7. ASSUME v \in LedgerFindings(q, plan)
        PROVE  v[2] # o
    BY <1>1, <1>7, LedgerStillClean
  <1>8. /\ Eligibility(q, plan) = {} /\ Precedence(q, plan) = {} /\ Overlaps(q, plan) = {}
        /\ Setups(q, plan) = {} /\ Frozen(q, plan) = {}
    <2>1. AfterEvent(p, q)
      BY Applied DEF AfterEvent
    <2>. HIDE DEF q
    <2>. QED
      BY <1>1, <2>1, UntouchedChecks
  <1>. HIDE DEF q
  <1>. QED
    BY <1>3, <1>4, <1>5, <1>6, <1>7, <1>8 DEF Findings

\* A spare that may be delayed has no dated receipts, and what a pool is named
\* after is no visit.
DelayedArePlain == \A p \in Problems : PlainStock(p)

StaysPlain == PlainStock(problem)

LEMMA PlainInit == DelayedArePlain /\ ReplanInit => StaysPlain
  BY DEF DelayedArePlain, ReplanInit, Init, StaysPlain

LEMMA PlainNext == ReplanInv /\ StaysPlain /\ [ReplanNext]_allVars => StaysPlain'
  <1>. SUFFICES ASSUME ReplanInv, PlainStock(problem), [ReplanNext]_allVars
                PROVE  PlainStock(problem')
    BY DEF StaysPlain
  <1>0. ProblemOk(problem)
    BY DEF ReplanInv, PlannerInv
  <1>1. ASSUME NEW e \in Events, e.kind # "INSPECTION", NEW limit, Disrupt(e, limit)
        PROVE  PlainStock(problem')
    <2>. DEFINE q == Apply(problem, e)
    <2>1. EventOk(problem, e)
      BY DEF ReplanInv, EventsFit
    <2>2. /\ ProblemOk(q) /\ AlikeBut({"cal", "stock", "dur", "ops"}, problem, q)
          /\ DOMAIN q.dur = DOMAIN problem.dur
      BY <1>0, <1>1, <2>1, Applied
    <2>3. \A s \in DOMAIN problem.stock : q.stock[s].receipts \subseteq problem.stock[s].receipts
      <3>1. ASSUME NEW s \in DOMAIN problem.stock
            PROVE  q.stock[s].receipts \subseteq problem.stock[s].receipts
        <4>1. CASE e.kind = "PART_DELAY" /\ s = e.on
          BY <1>0, <1>1, <2>1, <4>1, WhatChanges
        <4>2. CASE ~(e.kind = "PART_DELAY" /\ s = e.on)
          <5>1. q.stock[s] = problem.stock[s]
            BY <1>0, <1>1, <2>1, <4>2, WhatChanges
          <5>. HIDE DEF q
          <5>. QED
            BY <5>1
        <4>. QED
          BY <4>1, <4>2
      <3>. QED
        BY <3>1
    <2>4. \E F, Z : problem' = [q EXCEPT !.floor = F, !.frozen = Z]
      BY <1>1 DEF Disrupt
    <2>5. \A d \in Events : d.kind = "PART_DELAY" => d.on \in DOMAIN problem.stock
      BY DEF ReplanInv, EventsFit, EventOk
    <2>. HIDE DEF q
    <2>6. problem'.pools = problem.pools /\ problem'.stock = q.stock
          /\ DOMAIN problem'.dur = DOMAIN problem.dur
      BY <2>2, <2>4 DEF ProblemOk, ProblemFields, AlikeBut
    <2>7. ASSUME NEW d \in Events, d.kind = "PART_DELAY"
          PROVE  problem'.stock[d.on].receipts = {}
      BY <2>3, <2>5, <2>6, <2>7 DEF PlainStock
    <2>. QED
      BY <2>6, <2>7 DEF PlainStock
  <1>2. ASSUME NEW e \in Events, Inspect(e)
        PROVE  PlainStock(problem')
    <2>1. \E L, Z : problem' = [[problem EXCEPT !.ops = @ \cup e.ops, !.links = L] EXCEPT !.frozen = Z]
      BY <1>2 DEF Inspect
    <2>2. problem'.pools = problem.pools /\ problem'.stock = problem.stock /\ problem'.dur = problem.dur
      BY <1>0, <2>1 DEF ProblemOk, ProblemFields
    <2>. QED
      BY <2>2 DEF PlainStock
  <1>3. CASE Plan
    BY <1>3 DEF Plan, Next, Place, Stop
  <1>4. CASE Issue
    BY <1>4 DEF Issue
  <1>5. CASE UNCHANGED allVars
    BY <1>5 DEF allVars
  <1>. QED
    BY <1>1, <1>2, <1>3, <1>4, <1>5 DEF ReplanNext

\* affected_operation_ids misses no visit of an accepted plan that an event has
\* broken, whatever happened before, if delayed spares have no dated receipts.
THEOREM AffectedMissesNothing ==
  ASSUME DelayedArePlain
  PROVE  ReplanSpec => []NoBrokenVisitMissed
  <1>1. ReplanInit => StaysPlain
    BY PlainInit
  <1>2. ReplanInv /\ StaysPlain => NoBrokenVisitMissed
    <2>1. SUFFICES ASSUME ReplanInv, PlainStock(problem), Accepted, NEW e \in Events,
                          e.kind # "INSPECTION"
                   PROVE  Broken(Apply(problem, e), issued) \subseteq Affected(problem, e, issued)
      BY DEF NoBrokenVisitMissed, StaysPlain
    <2>2. ProblemOk(problem) /\ EventOk(problem, e)
      BY <2>1 DEF ReplanInv, PlannerInv, EventsFit
    <2>3. RowsOnCard(problem, issued)
      BY <2>1, IssuedRows DEF Accepted, RowsOnCard
    <2>4. Findings(problem, issued) = {}
      BY <2>1 DEF Accepted, Violations
    <2>5. /\ e.kind = "PART_DELAY" => problem.stock[e.on].receipts = {}
          /\ \A pool \in problem.pools : pool.unit \notin DOMAIN problem.dur
      BY <2>1 DEF PlainStock
    <2>. QED
      BY <2>1, <2>2, <2>3, <2>4, <2>5, BrokenAreAffected
  <1>. QED
    BY <1>1, <1>2, PlainNext, ReplanKeepsInv, PTL DEF ReplanSpec

-----------------------------------------------------------------------------
(***************************************************************************)
(* What is frozen of a sound plan.  On a post with one lane the rows that  *)
(* stay are the first ones, so that each follows the same row as before.   *)
(***************************************************************************)
\* The same rows, or fewer of them, do not overfill what the others did not.
LEMMA FewerOverlapLess ==
  ASSUME NEW a, NEW b, NEW S \in SUBSET DOMAIN a, IsFiniteSet(S), NEW T \in SUBSET S,
         \A o \in T : OccStart(b[o]) = OccStart(a[o]) /\ b[o].end = a[o].end,
         NEW cap \in Int, ~Excess(a, S, cap)
  PROVE  ~Excess(b, T, cap)
  <1>. SUFFICES ASSUME NEW o \in T, Live(b[o], OccStart(b[o])),
                       Cardinality(LiveAt(b, T, OccStart(b[o]))) > cap
                PROVE  FALSE
    BY DEF Excess
  <1>. DEFINE t == OccStart(a[o])
              few == LiveAt(b, T, t)
              all == LiveAt(a, S, t)
  <1>1. Live(a[o], t) /\ OccStart(b[o]) = t
    BY DEF Live
  <1>2. few \in SUBSET all /\ all \in SUBSET S
    BY DEF LiveAt, Live
  <1>3. IsFiniteSet(all)
    <2>. HIDE DEF all
    <2>. QED
      BY <1>2, FS_Subset
  <1>4. Cardinality(all) \in Nat /\ Cardinality(few) \in Nat /\ Cardinality(few) <= Cardinality(all)
    <2>. HIDE DEF all, few
    <2>. QED
      BY <1>2, <1>3, FewerRows
  <1>5. Cardinality(few) > cap
    BY <1>1
  <1>6. Cardinality(all) > cap
    <2>. HIDE DEF all, few
    <2>. QED
      BY <1>4, <1>5
  <1>. QED
    BY <1>1, <1>6 DEF Excess

\* Of a sound plan these checks of the notary find nothing.
LEMMA SoundPlans ==
  ASSUME NEW p, NEW plan, Sound(p, plan)
  PROVE  /\ FrozenFragmentOk(p)
         /\ Durations(p, plan) = {} /\ Eligibility(p, plan) = {} /\ Overlaps(p, plan) = {}
         /\ Windows(p, plan) = {} /\ Setups(p, plan) = {}
         /\ \A o \in DOMAIN plan : \A l \in p.links[o] : l.pred \in DOMAIN plan => LinkHolds(plan, o, l)
  <1>1. \A v \in Unfinished(p, plan) : v[1] = "PARTIAL_COVERAGE" \/ v[1] = "PRECEDENCE_BROKEN"
    BY DEF Unfinished, Codes
  <1>2. FrozenFragmentOk(p)
    <2>1. ASSUME ~FrozenFragmentOk(p)
          PROVE  FALSE
      <3>1. <<"INVALID_PROBLEM", 0>> \in Unfinished(p, plan)
        BY <2>1 DEF Sound, Violations
      <3>. QED
        BY <1>1, <3>1
    <2>. QED
      BY <2>1
  <1>3. \A v \in Findings(p, plan) : v[1] = "PARTIAL_COVERAGE" \/ v[1] = "PRECEDENCE_BROKEN"
    BY <1>1, <1>2 DEF Sound, Violations
  <1>4. /\ \A v \in Durations(p, plan) : v[1] = "INVALID_DURATION"
        /\ \A v \in Eligibility(p, plan) :
             v[1] \in {"ELIGIBLE_CENTER_MISMATCH", "SKILL_MISMATCH", "AUX_MISSING"}
        /\ \A v \in Overlaps(p, plan) : v[1] \in {"CENTER_OVERLAP", "CREW_OVERLAP", "AUX_OVERLAP"}
        /\ \A v \in Windows(p, plan) :
             v[1] \in {"HORIZON_VIOLATION", "WINDOW_BROKEN", "CALENDAR_BROKEN"}
        /\ \A v \in Setups(p, plan) : v[1] \in {"SETUP_MISMATCH", "MISSING_SETUP"}
    <2>1. \A code, S : \A v \in Codes(code, S) : v[1] = code
      BY DEF Codes
    <2>2. \A v \in Durations(p, plan) : v[1] = "INVALID_DURATION"
      BY <2>1 DEF Durations
    <2>3. \A v \in Eligibility(p, plan) :
            v[1] \in {"ELIGIBLE_CENTER_MISMATCH", "SKILL_MISMATCH", "AUX_MISSING"}
      BY <2>1 DEF Eligibility
    <2>4. \A v \in Overlaps(p, plan) : v[1] \in {"CENTER_OVERLAP", "CREW_OVERLAP", "AUX_OVERLAP"}
      BY <2>1 DEF Overlaps
    <2>5. \A v \in Windows(p, plan) : v[1] \in {"HORIZON_VIOLATION", "WINDOW_BROKEN", "CALENDAR_BROKEN"}
      BY <2>1 DEF Windows
    <2>6. \A c : \A v \in SetupsAt(p, plan, c) : v[1] \in {"SETUP_MISMATCH", "MISSING_SETUP"}
      BY <2>1 DEF SetupsAt
    <2>. QED
      BY <2>2, <2>3, <2>4, <2>5, <2>6 DEF Setups
  <1>5. /\ Durations(p, plan) \subseteq Findings(p, plan) /\ Eligibility(p, plan) \subseteq Findings(p, plan)
        /\ Overlaps(p, plan) \subseteq Findings(p, plan) /\ Windows(p, plan) \subseteq Findings(p, plan)
        /\ Setups(p, plan) \subseteq Findings(p, plan)
    BY DEF Findings
  <1>. QED
    BY <1>2, <1>3, <1>4, <1>5 DEF Sound

\* What model validation asks of a frozen row on its own.
PassesAsFrozen(p, o, r) ==
  /\ Eligible(p, o, r.post)
  /\ NeedsCrew(p, o) /\ r.crew # NoCrew => Skilled(p, o, r.crew)
  /\ r.start < r.end /\ DurationHolds(p, o, r)
  /\ \A cal \in CalsOf(p, o, r) : CalendarFits(p, o, r, cal)

\* A row that goes the same way with the same crew and tools passes as well.
LEMMA IssuedPassesAsFrozen ==
  ASSUME NEW p, NEW plan, Sound(p, plan), NEW o \in DOMAIN plan,
         NEW r, SameWork(plan[o], r)
  PROVE  PassesAsFrozen(p, o, r)
  <1>. DEFINE i == plan[o]
  <1>1. /\ <<"INVALID_DURATION", o>> \notin Durations(p, plan)
        /\ <<"ELIGIBLE_CENTER_MISMATCH", o>> \notin Eligibility(p, plan)
        /\ <<"SKILL_MISMATCH", o>> \notin Eligibility(p, plan)
        /\ <<"CALENDAR_BROKEN", o>> \notin Windows(p, plan)
    BY SoundPlans
  <1>2. i.start < i.end /\ DurationHolds(p, o, i)
    BY <1>1 DEF Durations, Codes
  <1>3. Eligible(p, o, i.post) /\ CrewFits(p, o, i)
    BY <1>1 DEF Eligibility, Codes
  <1>4. \A cal \in CalendarsOf(i.post, i.crew, i.tools \cup p.tools[o]) : CalendarFits(p, o, i, cal)
    BY <1>1 DEF Windows, Codes
  <1>5. r.post = i.post /\ r.crew = i.crew /\ r.tools = i.tools /\ r.start = i.start /\ r.end = i.end
    BY DEF SameWork
  <1>6. DurationHolds(p, o, r) /\ \A cal : CalendarFits(p, o, r, cal) <=> CalendarFits(p, o, i, cal)
    BY <1>2, LanesAreNotRead
  <1>. HIDE DEF i
  <1>. QED
    BY <1>2, <1>3, <1>4, <1>5, <1>6 DEF PassesAsFrozen, CalsOf, CrewFits

\* The rows of a sound plan on a post with one lane follow one another, and each
\* is written with the setup from the one that it follows.
LEMMA SoundLanes ==
  ASSUME NEW p, ProblemOk(p), NEW plan, RowsOnCard(p, plan), Sound(p, plan),
         NEW c \in DOMAIN p.cap, p.cap[c] = 1, NEW S, S = AtPost(plan, c)
  PROVE  /\ OneByOne(plan, S)
         /\ ColourLanes(p, c, plan, S) \in OnOneLane(p, c, plan, S, S)
         /\ \A o \in S : \A x : Follows(plan, S, o, x) => SetupFits(p, c, x, o, plan[o].setup)
  <1>. DEFINE at == ColourLanes(p, c, plan, S).at
  <1>1. ~Excess(plan, S, 1)
    <2>1. <<"CENTER_OVERLAP", c>> \notin Overlaps(p, plan)
      BY SoundPlans
    <2>. QED
      BY <2>1 DEF Overlaps, Codes
  <1>2. OneByOne(plan, S) /\ ColourLanes(p, c, plan, S) \in OnOneLane(p, c, plan, S, S)
    BY <1>1, RowsOneByOne
  <1>3. DOMAIN at = S /\ \A o \in S : InTurn(p, c, plan, S, o, at[o])
    BY <1>2 DEF OnOneLane, Colourings
  <1>4. SetupsAt(p, plan, c) = {}
    BY SoundPlans DEF Setups
  <1>5. ASSUME NEW o \in S, NEW x, Follows(plan, S, o, x)
        PROVE  SetupFits(p, c, x, o, plan[o].setup)
    <2>. DEFINE exp == ExpectedSetup(p, at[o])
    <2>1. ~at[o].ambiguous /\ at[o].prev = x
      BY <1>2, <1>3, <1>5, FollowsOnlyOne DEF InTurn
    <2>2. at[o].expected = Cell(p, c, StateAfter(p, x), p.state[o])
      BY <1>3, <2>1 DEF InTurn
    <2>3. <<"MISSING_SETUP", o>> \notin SetupsAt(p, plan, c) /\ <<"SETUP_MISMATCH", o>> \notin SetupsAt(p, plan, c)
      BY <1>4
    <2>4. exp # NoCell /\ plan[o].setup = exp
      <3>1. o \in {y \in DOMAIN at : ~at[y].ambiguous}
        BY <1>3, <2>1
      <3>. QED
        BY <2>3, <3>1 DEF SetupsAt, Codes
    <2>. HIDE DEF at
    <2>. QED
      BY <2>2, <2>4 DEF ExpectedSetup, SetupFits
  <1>. QED
    BY <1>2, <1>5

\* _lane_disruption_release and the window: a row that stays behind one that is
\* freed is behind a successor of a hit, or was protected.
LEMMA KeptComeFirst ==
  ASSUME NEW p, ProblemOk(p), OneLane(p), NEW plan, RowsOnCard(p, plan), Sound(p, plan),
         NEW q, AfterEvent(p, q), NEW hits, NEW limit,
         NEW free, free = Release(q, plan, hits) \ (Protected(plan, limit) \ hits),
         NEW a \in DOMAIN plan, a \in free, NEW o \in DOMAIN plan, o \notin free,
         plan[a].post = plan[o].post, OccStart(plan[a]) < OccStart(plan[o])
  PROVE  Preds(q, a) \cap hits # {} \/ plan[o].start < limit
  <1>. DEFINE col(c) == ColourLanes(q, c, plan, AtPost(plan, c))
              tail(d) == {y \in AtPost(plan, plan[d].post) :
                            /\ col(plan[d].post).at[y].lane = col(plan[d].post).at[d].lane
                            /\ OccStart(plan[y]) >= OccStart(plan[d])}
  <1>1. q.cap = p.cap /\ q.state = p.state /\ q.setup = p.setup
    BY AfterEventFields
  <1>2. ASSUME NEW c \in DOMAIN p.cap
        PROVE  ~col(c).overflow /\ \A y \in AtPost(plan, c) : col(c).at[y].lane = 0
    <2>1. ColourLanes(p, c, plan, AtPost(plan, c)) \in OnOneLane(p, c, plan, AtPost(plan, c), AtPost(plan, c))
      BY SoundLanes DEF OneLane
    <2>2. col(c) = ColourLanes(p, c, plan, AtPost(plan, c))
      BY <1>1, SameColouring
    <2>. HIDE DEF col
    <2>. QED
      BY <2>1, <2>2 DEF OnOneLane, InTurn
  <1>3. \A y \in DOMAIN plan : plan[y].post \in DOMAIN p.cap /\ OccStart(plan[y]) \in Int
    BY DEF RowsOnCard, RowOk, OccStart
  <1>4. LaneTail(q, plan, hits) = UNION {tail(d) : d \in hits \cap DOMAIN plan}
    <2>1. ~\E c \in DOMAIN q.cap : col(c).overflow
      BY <1>1, <1>2
    <2>2. LaneTail(q, plan, hits) = IF \E c \in DOMAIN q.cap : col(c).overflow THEN {}
                                    ELSE UNION {tail(d) : d \in hits \cap DOMAIN plan}
      BY DEF LaneTail
    <2>. HIDE DEF col, tail
    <2>. QED
      BY <2>1, <2>2
  <1>5. ASSUME NEW d \in hits \cap DOMAIN plan, NEW y \in DOMAIN plan
        PROVE  y \in tail(d) <=> plan[y].post = plan[d].post /\ OccStart(plan[y]) >= OccStart(plan[d])
    <2>1. \A z \in AtPost(plan, plan[d].post) : col(plan[d].post).at[z].lane = 0
      BY <1>2, <1>3
    <2>2. d \in AtPost(plan, plan[d].post)
      BY DEF AtPost
    <2>. HIDE DEF col
    <2>. QED
      BY <2>1, <2>2 DEF AtPost
  <1>. HIDE DEF tail
  <1>6. a \in Release(q, plan, hits)
    OBVIOUS
  <1>7. CASE Preds(q, a) \cap hits # {}
    BY <1>7
  <1>8. CASE \E d \in hits \cap DOMAIN plan : plan[a].post = plan[d].post /\ OccStart(plan[a]) >= OccStart(plan[d])
    <2>1. PICK d \in hits \cap DOMAIN plan : plan[a].post = plan[d].post /\ OccStart(plan[a]) >= OccStart(plan[d])
      BY <1>8
    <2>2. plan[o].post = plan[d].post /\ OccStart(plan[o]) >= OccStart(plan[d])
      BY <1>3, <2>1
    <2>3. o \in tail(d)
      BY <1>5, <2>2
    <2>4. o \in LaneTail(q, plan, hits)
      BY <1>4, <2>1, <2>3
    <2>5. o \in Release(q, plan, hits)
      BY <2>4 DEF Release
    <2>6. o \in Protected(plan, limit)
      BY <2>5
    <2>. QED
      BY <2>6 DEF Protected
  <1>9. a \in hits => OccStart(plan[a]) >= OccStart(plan[a]) /\ a \in hits \cap DOMAIN plan
    BY <1>3
  <1>10. a \in LaneTail(q, plan, hits) => \E d \in hits \cap DOMAIN plan : a \in tail(d)
    BY <1>4
  <1>. QED
    BY <1>5, <1>6, <1>7, <1>8, <1>9, <1>10 DEF Release

\* Rows of a plan that stay where they are.
StayPut(plan, rows) ==
  DOMAIN rows \subseteq DOMAIN plan /\ \A o \in DOMAIN rows : SameSlot(plan[o], rows[o])

LEMMA SameTimes ==
  ASSUME NEW plan, NEW rows, StayPut(plan, rows), NEW o \in DOMAIN rows
  PROVE  /\ o \in DOMAIN plan /\ rows[o].post = plan[o].post /\ rows[o].setup = plan[o].setup
         /\ rows[o].start = plan[o].start /\ rows[o].end = plan[o].end
         /\ OccStart(rows[o]) = OccStart(plan[o])
  BY DEF StayPut, SameSlot, OccStart

\* A row that passes, and that an event spares, passes after it.
LEMMA SparedRowsPass ==
  ASSUME NEW p, ProblemOk(p), NEW e, EventOk(p, e), e.kind # "INSPECTION",
         NEW rows, RowsOnCard(p, rows), NEW o \in DOMAIN rows, o \notin Affected(p, e, rows),
         PassesAsFrozen(p, o, rows[o]),
         NEW r, AlikeBut({"floor", "frozen"}, Apply(p, e), r)
  PROVE  PassesAsFrozen(r, o, rows[o])
  <1>. DEFINE q == Apply(p, e)
              i == rows[o]
  <1>1. AfterEvent(p, q)
    BY Applied DEF AfterEvent
  <1>. DEFINE D(x) == DurationHolds(x, o, i)
              C(x, cal) == CalendarFits(x, o, i, cal)
  <1>2. D(q)
    BY DurationStays DEF PassesAsFrozen
  <1>3. \A cal \in CalsOf(p, o, i) : C(q, cal)
    BY CalendarsStillFit DEF PassesAsFrozen
  <1>. HIDE DEF q, i
  <1>4. /\ q.posts = p.posts /\ q.skilled = p.skilled /\ q.permit = p.permit /\ q.tools = p.tools
    BY <1>1, AfterEventFields
  <1>5. /\ r.posts = q.posts /\ r.skilled = q.skilled /\ r.permit = q.permit /\ r.tools = q.tools
        /\ r.policy = q.policy /\ r.dur = q.dur /\ r.unattended = q.unattended /\ r.cal = q.cal
    BY DEF AlikeBut, ProblemFields, q
  <1>6. D(r) <=> D(q)
    BY <1>5 DEF DurationHolds, Staffed, OpenMinutes, Open
  <1>7. \A cal : C(r, cal) <=> C(q, cal)
    BY <1>5 DEF CalendarFits, InMergedWindows, Open
  <1>8. CalsOf(r, o, i) = CalsOf(p, o, i)
    BY <1>4, <1>5 DEF CalsOf
  <1>9. /\ Eligible(p, o, i.post) <=> Eligible(r, o, i.post)
        /\ NeedsCrew(p, o) <=> NeedsCrew(r, o)
        /\ Skilled(p, o, i.crew) <=> Skilled(r, o, i.crew)
    BY <1>4, <1>5 DEF Eligible, NeedsCrew, Skilled
  <1>10. /\ Eligible(p, o, i.post)
         /\ NeedsCrew(p, o) /\ i.crew # NoCrew => Skilled(p, o, i.crew)
         /\ i.start < i.end
    BY DEF PassesAsFrozen, i
  <1>11. D(r) /\ \A cal \in CalsOf(r, o, i) : C(r, cal)
    <2>. HIDE DEF D, C
    <2>. QED
      BY <1>2, <1>3, <1>6, <1>7, <1>8 DEF i
  <1>12. PassesAsFrozen(r, o, i)
    BY <1>9, <1>10, <1>11 DEF PassesAsFrozen
  <1>. QED
    BY <1>12 DEF i

\* The rows that stay share posts, crews and tools no more than they did.
LEMMA KeptRowsApart ==
  ASSUME NEW p, ProblemOk(p), NEW plan, RowsOnCard(p, plan),
         Overlaps(p, plan) = {}, Eligibility(p, plan) = {},
         NEW rows, StayPut(plan, rows), \A o \in DOMAIN rows : rows[o].tools = p.tools[o],
         \A o \in DOMAIN rows : rows[o].crew # NoCrew => rows[o].crew = plan[o].crew
  PROVE  Overlaps(p, rows) = {}
  <1>1. IsFiniteSet(DOMAIN plan)
    <2>1. DOMAIN plan \subseteq DOMAIN p.dur /\ IsFiniteSet(DOMAIN p.dur)
      BY DEF ProblemOk, RowsOnCard
    <2>. QED
      BY <2>1, FS_Subset
  <1>2. ASSUME NEW S \in SUBSET DOMAIN plan, NEW T \in SUBSET S, T \subseteq DOMAIN rows,
               NEW cap \in Int, ~Excess(plan, S, cap)
        PROVE  ~Excess(rows, T, cap)
    <2>1. \A o \in T : OccStart(rows[o]) = OccStart(plan[o]) /\ rows[o].end = plan[o].end
      BY <1>2, SameTimes
    <2>2. IsFiniteSet(S)
      BY <1>1, FS_Subset
    <2>. QED
      BY <1>2, <2>1, <2>2, FewerOverlapLess
  <1>3. \A o \in DOMAIN rows : o \in DOMAIN plan /\ rows[o].post = plan[o].post
    BY SameTimes
  <1>4. \A o \in DOMAIN plan : p.tools[o] \subseteq plan[o].tools
    BY DEF Eligibility, Codes
  <1>5. ASSUME NEW c \in DOMAIN p.cap
        PROVE  ~Excess(rows, AtPost(rows, c), p.cap[c])
    <2>1. ~Excess(plan, AtPost(plan, c), p.cap[c])
      BY DEF Overlaps, Codes
    <2>2. /\ AtPost(plan, c) \subseteq DOMAIN plan /\ AtPost(rows, c) \subseteq AtPost(plan, c)
          /\ AtPost(rows, c) \subseteq DOMAIN rows
      BY <1>3 DEF AtPost
    <2>3. p.cap[c] \in Int
      BY DEF ProblemOk
    <2>. QED
      BY <1>2, <2>1, <2>2, <2>3
  <1>6. ASSUME NEW w \in DOMAIN p.crewCap
        PROVE  ~Excess(rows, OfCrew(rows, w), p.crewCap[w])
    <2>1. ~Excess(plan, OfCrew(plan, w), p.crewCap[w])
      BY DEF Overlaps, Codes
    <2>2. p.crewCap[w] \in Int /\ w # NoCrew
      BY DEF ProblemOk
    <2>3. /\ OfCrew(plan, w) \subseteq DOMAIN plan /\ OfCrew(rows, w) \subseteq OfCrew(plan, w)
          /\ OfCrew(rows, w) \subseteq DOMAIN rows
      BY <1>3, <2>2 DEF OfCrew
    <2>. QED
      BY <1>2, <2>1, <2>2, <2>3
  <1>7. ASSUME NEW x \in DOMAIN p.toolCap
        PROVE  ~Excess(rows, OnTool(rows, x), p.toolCap[x])
    <2>1. ~Excess(plan, OnTool(plan, x), p.toolCap[x])
      BY DEF Overlaps, Codes
    <2>2. /\ OnTool(plan, x) \subseteq DOMAIN plan /\ OnTool(rows, x) \subseteq OnTool(plan, x)
          /\ OnTool(rows, x) \subseteq DOMAIN rows
      BY <1>3, <1>4 DEF OnTool
    <2>3. p.toolCap[x] \in Int
      BY DEF ProblemOk
    <2>. QED
      BY <1>2, <2>1, <2>2, <2>3
  <1>. QED
    BY <1>5, <1>6, <1>7 DEF Overlaps, Codes

\* Where the rows that stay on a post with one lane are its first ones, each of
\* them is still written with the setup from the one that it follows.
LEMMA KeptSetupsHold ==
  ASSUME NEW p, ProblemOk(p), NEW plan, RowsOnCard(p, plan), Sound(p, plan),
         NEW c \in DOMAIN p.cap, p.cap[c] = 1,
         NEW r, ProblemOk(r), r.cap = p.cap, r.state = p.state, r.setup = p.setup, r.missing = p.missing,
         StayPut(plan, r.frozen),
         \A a \in DOMAIN plan \ DOMAIN r.frozen, o \in DOMAIN r.frozen :
           plan[a].post = plan[o].post => OccStart(plan[a]) >= OccStart(plan[o])
  PROVE  FrozenSetupHolds(r, c)
  <1>. DEFINE Z == r.frozen
              S == AtPost(plan, c)
              T == AtPost(Z, c)
              at == ColourLanes(r, c, Z, T).at
  <1>1. OneByOne(plan, S) /\ \A o \in S : \A x : Follows(plan, S, o, x) => SetupFits(p, c, x, o, plan[o].setup)
    BY SoundLanes
  <1>2. /\ S \subseteq DOMAIN plan /\ T \subseteq DOMAIN Z /\ T \subseteq S
        /\ \A o \in T : /\ OccStart(Z[o]) = OccStart(plan[o]) /\ Z[o].end = plan[o].end
                        /\ Z[o].setup = plan[o].setup
    BY SameTimes DEF AtPost
  <1>3. ~Excess(plan, S, 1)
    <2>1. <<"CENTER_OVERLAP", c>> \notin Overlaps(p, plan)
      BY SoundPlans
    <2>. QED
      BY <2>1 DEF Overlaps, Codes
  <1>4. ~Excess(Z, T, 1)
    <2>1. IsFiniteSet(S)
      BY <1>1 DEF OneByOne, Timed
    <2>. HIDE DEF Z, S, T
    <2>. QED
      BY <1>2, <1>3, <2>1, FewerOverlapLess
  <1>5. RowsOnCard(r, Z)
    BY DEF ProblemOk, FrozenRowOk, RowsOnCard
  <1>6. ColourLanes(r, c, Z, T) \in OnOneLane(r, c, Z, T, T)
    BY <1>4, <1>5, RowsOneByOne
  <1>. HIDE DEF at
  <1>7. DOMAIN at = T /\ \A o \in T : InTurn(r, c, Z, T, o, at[o])
    BY <1>6 DEF OnOneLane, Colourings, at
  <1>8. ASSUME NEW o \in T, NEW x, Follows(Z, T, o, x)
        PROVE  SetupFits(p, c, x, o, Z[o].setup)
    <2>1. \A q \in S : plan[q].end <= OccStart(plan[o]) => q \in T
      <3>1. SUFFICES ASSUME NEW q \in S, plan[q].end <= OccStart(plan[o]) PROVE q \in T
        OBVIOUS
      <3>2. OccStart(plan[q]) < plan[q].end
        BY <1>1, <1>2 DEF OneByOne
      <3>3. OccStart(plan[q]) \in Int /\ plan[q].end \in Int /\ OccStart(plan[o]) \in Int
        BY <1>1, <1>2 DEF OneByOne, Timed
      <3>4. plan[q].post = plan[o].post
        BY <1>2 DEF AtPost
      <3>5. q \in DOMAIN Z
        BY <1>2, <3>1, <3>2, <3>3, <3>4
      <3>6. Z[q].post = c
        BY <3>5, SameTimes DEF AtPost
      <3>. QED
        BY <3>5, <3>6 DEF AtPost
    <2>. HIDE DEF Z, S, T
    <2>2. OverBefore(Z, T, o) = OverBefore(plan, S, o)
      BY <1>2, <2>1 DEF OverBefore
    <2>3. \A q \in OverBefore(Z, T, o) : OccStart(Z[q]) = OccStart(plan[q]) /\ Z[q].end = plan[q].end
      BY <1>2 DEF OverBefore
    <2>4. Follows(plan, S, o, x)
      BY <1>8, <2>2, <2>3 DEF Follows
    <2>. QED
      BY <1>1, <1>2, <2>4
  <1>9. ASSUME NEW o \in T
        PROVE  IF at[o].expected = NoCell THEN r.missing = "zero" /\ Z[o].setup = 0
                                          ELSE Z[o].setup = at[o].expected
    <2>1. SetupFits(p, c, at[o].prev, o, Z[o].setup)
      BY <1>7, <1>8 DEF InTurn
    <2>2. at[o].expected = Cell(p, c, StateAfter(p, at[o].prev), p.state[o])
      BY <1>7 DEF InTurn, StateAfter, Cell
    <2>. QED
      BY <2>1, <2>2 DEF SetupFits
  <1>. QED
    BY <1>7, <1>9 DEF FrozenSetupHolds, at

\* What an event leaves frozen of a sound plan passes model validation.
LEMMA DisruptFreezesWell ==
  ASSUME ReplanInv, NEW e \in Events, e.kind # "INSPECTION", NEW limit, Disrupt(e, limit),
         Sound(problem, issued), OneLane(problem), ~PostIsCut'
  PROVE  FrozenFragmentOk(problem')
  <1>. DEFINE p == problem
              q == Apply(p, e)
              hits == Affected(p, e, issued)
              free == Release(q, issued, hits) \ (Protected(issued, limit) \ hits)
              F == RestartFloor(q, issued, hits)
              Z == FreezeRest(q, issued, free)
              r == [q EXCEPT !.floor = F, !.frozen = Z]
              W == FrozenTools(r)
  <1>1. /\ ProblemOk(p) /\ EventOk(p, e) /\ phase = "issued" /\ Applies(p, e)
        /\ DOMAIN p.frozen \subseteq DOMAIN placed
    BY DEF ReplanInv, PlannerInv, EventsFit, Disrupt, FrozenStay
  <1>2. /\ problem' = r /\ replan'.hits = hits /\ replan'.free = free /\ replan'.base = issued
        /\ replan'.window = limit
    BY DEF Disrupt
  <1>3. ProblemOk(r)
    BY <1>2, DisruptKeeps DEF ReplanInv, PlannerInv
  <1>4. /\ DOMAIN issued = DOMAIN placed /\ DOMAIN issued \subseteq p.ops
        /\ \A o \in DOMAIN issued : RowOk(p, issued[o])
        /\ \A f \in DOMAIN p.frozen : SameSlot(issued[f], p.frozen[f])
        /\ \A o \in DOMAIN issued \ DOMAIN p.frozen : issued[o].tools = p.tools[o]
    BY <1>1, IssuedRows
  <1>5. ProblemOk(q) /\ AfterEvent(p, q) /\ p.ops \subseteq q.ops
    BY <1>1, Applied DEF AfterEvent
  <1>6. hits \subseteq free
    <2>1. hits \in SUBSET q.ops /\ DOMAIN issued \subseteq q.ops
      BY <1>1, <1>4, <1>5, HitsOnCard
    <2>. HIDE DEF hits, q
    <2>. QED
      BY <2>1, ReleasedVisits
  <1>. HIDE DEF q
  <1>7. /\ AlikeBut({"floor", "frozen"}, q, r) /\ r.frozen = Z
        /\ DOMAIN Z = (DOMAIN q.frozen \cup DOMAIN issued) \ free
        /\ \A o \in DOMAIN Z : Z[o] = IF o \in DOMAIN q.frozen THEN q.frozen[o] ELSE AsFrozen(issued[o])
    <2>1. DOMAIN q = ProblemFields
      BY <1>5 DEF ProblemOk
    <2>2. AlikeBut({"floor", "frozen"}, q, r) /\ r.frozen = Z
      BY <2>1 DEF AlikeBut, ProblemFields
    <2>. QED
      BY <2>2 DEF FreezeRest
  <1>. HIDE DEF r, Z, F, free
  <1>8. /\ q.frozen = p.frozen /\ r.tools = p.tools /\ r.links = p.links /\ r.state = p.state
        /\ r.setup = p.setup /\ r.missing = p.missing
        /\ r.cap = p.cap /\ r.crewCap = p.crewCap /\ r.toolCap = p.toolCap
    BY <1>5, <1>7, AfterEventFields DEF AlikeBut, ProblemFields
  <1>9. DOMAIN Z \subseteq DOMAIN issued /\ DOMAIN issued \ DOMAIN Z = DOMAIN issued \cap free
        /\ DOMAIN Z \cap free = {}
    BY <1>1, <1>4, <1>7, <1>8
  <1>10. StayPut(issued, Z)
    <2>1. \A o \in DOMAIN issued : SameSlot(issued[o], AsFrozen(issued[o]))
      BY DEF AsFrozen, Row, SameSlot
    <2>. QED
      BY <1>4, <1>7, <1>8, <1>9, <2>1 DEF StayPut
  <1>11. DOMAIN W = DOMAIN Z /\ \A o \in DOMAIN Z : W[o] = [Z[o] EXCEPT !.tools = p.tools[o]]
    BY <1>7, <1>8 DEF FrozenTools
  <1>. HIDE DEF W
  <1>12. \A o \in DOMAIN Z : RowOk(p, Z[o])
    BY <1>3, <1>7, <1>8 DEF ProblemOk, FrozenRowOk, RowOk
  <1>13. ASSUME NEW o \in DOMAIN Z
         PROVE  /\ DOMAIN W[o] = RowFields /\ W[o].tools = p.tools[o]
                /\ W[o].post = Z[o].post /\ W[o].crew = Z[o].crew /\ W[o].start = Z[o].start
                /\ W[o].end = Z[o].end /\ W[o].setup = Z[o].setup
    BY <1>11, <1>12 DEF RowOk, RowFields
  <1>14. RowsOnCard(p, W)
    <2>1. \A o \in DOMAIN Z : o \in p.ops /\ p.tools[o] \subseteq DOMAIN p.toolCap
      BY <1>1, <1>4, <1>9 DEF ProblemOk
    <2>. QED
      BY <1>11, <1>12, <1>13, <2>1 DEF RowsOnCard, RowOk, RowFields
  <1>15. StayPut(issued, W)
    BY <1>10, <1>11, <1>13 DEF StayPut, SameSlot
  <1>16. \A o \in DOMAIN W : W[o].crew # NoCrew => W[o].crew = issued[o].crew
    BY <1>15 DEF StayPut, SameSlot
  <1>17. ASSUME NEW o \in DOMAIN W
         PROVE  PassesAsFrozen(p, o, W[o])
    <2>1. CASE o \in DOMAIN p.frozen
      <3>. DEFINE i == FrozenTools(p)[o]
      <3>1. i = W[o] /\ o \in DOMAIN FrozenTools(p)
        BY <1>7, <1>8, <1>11, <2>1 DEF FrozenTools
      <3>2. /\ Eligible(p, o, i.post)
            /\ NeedsCrew(p, o) /\ i.crew # NoCrew => Skilled(p, o, i.crew)
            /\ i.start < i.end /\ DurationHolds(p, o, i)
            /\ \A cal \in CalendarsOf(i.post, i.crew, i.tools) : CalendarFits(p, o, i, cal)
        BY <3>1, SoundPlans DEF FrozenFragmentOk
      <3>. HIDE DEF i
      <3>3. i.tools = p.tools[o]
        BY <1>11, <1>13, <3>1
      <3>4. CalsOf(p, o, i) = CalendarsOf(i.post, i.crew, i.tools)
        BY <3>3 DEF CalsOf
      <3>5. PassesAsFrozen(p, o, i)
        BY <3>2, <3>4 DEF PassesAsFrozen
      <3>. QED
        BY <3>1, <3>5
    <2>2. CASE o \notin DOMAIN p.frozen
      <3>1. Z[o] = AsFrozen(issued[o]) /\ o \in DOMAIN issued
        BY <1>7, <1>8, <1>9, <1>11, <2>2
      <3>2. SameWork(issued[o], W[o])
        BY <1>4, <1>11, <1>13, <2>2, <3>1 DEF SameWork, AsFrozen, Row, RowOk, RowFields
      <3>. QED
        BY <3>1, <3>2, IssuedPassesAsFrozen
    <2>. QED
      BY <2>1, <2>2
  <1>18. ASSUME NEW o \in DOMAIN W
         PROVE  o \notin Affected(p, e, W)
    <2>1. o \in DOMAIN issued /\ o \notin hits
      BY <1>6, <1>9, <1>11
    <2>2. /\ W[o].post = issued[o].post /\ W[o].start = issued[o].start /\ W[o].end = issued[o].end
          /\ OccStart(W[o]) = OccStart(issued[o])
      BY <1>15, SameTimes
    <2>3. CASE e.kind = "POST_DOWN"
      BY <2>1, <2>2, <2>3 DEF Affected, OccupancyHits
    <2>4. CASE e.kind = "CREW_ABSENT"
      <3>1. e.on # NoCrew
        BY <1>1, <2>4 DEF EventOk, ProblemOk
      <3>. QED
        BY <1>16, <2>1, <2>2, <2>4, <3>1 DEF Affected, OccupancyHits
    <2>5. CASE e.kind = "PART_DELAY"
      BY <2>1, <2>2, <2>5 DEF Affected
    <2>6. CASE e.kind \in {"DURATION_OVERRUN", "URGENT_JOB", "RELEASE"}
      BY <2>1, <2>6 DEF Affected
    <2>. QED
      BY <1>1, <2>3, <2>4, <2>5, <2>6 DEF EventOk
  <1>19. \A o \in DOMAIN W : PassesAsFrozen(r, o, W[o])
    BY <1>1, <1>7, <1>14, <1>17, <1>18, SparedRowsPass DEF q
  <1>20. RowsOnCard(p, issued)
    BY <1>4 DEF RowsOnCard
  <1>21. Overlaps(r, W) = {}
    <2>1. Overlaps(p, W) = {}
      BY <1>1, <1>11, <1>13, <1>15, <1>16, <1>20, SoundPlans, KeptRowsApart
    <2>. QED
      BY <1>8, <2>1 DEF Overlaps
  <1>22. ASSUME NEW a \in DOMAIN issued \ DOMAIN Z, NEW o \in DOMAIN Z, issued[a].post = issued[o].post
         PROVE  OccStart(issued[a]) >= OccStart(issued[o])
    <2>1. a \in free /\ o \notin free /\ o \in DOMAIN issued
      BY <1>9
    <2>2. OccStart(issued[a]) \in Int /\ OccStart(issued[o]) \in Int
      BY <1>4, <2>1 DEF RowOk, OccStart
    <2>3. ASSUME OccStart(issued[a]) < OccStart(issued[o])
          PROVE  FALSE
      <3>1. Preds(q, a) \cap hits # {} \/ issued[o].start < limit
        <4>. HIDE DEF hits
        <4>. QED
          BY <1>1, <1>5, <1>20, <1>22, <2>1, <2>3, KeptComeFirst DEF free
      <3>2. Preds(r, a) = Preds(q, a)
        BY <1>5, <1>8, AfterEventFields DEF Preds
      <3>3. PostIsCut'
        BY <1>2, <1>22, <2>1, <2>3, <3>1, <3>2 DEF PostIsCut
      <3>. QED
        BY <3>3
    <2>. QED
      BY <2>2, <2>3
  <1>23. \A c \in DOMAIN r.cap : FrozenSetupHolds(r, c)
    <2>1. ASSUME NEW c \in DOMAIN p.cap
          PROVE  FrozenSetupHolds(r, c)
      <3>1. p.cap[c] = 1
        BY DEF OneLane
      <3>. QED
        BY <1>1, <1>3, <1>7, <1>8, <1>10, <1>20, <1>22, <3>1, KeptSetupsHold
    <2>. QED
      BY <1>8, <2>1
  <1>24. ASSUME NEW o \in DOMAIN W, NEW l \in r.links[o], l.pred \in DOMAIN W
         PROVE  LinkHolds(W, o, l)
    <2>1. LinkHolds(issued, o, l)
      BY <1>8, <1>9, <1>11, <1>24, SoundPlans
    <2>2. \A x \in DOMAIN W : W[x].start = issued[x].start /\ W[x].end = issued[x].end
      BY <1>15, SameTimes
    <2>. QED
      BY <1>24, <2>1, <2>2 DEF LinkHolds
  <1>25. ASSUME NEW o \in DOMAIN W
         PROVE  /\ Eligible(r, o, W[o].post)
                /\ NeedsCrew(r, o) /\ W[o].crew # NoCrew => Skilled(r, o, W[o].crew)
                /\ W[o].start < W[o].end /\ DurationHolds(r, o, W[o])
                /\ \A cal \in CalendarsOf(W[o].post, W[o].crew, W[o].tools) : CalendarFits(r, o, W[o], cal)
    <2>1. W[o].tools \cup r.tools[o] = W[o].tools
      <3>1. W[o].tools = p.tools[o]
        BY <1>11, <1>13
      <3>. QED
        BY <1>8, <3>1
    <2>2. CalsOf(r, o, W[o]) = CalendarsOf(W[o].post, W[o].crew, W[o].tools)
      BY <2>1 DEF CalsOf
    <2>. QED
      BY <1>19, <2>2 DEF PassesAsFrozen
  <1>26. FrozenFragmentOk(r)
    BY <1>21, <1>23, <1>24, <1>25 DEF FrozenFragmentOk, W
  <1>. QED
    BY <1>2, <1>26

\* An inspection is refused where the frozen rows do not agree with its card, and
\* no other step changes what is frozen.
LEMMA FrozenNextWell ==
  ReplanInv /\ FrozenStaysFeasible /\ [ReplanNext]_allVars => FrozenStaysFeasible'
  <1>. SUFFICES ASSUME ReplanInv, FrozenStaysFeasible, [ReplanNext]_allVars
                PROVE  FrozenStaysFeasible'
    OBVIOUS
  <1>1. ASSUME NEW e \in Events, e.kind # "INSPECTION", NEW limit, Disrupt(e, limit)
        PROVE  FrozenStaysFeasible'
    <2>. SUFFICES ASSUME replan'.sound, OneLane(problem'), ~PostIsCut'
                  PROVE  FrozenFragmentOk(problem')
      BY DEF FrozenStaysFeasible
    <2>1. Sound(problem, issued)
      BY <1>1 DEF Disrupt
    <2>2. OneLane(problem)
      <3>1. ProblemOk(problem) /\ EventOk(problem, e)
        BY DEF ReplanInv, PlannerInv, EventsFit
      <3>. DEFINE q == Apply(problem, e)
      <3>2. AfterEvent(problem, q) /\ DOMAIN q = ProblemFields
        BY <1>1, <3>1, Applied DEF AfterEvent, ProblemOk
      <3>3. \E F, Z : problem' = [q EXCEPT !.floor = F, !.frozen = Z]
        BY <1>1 DEF Disrupt
      <3>. HIDE DEF q
      <3>4. problem'.cap = problem.cap
        BY <3>2, <3>3, AfterEventFields DEF ProblemFields
      <3>. QED
        BY <3>4 DEF OneLane
    <2>. QED
      BY <1>1, <2>1, <2>2, DisruptFreezesWell
  <1>2. ASSUME NEW e \in Events, Inspect(e)
        PROVE  FrozenStaysFeasible'
    <2>1. FrozenFragmentOk(problem')
      BY <1>2 DEF Inspect
    <2>. QED
      BY <2>1 DEF FrozenStaysFeasible
  <1>3. CASE problem' = problem /\ replan' = replan /\ rounds' = rounds
    BY <1>3 DEF FrozenStaysFeasible, PostIsCut
  <1>4. CASE Plan
    BY <1>3, <1>4 DEF Plan, Next, Place, Stop
  <1>5. CASE Issue
    BY <1>3, <1>5 DEF Issue
  <1>6. CASE UNCHANGED allVars
    BY <1>3, <1>6 DEF allVars
  <1>. QED
    BY <1>1, <1>2, <1>4, <1>5, <1>6 DEF ReplanNext

\* Round after round, what _replan_lane_local freezes of a sound plan, in a shop
\* of posts with one lane, is a feasible fragment if no row stays behind one of its
\* post that was freed.
THEOREM FrozenFragmentsHold == ReplanSpec => []FrozenStaysFeasible
  <1>1. ReplanInit => FrozenStaysFeasible
    BY DEF ReplanInit, FrozenStaysFeasible
  <1>. QED
    BY <1>1, FrozenNextWell, ReplanKeepsInv, PTL DEF ReplanSpec

-----------------------------------------------------------------------------
(***************************************************************************)
(* Searching in a bounded number of tries.                                 *)
(***************************************************************************)
\* The first good start from s on.
LeastFrom(Good, s) == {m \in Good : m >= s /\ \A x \in Good : x >= s => m <= x}

\* The search f of n tries from s: a try answers, or moves on.
Tried(T, stops, val, go, none, f) ==
  f = [n \in 0..T |-> [s \in Nat |-> IF n = 0 THEN none
                                     ELSE IF s \in stops THEN val[s] ELSE f[n - 1][go[s]]]]

LEMMA TriesExist ==
  ASSUME NEW T \in Nat, NEW stops, NEW val, NEW go, NEW none
  PROVE  \E f : Tried(T, stops, val, go, none, f)
  <1>. DEFINE F == {k \in Nat : ~\E f : Tried(k, stops, val, go, none, f)}
  <1>1. SUFFICES ASSUME F # {} PROVE FALSE
    OBVIOUS
  <1>2. PICK k \in F : \A j \in F : k <= j
    <2>1. F \in SUBSET Nat
      OBVIOUS
    <2>. HIDE DEF F
    <2>. QED
      BY <1>1, <2>1, LeastNat
  <1>3. k # 0
    <2>. DEFINE f == [n \in 0..0 |-> [s \in Nat |-> none]]
    <2>1. f = [n \in 0..0 |-> [s \in Nat |-> IF n = 0 THEN none
                                     ELSE IF s \in stops THEN val[s] ELSE f[n - 1][go[s]]]]
      OBVIOUS
    <2>. HIDE DEF f
    <2>2. Tried(0, stops, val, go, none, f)
      BY <2>1 DEF Tried
    <2>. QED
      BY <2>2
  <1>4. k - 1 \in Nat /\ k - 1 \notin F
    <2>1. k \in Nat
      OBVIOUS
    <2>. HIDE DEF F
    <2>. QED
      BY <1>2, <1>3, <2>1
  <1>5. PICK h : Tried(k - 1, stops, val, go, none, h)
    BY <1>4
  <1>. DEFINE last == [s \in Nat |-> IF s \in stops THEN val[s] ELSE h[k - 1][go[s]]]
              f == [n \in 0..k |-> IF n < k THEN h[n] ELSE last]
              g == [n \in 0..k |-> [s \in Nat |-> IF n = 0 THEN none
                                     ELSE IF s \in stops THEN val[s] ELSE f[n - 1][go[s]]]]
  <1>6. ASSUME NEW n \in 0..k
        PROVE  f[n] = g[n]
    <2>1. CASE n < k
      <3>1. n \in 0..(k - 1) /\ f[n] = h[n]
        BY <1>4, <2>1
      <3>2. h[n] = [s \in Nat |-> IF n = 0 THEN none
                                  ELSE IF s \in stops THEN val[s] ELSE h[n - 1][go[s]]]
        BY <1>5, <3>1 DEF Tried
      <3>3. n # 0 => f[n - 1] = h[n - 1]
        BY <1>4, <2>1
      <3>. QED
        BY <3>1, <3>2, <3>3
    <2>2. CASE n = k
      <3>1. f[n] = last /\ f[n - 1] = h[k - 1] /\ n # 0
        BY <1>3, <1>4, <2>2
      <3>. HIDE DEF f
      <3>. QED
        BY <2>2, <3>1
    <2>. QED
      BY <1>4, <2>1, <2>2
  <1>7. f = g
    <2>. HIDE DEF last
    <2>. QED
      BY <1>6
  <1>8. Tried(k, stops, val, go, none, f)
    <2>. HIDE DEF f
    <2>. QED
      BY <1>7 DEF Tried
  <1>. QED
    BY <1>8

\* The marks after s.
After(Marks, s) == {k \in Marks : k > s}

\* What n tries from s answer: the first good start, or none, where there is none
\* or there are at least as many marks ahead as tries.
Found(Good, Must, Marks, ans, none, n, s, v) ==
  \/ \E m \in LeastFrom(Good, s) : v = ans[m]
  \/ v = none /\ \A m \in Must : m >= s => n <= Cardinality(After(Marks, s))

\* A try that answers is right; one that moves on passes over no good start, and
\* passes a mark where one is still to come that must be found.
Searches(Good, Must, Marks, ans, none, low, stops, val, go) ==
  /\ \A s \in Nat \cap stops : s >= low =>
       \/ \E m \in LeastFrom(Good, s) : val[s] = ans[m]
       \/ val[s] = none /\ \A m \in Must : m < s
  /\ \A s \in Nat \ stops : s >= low =>
       /\ go[s] \in Nat /\ go[s] >= s
       /\ \/ \A m \in Good : m < s
          \/ go[s] > s /\ \A m \in Good : m >= s => m >= go[s]
       /\ (\E m \in Must : m >= s) => \E k \in Marks : k > s /\ k <= go[s]

\* With each mark that is passed there is one fewer ahead.
LEMMA MarkPassed ==
  ASSUME NEW Marks, Marks \subseteq Int, IsFiniteSet(Marks),
         NEW s \in Int, NEW u \in Int, NEW k \in Marks, k > s, k <= u
  PROVE  /\ Cardinality(After(Marks, s)) \in Nat /\ Cardinality(After(Marks, u)) \in Nat
         /\ Cardinality(After(Marks, u)) + 1 <= Cardinality(After(Marks, s))
  <1>. DEFINE A == After(Marks, s)
              B == After(Marks, u)
  <1>1. B \subseteq A /\ A \subseteq Marks /\ k \in A /\ k \notin B
    <2>1. s < u /\ ~(k > u)
      BY DEF After
    <2>2. \A x \in Marks : x > u => x > s
      BY <2>1
    <2>. QED
      BY <2>1, <2>2 DEF After
  <1>. HIDE DEF A, B
  <1>2. IsFiniteSet(A) /\ IsFiniteSet(B)
    BY <1>1, FS_Subset
  <1>3. /\ IsFiniteSet(B \cup {k}) /\ Cardinality(B \cup {k}) = Cardinality(B) + 1
    BY <1>1, <1>2, FS_AddElement
  <1>4. B \cup {k} \in SUBSET A
    BY <1>1
  <1>5. Cardinality(B \cup {k}) <= Cardinality(A)
    BY <1>2, <1>4, FS_Subset
  <1>6. Cardinality(A) \in Nat /\ Cardinality(B) \in Nat
    BY <1>2, FS_CardinalityType
  <1>. QED
    BY <1>3, <1>5, <1>6 DEF A, B

LEMMA TriesFindLeast ==
  ASSUME NEW T \in Nat, NEW Good \in SUBSET Nat, NEW Must \in SUBSET Good,
         NEW Marks \in SUBSET Int, IsFiniteSet(Marks), NEW ans, NEW none,
         NEW stops, NEW val, NEW go, NEW low \in Nat,
         Searches(Good, Must, Marks, ans, none, low, stops, val, go),
         NEW f, Tried(T, stops, val, go, none, f)
  PROVE  \A n \in 0..T, s \in Nat : s >= low => Found(Good, Must, Marks, ans, none, n, s, f[n][s])
  <1>. DEFINE B == {n \in 0..T : \E s \in Nat : s >= low /\ ~Found(Good, Must, Marks, ans, none, n, s, f[n][s])}
  <1>1. SUFFICES ASSUME B # {} PROVE FALSE
    OBVIOUS
  <1>2. PICK n \in B : \A j \in B : n <= j
    <2>1. B \in SUBSET Nat
      OBVIOUS
    <2>. HIDE DEF B
    <2>. QED
      BY <1>1, <2>1, LeastNat
  <1>3. PICK s \in Nat : s >= low /\ ~Found(Good, Must, Marks, ans, none, n, s, f[n][s])
    OBVIOUS
  <1>4. n \in 0..T
    OBVIOUS
  <1>40. ASSUME NEW j \in 0..T, j < n, NEW x \in Nat, x >= low
         PROVE  Found(Good, Must, Marks, ans, none, j, x, f[j][x])
    <2>1. j \notin B
      <3>. HIDE DEF B
      <3>. QED
        BY <1>2, <1>4, <1>40
    <2>. QED
      BY <1>40, <2>1
  <1>. HIDE DEF B
  <1>5. f[n][s] = IF n = 0 THEN none ELSE IF s \in stops THEN val[s] ELSE f[n - 1][go[s]]
    <2>1. f[n] = [x \in Nat |-> IF n = 0 THEN none
                                ELSE IF x \in stops THEN val[x] ELSE f[n - 1][go[x]]]
      BY <1>4 DEF Tried
    <2>. QED
      BY <2>1
  <1>6. n # 0
    <2>1. 0 <= Cardinality(After(Marks, s))
      <3>1. After(Marks, s) \in SUBSET Marks
        BY DEF After
      <3>. QED
        BY <3>1, FS_Subset, FS_CardinalityType
    <2>. QED
      BY <1>3, <1>5, <2>1 DEF Found
  <1>7. CASE s \in stops
    <2>1. \A m \in Must : ~(m < s /\ m >= s)
      OBVIOUS
    <2>. QED
      BY <1>3, <1>5, <1>6, <1>7, <2>1 DEF Found, Searches
  <1>8. CASE s \notin stops
    <2>. DEFINE u == go[s]
    <2>1. /\ u \in Nat /\ u >= s
          /\ \/ \A m \in Good : m < s
             \/ u > s /\ \A m \in Good : m >= s => m >= u
          /\ (\E m \in Must : m >= s) => \E k \in Marks : k > s /\ k <= u
      BY <1>3, <1>8 DEF Searches
    <2>2. n - 1 \in 0..T /\ n - 1 < n /\ u >= low
      BY <1>3, <1>4, <1>6, <2>1
    <2>3. Found(Good, Must, Marks, ans, none, n - 1, u, f[n - 1][u])
      BY <1>40, <2>1, <2>2
    <2>4. f[n][s] = f[n - 1][u]
      BY <1>5, <1>6, <1>8
    <2>. HIDE DEF u
    <2>5. CASE \E m \in LeastFrom(Good, u) : f[n - 1][u] = ans[m]
      <3>1. PICK m \in LeastFrom(Good, u) : f[n - 1][u] = ans[m]
        BY <2>5
      <3>2. m \in LeastFrom(Good, s)
        BY <2>1 DEF LeastFrom
      <3>. QED
        BY <1>3, <2>4, <3>1, <3>2 DEF Found, LeastFrom
    <2>6. CASE f[n - 1][u] = none /\ \A m \in Must : m >= u => n - 1 <= Cardinality(After(Marks, u))
      <3>1. ASSUME NEW m \in Must, m >= s
            PROVE  n <= Cardinality(After(Marks, s))
        <4>1. m \in Good /\ m \in Nat
          OBVIOUS
        <4>2. m >= u /\ u > s
          BY <2>1, <3>1, <4>1
        <4>3. PICK k \in Marks : k > s /\ k <= u
          BY <2>1, <3>1
        <4>4. /\ Cardinality(After(Marks, s)) \in Nat /\ Cardinality(After(Marks, u)) \in Nat
              /\ Cardinality(After(Marks, u)) + 1 <= Cardinality(After(Marks, s))
          <5>1. s \in Int /\ u \in Int /\ Marks \subseteq Int /\ k > s /\ k <= u
            BY <2>1, <4>3
          <5>. QED
            BY <5>1, MarkPassed
        <4>. QED
          BY <1>4, <2>6, <4>2, <4>4
      <3>. QED
        BY <1>3, <2>4, <2>6, <3>1 DEF Found
    <2>. QED
      BY <2>3, <2>5, <2>6 DEF Found
  <1>. QED
    BY <1>7, <1>8

-----------------------------------------------------------------------------
(***************************************************************************)
(* When a visit ends.                                                      *)
(***************************************************************************)
\* One more minute adds one to the open minutes, if it is open, and a later start
\* or an earlier end adds none.
LEMMA OpenMinutesGrow ==
  ASSUME NEW p, NEW cals, NEW a \in Int
  PROVE  /\ OpenMinutes(p, cals, a, a) = 0
         /\ \A b \in Int : OpenMinutes(p, cals, a, b) \in Nat
         /\ \A b \in Int : b >= a =>
              OpenMinutes(p, cals, a, b + 1)
                = OpenMinutes(p, cals, a, b) + IF \A r \in cals : Open(p, r, b) THEN 1 ELSE 0
         /\ \A x, b, e \in Int : a <= x /\ b <= e
              => OpenMinutes(p, cals, x, b) <= OpenMinutes(p, cals, a, e)
  <1>. DEFINE M(x, b) == {t \in x..(b - 1) : \A r \in cals : Open(p, r, t)}
  <1>1. \A x, b : OpenMinutes(p, cals, x, b) = Cardinality(M(x, b))
    BY DEF OpenMinutes
  <1>2. ASSUME NEW x \in Int, NEW b \in Int
        PROVE  IsFiniteSet(M(x, b)) /\ Cardinality(M(x, b)) \in Nat
    <2>1. IsFiniteSet(x..(b - 1)) /\ M(x, b) \subseteq x..(b - 1)
      BY FS_Interval
    <2>. HIDE DEF M
    <2>. QED
      BY <2>1, FS_Subset, FS_CardinalityType
  <1>3. OpenMinutes(p, cals, a, a) = 0
    <2>1. M(a, a) = {}
      OBVIOUS
    <2>. HIDE DEF M
    <2>. QED
      BY <1>1, <2>1, FS_EmptySet
  <1>4. ASSUME NEW b \in Int, b >= a
        PROVE  OpenMinutes(p, cals, a, b + 1)
                 = OpenMinutes(p, cals, a, b) + IF \A r \in cals : Open(p, r, b) THEN 1 ELSE 0
    <2>1. CASE \A r \in cals : Open(p, r, b)
      <3>1. M(a, b + 1) = M(a, b) \cup {b} /\ b \notin M(a, b)
        BY <1>4, <2>1
      <3>2. IsFiniteSet(M(a, b)) /\ Cardinality(M(a, b)) \in Nat
        BY <1>2, <1>4
      <3>3. Cardinality(M(a, b) \cup {b}) = Cardinality(M(a, b)) + 1
        <4>. HIDE DEF M
        <4>. QED
          BY <3>1, <3>2, FS_AddElement
      <3>. QED
        BY <1>1, <2>1, <3>1, <3>3
    <2>2. CASE ~\A r \in cals : Open(p, r, b)
      <3>1. M(a, b + 1) = M(a, b)
        BY <1>4, <2>2
      <3>. HIDE DEF M
      <3>. QED
        BY <1>1, <1>2, <2>2, <3>1
    <2>. QED
      BY <2>1, <2>2
  <1>5. ASSUME NEW x \in Int, NEW b \in Int, NEW e \in Int, a <= x, b <= e
        PROVE  OpenMinutes(p, cals, x, b) <= OpenMinutes(p, cals, a, e)
    <2>1. M(x, b) \subseteq M(a, e)
      BY <1>5
    <2>2. IsFiniteSet(M(a, e))
      BY <1>2, <1>5
    <2>3. Cardinality(M(x, b)) <= Cardinality(M(a, e))
      <3>. HIDE DEF M
      <3>. QED
        BY <2>1, <2>2, FS_Subset
    <2>. QED
      BY <1>1, <2>3
  <1>. HIDE DEF M
  <1>. QED
    BY <1>1, <1>2, <1>3, <1>4, <1>5

\* A visit that could start later could start now, and would end no later; and
\* of each start there is one end.
LEMMA EndsFollowStarts ==
  ASSUME NEW p, ProblemOk(p), NEW o \in p.ops, NEW cals,
         NEW s \in Nat, NEW x \in Nat, s <= x, NEW late \in Ends(p, o, cals, x)
  PROVE  \E e \in Ends(p, o, cals, s) : e <= late
  <1>. DEFINE C(b) == OpenMinutes(p, Staffed(p, cals), s, b)
              open(b) == \A r \in Staffed(p, cals) : Open(p, r, b)
              d == p.dur[o]
  <1>0. d \in Nat \ {0} /\ p.horizon \in Nat
    BY DEF ProblemOk
  <1>1. CASE p.policy[o] # "preemptive"
    BY <1>0, <1>1 DEF Ends
  <1>2. CASE p.policy[o] = "preemptive"
    <2>1. /\ late \in (x + 1)..p.horizon
          /\ OpenMinutes(p, Staffed(p, cals), x, late) = d
      BY <1>2 DEF Ends
    <2>2. /\ C(s) = 0
          /\ \A b \in Int : C(b) \in Nat
          /\ \A b \in Int : b >= s => C(b + 1) = C(b) + IF open(b) THEN 1 ELSE 0
          /\ d <= C(late)
      <3>1. late \in Int /\ late <= late
        BY <1>0, <2>1
      <3>. QED
        BY <2>1, <3>1, OpenMinutesGrow
    <2>. HIDE DEF C, open, d
    <2>. DEFINE E == {b \in s..late : C(b) >= d}
    <2>3. E \in SUBSET Nat /\ late \in E
      BY <1>0, <2>1, <2>2
    <2>4. PICK e \in E : \A b \in E : e <= b
      <3>. HIDE DEF E
      <3>. QED
        BY <2>3, LeastNat
    <2>5. e \in s..late /\ C(e) >= d
      OBVIOUS
    <2>6. e # s
      BY <1>0, <2>2, <2>5
    <2>7. e - 1 \in s..late /\ e - 1 >= s /\ e \in Nat
      BY <2>1, <2>5, <2>6
    <2>8. C(e - 1) < d
      <3>1. ~(e <= e - 1) /\ C(e - 1) \in Nat
        BY <2>2, <2>7
      <3>2. e - 1 \notin E
        <4>. HIDE DEF E
        <4>. QED
          BY <2>4, <3>1
      <3>. QED
        BY <1>0, <2>7, <3>1, <3>2
    <2>9. C(e) = C(e - 1) + IF open(e - 1) THEN 1 ELSE 0
      <3>1. (e - 1) + 1 = e /\ e - 1 \in Int
        BY <2>7
      <3>. QED
        BY <2>2, <2>7, <3>1
    <2>10. C(e) = d /\ open(e - 1)
      BY <1>0, <2>2, <2>5, <2>7, <2>8, <2>9
    <2>11. e \in (s + 1)..p.horizon /\ e <= late
      BY <1>0, <2>1, <2>5, <2>6
    <2>. QED
      BY <1>2, <2>10, <2>11 DEF Ends, C, d, open
  <1>. QED
    BY <1>1, <1>2

LEMMA OneEnd ==
  ASSUME NEW p, ProblemOk(p), NEW o \in p.ops, NEW cals,
         NEW s \in Nat, NEW e \in Ends(p, o, cals, s), NEW x \in Ends(p, o, cals, s)
  PROVE  e = x
  <1>. DEFINE C(b) == OpenMinutes(p, Staffed(p, cals), s, b)
              open(b) == \A r \in Staffed(p, cals) : Open(p, r, b)
  <1>0. p.dur[o] \in Nat \ {0} /\ p.horizon \in Nat
    BY DEF ProblemOk
  <1>1. CASE p.policy[o] # "preemptive"
    BY <1>1 DEF Ends
  <1>2. CASE p.policy[o] = "preemptive"
    <2>1. ASSUME NEW a \in Ends(p, o, cals, s), NEW b \in Ends(p, o, cals, s), a < b
          PROVE  FALSE
      <3>1. /\ a \in s..p.horizon /\ b \in s..p.horizon
            /\ C(a) = p.dur[o] /\ C(b) = p.dur[o] /\ open(b - 1)
        BY <1>0, <1>2 DEF Ends
      <3>2. b - 1 \in Int /\ b - 1 >= s /\ a \in Int /\ a <= b - 1 /\ (b - 1) + 1 = b /\ s \in Int
        BY <1>0, <2>1, <3>1
      <3>3. C(b) = C(b - 1) + 1 /\ C(a) <= C(b - 1) /\ C(b - 1) \in Nat
        <4>0. \A y \in Int : C(y) \in Nat
          BY <3>2, OpenMinutesGrow
        <4>1. \A y \in Int : y >= s => C(y + 1) = C(y) + IF open(y) THEN 1 ELSE 0
          BY <3>2, OpenMinutesGrow
        <4>2. \A u, y, z \in Int : s <= u /\ y <= z
                => OpenMinutes(p, Staffed(p, cals), u, y) <= C(z)
          BY <3>2, OpenMinutesGrow
        <4>3. C(a) <= C(b - 1)
          BY <3>2, <4>2
        <4>. HIDE DEF C, open
        <4>. QED
          BY <3>1, <3>2, <4>0, <4>1, <4>3
      <3>. HIDE DEF C
      <3>. QED
        BY <1>0, <3>1, <3>3
    <2>2. e \in Int /\ x \in Int
      BY <1>0, <1>2 DEF Ends
    <2>. QED
      BY <2>1, <2>2
  <1>. QED
    BY <1>1, <1>2

-----------------------------------------------------------------------------
(***************************************************************************)
(* The walk through the calendars.                                         *)
(***************************************************************************)
\* One calendar takes a start where one of its windows holds setup and work.
TakenBy(p, r, setup, fit) == {s \in Nat : InWindow(p, r, s - setup, s + fit)}

\* _advance_calendar gives the first start from s on that the calendar takes.
LEMMA FittedIsLeast ==
  ASSUME NEW p, NEW r, p.cal[r] \subseteq Int \X Int, NEW s \in Nat, NEW setup \in Nat, NEW fit \in Nat
  PROVE  LET v == Fitted(p, r, s, setup, fit)
             T == TakenBy(p, r, setup, fit)
         IN v \in LeastFrom(T, s) \/ (v = NoStart /\ \A t \in T : t < s)
  <1>. DEFINE T == TakenBy(p, r, setup, fit)
              trial(w) == Max({w[1] + setup, s})
              trials == {t \in {trial(w) : w \in p.cal[r]} : InWindow(p, r, t - setup, t + fit)}
              v == Fitted(p, r, s, setup, fit)
  <1>1. v = IF trials = {} THEN NoStart ELSE Min(trials)
    BY DEF Fitted
  <1>2. ASSUME NEW w \in p.cal[r]
        PROVE  /\ w[1] \in Int /\ w[2] \in Int /\ trial(w) \in Nat
               /\ trial(w) = IF w[1] + setup >= s THEN w[1] + setup ELSE s
    <2>1. w[1] \in Int /\ w[2] \in Int
      OBVIOUS
    <2>2. trial(w) = IF w[1] + setup >= s THEN w[1] + setup ELSE s
      BY <2>1, LaterOfTwo
    <2>. HIDE DEF trial
    <2>. QED
      BY <2>1, <2>2
  <1>3. ASSUME NEW t \in trials
        PROVE  t \in T /\ t >= s
    <2>1. PICK w \in p.cal[r] : t = trial(w)
      OBVIOUS
    <2>2. InWindow(p, r, t - setup, t + fit)
      OBVIOUS
    <2>3. t \in Nat /\ t >= s
      <3>. HIDE DEF trial
      <3>. QED
        BY <1>2, <2>1
    <2>. QED
      BY <2>2, <2>3 DEF TakenBy
  <1>4. ASSUME NEW t \in T, t >= s
        PROVE  \E x \in trials : x <= t
    <2>1. t \in Nat /\ InWindow(p, r, t - setup, t + fit)
      BY DEF TakenBy
    <2>2. PICK w \in p.cal[r] : w[1] <= t - setup /\ t + fit <= w[2]
      BY <2>1 DEF InWindow
    <2>. DEFINE x == trial(w)
    <2>3. /\ w[1] \in Int /\ w[2] \in Int /\ x \in Nat
          /\ x = IF w[1] + setup >= s THEN w[1] + setup ELSE s
      BY <1>2
    <2>4. x \in {trial(u) : u \in p.cal[r]}
      OBVIOUS
    <2>. HIDE DEF trial, x
    <2>5. x <= t /\ w[1] <= x - setup /\ x + fit <= w[2]
      BY <1>4, <2>1, <2>2, <2>3
    <2>6. InWindow(p, r, x - setup, x + fit)
      BY <2>5 DEF InWindow
    <2>. QED
      BY <2>4, <2>5, <2>6
  <1>5. T \subseteq Nat
    BY DEF TakenBy
  <1>. HIDE DEF trials, T, v
  <1>6. CASE trials = {}
    <2>1. \A t \in T : t < s
      BY <1>4, <1>5, <1>6
    <2>. QED
      BY <1>1, <1>6, <2>1 DEF T, v
  <1>7. CASE trials # {}
    <2>1. PICK m \in trials : \A x \in trials : m <= x
      <3>1. trials \in SUBSET Nat
        BY <1>3, <1>5
      <3>. QED
        BY <1>7, <3>1, LeastNat
    <2>2. v \in trials /\ \A x \in trials : v <= x
      BY <1>1, <1>7, <2>1 DEF Min
    <2>3. v \in T /\ v >= s /\ \A t \in T : t >= s => v <= t
      <3>1. v \in T /\ v >= s
        BY <1>3, <2>2
      <3>2. ASSUME NEW t \in T, t >= s
            PROVE  v <= t
        <4>1. PICK x \in trials : x <= t
          BY <1>4, <3>2
        <4>. QED
          BY <1>3, <1>5, <2>2, <3>1, <4>1
      <3>. QED
        BY <3>1, <3>2
    <2>. QED
      BY <2>3 DEF LeastFrom, T, v
  <1>. QED
    BY <1>6, <1>7

LEMMA FirstReadIsRead ==
  ASSUME NEW S, S # {}, NEW c, NEW w
  PROVE  FirstRead(S, c, w) \in S
  <1>1. \E r \in S : /\ PostCal(c) \in S => r = PostCal(c)
                     /\ PostCal(c) \notin S /\ CrewCal(w) \in S => r = CrewCal(w)
    <2>1. CASE PostCal(c) \in S
      BY <2>1
    <2>2. CASE PostCal(c) \notin S /\ CrewCal(w) \in S
      BY <2>2
    <2>3. CASE PostCal(c) \notin S /\ CrewCal(w) \notin S
      BY <2>3
    <2>. QED
      BY <2>1, <2>2, <2>3
  <1>. QED
    BY <1>1 DEF FirstRead

\* The starts that all calendars of a slot take.
CalendarStarts(p, o, c, w, setup) ==
  {s \in Nat : InCalendars(p, o, CalendarsOf(c, w, p.tools[o]), s, setup)}

\* It is the start asked for, or where one of the windows lets it start.
LEMMA FittedIsOpening ==
  ASSUME NEW p, NEW r, p.cal[r] \subseteq Int \X Int, NEW s \in Nat, NEW setup \in Nat, NEW fit,
         Fitted(p, r, s, setup, fit) \in Nat, Fitted(p, r, s, setup, fit) # s
  PROVE  \E v \in p.cal[r] : Fitted(p, r, s, setup, fit) = v[1] + setup
  <1>. DEFINE trial(v) == Max({v[1] + setup, s})
              trials == {t \in {trial(v) : v \in p.cal[r]} : InWindow(p, r, t - setup, t + fit)}
              t == Fitted(p, r, s, setup, fit)
  <1>1. t = IF trials = {} THEN NoStart ELSE Min(trials)
    BY DEF Fitted
  <1>2. \A v \in p.cal[r] : trial(v) = IF v[1] + setup >= s THEN v[1] + setup ELSE s
    <2>. SUFFICES ASSUME NEW v \in p.cal[r] PROVE trial(v) = IF v[1] + setup >= s THEN v[1] + setup ELSE s
      OBVIOUS
    <2>1. v[1] + setup \in Int
      OBVIOUS
    <2>. QED
      BY <2>1, LaterOfTwo
  <1>3. trials # {} /\ trials \subseteq Int
    <2>1. trials # {}
      <3>. HIDE DEF trials
      <3>. QED
        BY <1>1 DEF NoStart, t
    <2>2. \A v \in p.cal[r] : trial(v) \in Int
      <3>1. \A v \in p.cal[r] : v[1] \in Int
        OBVIOUS
      <3>. HIDE DEF trial
      <3>. QED
        BY <1>2, <3>1
    <2>. HIDE DEF trial
    <2>. QED
      BY <2>1, <2>2
  <1>4. t \in trials
    <2>1. trials \in SUBSET Nat
      <3>1. \A x \in trials : x >= s
        <4>1. \A v \in p.cal[r] : trial(v) >= s
          <5>1. \A v \in p.cal[r] : v[1] \in Int
            OBVIOUS
          <5>. HIDE DEF trial
          <5>. QED
            BY <1>2, <5>1
        <4>. HIDE DEF trial
        <4>. QED
          BY <4>1
      <3>. HIDE DEF trials
      <3>. QED
        BY <1>3, <3>1
    <2>. HIDE DEF trials
    <2>2. PICK m \in trials : \A x \in trials : m <= x
      BY <1>3, <2>1, LeastNat
    <2>. QED
      BY <1>1, <1>3, <2>2 DEF Min, t
  <1>5. PICK v \in p.cal[r] : t = trial(v)
    <2>. HIDE DEF trial, t
    <2>. QED
      BY <1>4
  <1>. HIDE DEF trial, t
  <1>. QED
    BY <1>2, <1>5 DEF t

\* Adding the setup to the openings makes no more of them.
LEMMA MarksOfOpenings ==
  ASSUME NEW S, IsFiniteSet(S), NEW d
  PROVE  IsFiniteSet({x + d : x \in S}) /\ Cardinality({x + d : x \in S}) <= Cardinality(S)
  <1>. DEFINE T == {x + d : x \in S}
              f == [x \in S |-> x + d]
  <1>1. f \in Surjection(S, T)
    BY DEF Surjection
  <1>. HIDE DEF f, T
  <1>. QED
    BY <1>1, FS_Surjection DEF T

\* The walk gives the first start from there on that all calendars take, or none:
\* then there is none, or the calendars open at least as often as it tries.
LEMMA AdvanceFindsLeast ==
  ASSUME NEW p, ProblemOk(p), NEW o \in p.ops, NEW c \in DOMAIN p.cap, NEW w \in DOMAIN p.crewCap,
         NEW setup \in Nat, NEW from \in Nat, from >= setup
  PROVE  LET s == Advance(p, o, c, w, setup, from)
             Good == CalendarStarts(p, o, c, w, setup)
         IN \/ s \in LeastFrom(Good, from)
            \/ /\ s = NoStart
               /\ \A m \in Good : m >= from =>
                    \/ m + Fit(p, o) > p.horizon
                    \/ ~(IsFiniteSet(Openings(p, o, c, w)) /\ Cardinality(Openings(p, o, c, w)) < Tries)
  <1>. DEFINE v == Advance(p, o, c, w, setup, from)
              Good == CalendarStarts(p, o, c, w, setup)
              fit == Fit(p, o)
              cals == CalendarsOf(c, w, p.tools[o])
              series == Series(p, o, c, w)
              opens == Openings(p, o, c, w)
              Marks == IF IsFiniteSet(opens) THEN {x + setup : x \in opens} ELSE {}
              Must == IF IsFiniteSet(opens) THEN Good ELSE {}
  <1>1. fit \in Nat /\ p.horizon \in Nat
    BY DEF ProblemOk, Fit
  <1>2. \A r \in cals : p.cal[r] \subseteq Int \X Int
    <2>1. w # NoCrew /\ p.tools[o] \subseteq DOMAIN p.toolCap
      BY DEF ProblemOk
    <2>2. \A r \in cals : r \in DOMAIN p.cal
      BY <2>1 DEF ProblemOk, CalendarsOf
    <2>. QED
      BY <2>2 DEF ProblemOk
  <1>3. \A s \in Nat : s \in Good <=> \A r \in cals : \/ r \in p.unattended /\ p.cal[r] = {}
                                                     \/ s \in TakenBy(p, r, setup, fit)
    <2>1. \A s \in Nat : s + 0 = s
      OBVIOUS
    <2>. QED
      BY <2>1 DEF CalendarStarts, InCalendars, TakenBy, Fit
  <1>4. series = {r \in cals : p.cal[r] # {}}
    BY DEF Series
  <1>5. CASE Shut(p, o, c, w)
    <2>1. PICK r \in cals : p.cal[r] = {} /\ r \notin p.unattended
      BY <1>5 DEF Shut
    <2>2. TakenBy(p, r, setup, fit) = {}
      BY <2>1 DEF TakenBy, InWindow
    <2>3. Good \subseteq Nat
      BY DEF CalendarStarts
    <2>4. Good = {}
      <3>. HIDE DEF Good, cals
      <3>. QED
        BY <1>3, <2>1, <2>2, <2>3
    <2>5. v = NoStart
      BY <1>5 DEF Advance
    <2>. QED
      BY <2>4, <2>5
  <1>6. ASSUME ~Shut(p, o, c, w)
        PROVE  Good = {s \in Nat : \A r \in series : s \in TakenBy(p, r, setup, fit)}
    <2>1. \A r \in cals : p.cal[r] = {} <=> r \in p.unattended /\ p.cal[r] = {}
      BY <1>6 DEF Shut
    <2>2. \A r \in cals : p.cal[r] = {} => TakenBy(p, r, setup, fit) = {}
      BY DEF TakenBy, InWindow
    <2>3. Good \subseteq Nat
      BY DEF CalendarStarts
    <2>. HIDE DEF Good, cals, fit
    <2>. QED
      BY <1>3, <1>4, <2>1, <2>2, <2>3
  <1>7. CASE ~Shut(p, o, c, w) /\ series = {}
    <2>1. v = LET free == Max({from, setup}) IN IF free + fit <= p.horizon THEN free ELSE NoStart
      BY <1>7 DEF Advance
    <2>2. Max({from, setup}) = from
      BY LaterOfTwo
    <2>3. v = IF from + fit <= p.horizon THEN from ELSE NoStart
      BY <2>1, <2>2
    <2>4. Good = Nat
      BY <1>6, <1>7
    <2>. HIDE DEF v, Good, fit
    <2>5. CASE from + fit <= p.horizon
      <3>1. from \in LeastFrom(Good, from)
        BY <2>4 DEF LeastFrom
      <3>. QED
        BY <2>3, <2>5, <3>1 DEF v, Good
    <2>6. CASE ~(from + fit <= p.horizon)
      <3>1. \A m \in Good : m >= from => m + fit > p.horizon
        BY <1>1, <2>4, <2>6
      <3>. QED
        BY <2>3, <2>6, <3>1 DEF v, Good, fit
    <2>. QED
      BY <2>5, <2>6
  <1>8. CASE ~Shut(p, o, c, w) /\ series # {}
    <2>. DEFINE moved(s) == {r \in series : Fitted(p, r, s, setup, fit) # s}
                next(s) == Fitted(p, FirstRead(moved(s), c, w), s, setup, fit)
                walks(f) == f = [n \in 0..Tries |->
                  [s \in Nat |->
                     IF n = 0 THEN NoStart
                     ELSE IF moved(s) = {} THEN s
                     ELSE IF next(s) # NoStart THEN f[n - 1][next(s)]
                     ELSE IF s + Stride > p.horizon THEN NoStart ELSE f[n - 1][s + Stride]]]
                walk == CHOOSE f : walks(f)
                stops == {s \in Nat : moved(s) = {} \/ (next(s) = NoStart /\ s + Stride > p.horizon)}
                val == [s \in Nat |-> IF moved(s) = {} THEN s ELSE NoStart]
                go == [s \in Nat |-> IF next(s) # NoStart THEN next(s) ELSE s + Stride]
                same == [s \in Nat |-> s]
    <2>1. v = walk[Tries][from]
      BY <1>8 DEF Advance
    <2>02. \A s \in Nat, r \in series :
            Fitted(p, r, s, setup, fit) \in Nat /\ Fitted(p, r, s, setup, fit) # s
              => \E x \in opens : Fitted(p, r, s, setup, fit) = x + setup
      <3>. SUFFICES ASSUME NEW s \in Nat, NEW r \in series,
                           Fitted(p, r, s, setup, fit) \in Nat, Fitted(p, r, s, setup, fit) # s
                    PROVE  \E x \in opens : Fitted(p, r, s, setup, fit) = x + setup
        OBVIOUS
      <3>1. r \in cals /\ p.cal[r] \subseteq Int \X Int
        BY <1>2, <1>4
      <3>. HIDE DEF fit
      <3>2. PICK x \in p.cal[r] : Fitted(p, r, s, setup, fit) = x[1] + setup
        BY <3>1, FittedIsOpening
      <3>3. x[1] \in opens
        BY <3>1, <3>2 DEF Openings
      <3>. QED
        BY <3>2, <3>3
    <2>2. ASSUME NEW s \in Nat, NEW r \in series
          PROVE  LET t == Fitted(p, r, s, setup, fit)
                 IN t \in LeastFrom(TakenBy(p, r, setup, fit), s)
                    \/ (t = NoStart /\ \A x \in TakenBy(p, r, setup, fit) : x < s)
      <3>1. p.cal[r] \subseteq Int \X Int
        BY <1>2, <1>4
      <3>. HIDE DEF fit
      <3>. QED
        BY <1>1, <3>1, FittedIsLeast
    <2>3. \A s \in Nat : moved(s) = {} => s \in Good
      <3>1. ASSUME NEW s \in Nat, moved(s) = {}, NEW r \in series
            PROVE  s \in TakenBy(p, r, setup, fit)
        <4>1. Fitted(p, r, s, setup, fit) = s
          BY <3>1
        <4>. QED
          BY <2>2, <4>1 DEF LeastFrom, NoStart
      <3>. HIDE DEF moved, Good
      <3>. QED
        BY <1>6, <1>8, <3>1
    <2>4. ASSUME NEW s \in Nat, moved(s) # {}
          PROVE  \/ next(s) = NoStart /\ \A m \in Good : m < s
                 \/ /\ next(s) \in Nat /\ next(s) > s /\ \A m \in Good : m >= s => m >= next(s)
                    /\ \E x \in opens : next(s) = x + setup
      <3>. DEFINE r == FirstRead(moved(s), c, w)
      <3>1. r \in moved(s)
        <4>. HIDE DEF moved
        <4>. QED
          BY <2>4, FirstReadIsRead
      <3>2. r \in series /\ next(s) # s
        BY <3>1
      <3>3. \/ next(s) \in LeastFrom(TakenBy(p, r, setup, fit), s)
            \/ next(s) = NoStart /\ \A x \in TakenBy(p, r, setup, fit) : x < s
        BY <2>2, <3>2
      <3>4. Good \subseteq TakenBy(p, r, setup, fit) /\ TakenBy(p, r, setup, fit) \subseteq Nat
        BY <1>6, <1>8, <3>2 DEF TakenBy
      <3>5. next(s) \in Nat => \E x \in opens : next(s) = x + setup
        BY <2>02, <3>2
      <3>. HIDE DEF next, r, Good, fit, opens
      <3>. QED
        BY <3>2, <3>3, <3>4, <3>5 DEF LeastFrom
    <2>5. Good \subseteq Nat
      BY DEF CalendarStarts
    <2>6. \A f : walks(f) <=> Tried(Tries, stops, val, go, NoStart, f)
      <3>1. \A s \in Nat : /\ s \in stops <=> moved(s) = {} \/ (next(s) = NoStart /\ s + Stride > p.horizon)
                           /\ val[s] = IF moved(s) = {} THEN s ELSE NoStart
                           /\ go[s] = IF next(s) # NoStart THEN next(s) ELSE s + Stride
        OBVIOUS
      <3>. HIDE DEF stops, val, go, moved, next
      <3>. QED
        BY <3>1 DEF Tried
    <2>7. Tried(Tries, stops, val, go, NoStart, walk)
      <3>1. \E f : Tried(Tries, stops, val, go, NoStart, f)
        BY TriesAssumption, TriesExist
      <3>. HIDE DEF walks, stops, val, go
      <3>. QED
        BY <2>6, <3>1
    <2>8. Searches(Good, Must, Marks, same, NoStart, 0, stops, val, go)
      <3>0. Must \subseteq Good
        OBVIOUS
      <3>1. ASSUME NEW s \in Nat \cap stops
            PROVE  \/ \E m \in LeastFrom(Good, s) : val[s] = same[m]
                   \/ val[s] = NoStart /\ \A m \in Good : m < s
        <4>1. CASE moved(s) = {}
          <5>1. s \in LeastFrom(Good, s) /\ val[s] = s /\ same[s] = s
            BY <2>3, <2>5, <4>1 DEF LeastFrom
          <5>. QED
            BY <5>1
        <4>2. CASE moved(s) # {}
          <5>1. next(s) = NoStart /\ val[s] = NoStart
            BY <4>2
          <5>. HIDE DEF moved, next, val, Good
          <5>. QED
            BY <2>4, <4>2, <5>1 DEF NoStart
        <4>. QED
          BY <4>1, <4>2
      <3>2. ASSUME NEW s \in Nat \ stops
            PROVE  /\ go[s] \in Nat /\ go[s] >= s
                   /\ \/ \A m \in Good : m < s
                      \/ go[s] > s /\ \A m \in Good : m >= s => m >= go[s]
                   /\ (\E m \in Must : m >= s) => \E k \in Marks : k > s /\ k <= go[s]
        <4>1. moved(s) # {} /\ go[s] = IF next(s) # NoStart THEN next(s) ELSE s + Stride
          OBVIOUS
        <4>2. IsFiniteSet(opens) => \A x \in opens : x + setup \in Marks
          OBVIOUS
        <4>3. ~IsFiniteSet(opens) => Must = {}
          OBVIOUS
        <4>. HIDE DEF moved, next, go, Good, Must, Marks, opens
        <4>4. next(s) = NoStart => \A m \in Good : m < s
          BY <2>4, <4>1 DEF NoStart
        <4>5. next(s) # NoStart =>
                 /\ next(s) \in Nat /\ next(s) > s /\ \A m \in Good : m >= s => m >= next(s)
                 /\ \E x \in opens : next(s) = x + setup
          BY <2>4, <4>1
        <4>6. go[s] \in Nat /\ go[s] >= s
          BY <4>1, <4>5, TriesAssumption
        <4>7. CASE next(s) = NoStart
          <5>1. ~\E m \in Must : m >= s
            BY <2>5, <3>0, <4>4, <4>7
          <5>. QED
            BY <4>4, <4>6, <4>7, <5>1
        <4>8. CASE next(s) # NoStart
          <5>1. go[s] = next(s)
            BY <4>1, <4>8
          <5>2. go[s] > s /\ \A m \in Good : m >= s => m >= go[s]
            BY <4>5, <4>8, <5>1
          <5>3. IsFiniteSet(opens) => go[s] \in Marks
            BY <4>2, <4>5, <4>8, <5>1
          <5>4. (\E m \in Must : m >= s) => \E k \in Marks : k > s /\ k <= go[s]
            BY <4>3, <4>6, <5>2, <5>3
          <5>. QED
            BY <4>6, <5>2, <5>4
        <4>. QED
          BY <4>7, <4>8
      <3>. HIDE DEF stops, val, go, same, Good, Must, Marks
      <3>. QED
        BY <3>0, <3>1, <3>2 DEF Searches
    <2>. DEFINE enough == IsFiniteSet(opens) /\ Cardinality(opens) < Tries
    <2>90. /\ Marks \in SUBSET Int /\ IsFiniteSet(Marks)
           /\ enough => Cardinality(After(Marks, from)) \in Nat /\ Cardinality(After(Marks, from)) < Tries
      <3>1. opens \subseteq Int
        BY <1>2 DEF Openings
      <3>2. Marks \in SUBSET Int
        <4>. HIDE DEF opens
        <4>. QED
          BY <3>1
      <3>3. IsFiniteSet(Marks) /\ (IsFiniteSet(opens) => Cardinality(Marks) <= Cardinality(opens))
        <4>. HIDE DEF opens
        <4>. QED
          BY MarksOfOpenings, FS_EmptySet
      <3>4. After(Marks, from) \in SUBSET Marks
        BY DEF After
      <3>. HIDE DEF Marks, opens
      <3>5. /\ Cardinality(After(Marks, from)) \in Nat /\ Cardinality(Marks) \in Nat
            /\ Cardinality(After(Marks, from)) <= Cardinality(Marks)
        BY <3>3, <3>4, FS_Subset, FS_CardinalityType
      <3>6. IsFiniteSet(opens) => Cardinality(opens) \in Nat
        BY FS_CardinalityType
      <3>. QED
        BY <3>2, <3>3, <3>5, <3>6, TriesAssumption
    <2>9. Found(Good, Must, Marks, same, NoStart, Tries, from, v)
      <3>0. Must \in SUBSET Good
        OBVIOUS
      <3>1. Tries \in 0..Tries /\ Tries \in Nat /\ from >= 0
        BY TriesAssumption
      <3>. HIDE DEF stops, val, go, same, Good, Must, Marks, walk, v
      <3>. QED
        BY <2>1, <2>5, <2>7, <2>8, <2>90, <3>0, <3>1, TriesFindLeast
    <2>10. \A m \in LeastFrom(Good, from) : same[m] = m
      BY <2>5 DEF LeastFrom
    <2>11. enough => Must = Good
      OBVIOUS
    <2>. HIDE DEF same, Good, Must, Marks, v
    <2>12. CASE \E m \in LeastFrom(Good, from) : v = same[m]
      BY <2>10, <2>12 DEF Good, v
    <2>13. CASE v = NoStart /\ \A m \in Must : m >= from => Tries <= Cardinality(After(Marks, from))
      <3>1. ASSUME enough, NEW m \in Good, m >= from PROVE FALSE
        <4>1. Tries <= Cardinality(After(Marks, from))
          BY <2>11, <2>13, <3>1
        <4>. QED
          BY <2>90, <3>1, <4>1, TriesAssumption
      <3>. QED
        BY <2>13, <3>1 DEF Good, v
    <2>. QED
      BY <2>9, <2>12, <2>13 DEF Found
  <1>. QED
    BY <1>5, <1>7, <1>8

-----------------------------------------------------------------------------
(***************************************************************************)
(* What is in the way.                                                     *)
(***************************************************************************)
\* The rows of a plan around a row of o that is not in it.
Around(p, rows, o, r) ==
  /\ ProblemOk(p) /\ RowsOk(p, rows) /\ o \notin DOMAIN rows /\ o \in p.ops
  /\ r.post \in DOMAIN p.cap
  /\ r.setup \in Nat /\ r.start \in Int /\ r.end \in Int /\ r.start < r.end

LEMMA RowsAround ==
  ASSUME NEW p, NEW rows, NEW o, NEW r, Around(p, rows, o, r)
  PROVE  /\ IsFiniteSet(DOMAIN rows)
         /\ p.cap[r.post] \in Nat \ {0}
         /\ OccStart(r) \in Int /\ OccStart(r) < r.end
         /\ \A q \in DOMAIN rows : /\ OccStart(rows[q]) \in Int /\ rows[q].end \in Int
                                   /\ OccStart(rows[q]) < rows[q].end
  <1>1. IsFiniteSet(DOMAIN rows)
    <2>1. DOMAIN rows \subseteq DOMAIN p.dur /\ IsFiniteSet(DOMAIN p.dur)
      BY DEF Around, RowsOk, ProblemOk
    <2>. QED
      BY <2>1, FS_Subset
  <1>2. p.cap[r.post] \in Nat \ {0}
    BY DEF Around, ProblemOk
  <1>3. ASSUME NEW q \in DOMAIN rows
        PROVE  /\ OccStart(rows[q]) \in Int /\ rows[q].end \in Int
               /\ OccStart(rows[q]) < rows[q].end
    BY DEF Around, RowsOk, PlacedRowOk, RowOk, OccStart
  <1>4. OccStart(r) \in Int /\ OccStart(r) < r.end
    BY DEF Around, OccStart
  <1>. QED
    BY <1>1, <1>2, <1>3, <1>4

\* With the row the post is over its capacity: then so it is with the same row
\* later, if all rows that meet it now end after it would start, or none does.
LEMMA ExcessStays ==
  ASSUME NEW p, NEW rows, NEW o, NEW r, Around(p, rows, o, r),
         NEW x, Around(p, rows, o, x), x.post = r.post,
         OccStart(r) <= OccStart(x), r.end <= x.end,
         Excess(With(rows, o, r), AtPost(With(rows, o, r), r.post), p.cap[r.post]),
         \A q \in AtPost(rows, r.post) : Meets(r, rows[q]) => OccStart(x) < rows[q].end
  PROVE  Excess(With(rows, o, x), AtPost(With(rows, o, x), x.post), p.cap[x.post])
  <1>. DEFINE a == With(rows, o, r)
              b == With(rows, o, x)
              S == AtPost(rows, r.post)
              U == S \cup {o}
              cap == p.cap[r.post]
  <1>1. /\ a[o] = r /\ b[o] = x
        /\ \A q \in S : a[q] = rows[q] /\ b[q] = rows[q] /\ q \in DOMAIN rows /\ q # o
    BY DEF With, AtPost, Around
  <1>2. AtPost(a, r.post) = U /\ AtPost(b, x.post) = U
    BY DEF AtPost, With
  <1>3. /\ IsFiniteSet(S) /\ IsFiniteSet(U) /\ o \notin S
        /\ cap \in Nat \ {0}
        /\ OccStart(r) \in Int /\ OccStart(r) < r.end /\ r.end \in Int
        /\ OccStart(x) \in Int /\ OccStart(x) < x.end /\ x.end \in Int
        /\ \A q \in S : /\ OccStart(rows[q]) \in Int /\ rows[q].end \in Int
                        /\ OccStart(rows[q]) < rows[q].end
    <2>1. S \subseteq DOMAIN rows /\ o \notin DOMAIN rows
      BY DEF AtPost, Around
    <2>2. IsFiniteSet(DOMAIN rows)
      BY RowsAround
    <2>3. IsFiniteSet(S)
      BY <2>1, <2>2, FS_Subset
    <2>4. IsFiniteSet(S \cup {o})
      BY <2>3, FS_AddElement
    <2>5. r.end \in Int /\ x.end \in Int
      BY DEF Around
    <2>. HIDE DEF S
    <2>. QED
      BY <2>1, <2>3, <2>4, <2>5, RowsAround
  <1>. HIDE DEF a, b, S
  <1>4. PICK q \in U : LET t == OccStart(a[q]) IN Live(a[q], t) /\ Cardinality(LiveAt(a, U, t)) > cap
    BY <1>2 DEF Excess, a
  <1>. DEFINE t == OccStart(a[q])
              at(v) == LiveAt(rows, S, v)
  <1>5. t \in Int /\ Live(a[q], t) /\ Cardinality(LiveAt(a, U, t)) > cap
    BY <1>1, <1>3, <1>4
  <1>6. ASSUME NEW v \in Int
        PROVE  /\ LiveAt(a, U, v) = at(v) \cup (IF Live(r, v) THEN {o} ELSE {})
               /\ LiveAt(b, U, v) = at(v) \cup (IF Live(x, v) THEN {o} ELSE {})
               /\ IsFiniteSet(LiveAt(a, U, v)) /\ IsFiniteSet(LiveAt(b, U, v))
    <2>1. /\ LiveAt(a, U, v) = at(v) \cup (IF Live(r, v) THEN {o} ELSE {})
          /\ LiveAt(b, U, v) = at(v) \cup (IF Live(x, v) THEN {o} ELSE {})
      BY <1>1 DEF LiveAt
    <2>2. LiveAt(a, U, v) \subseteq U /\ LiveAt(b, U, v) \subseteq U
      BY DEF LiveAt
    <2>. HIDE DEF U, at
    <2>. QED
      BY <1>3, <2>1, <2>2, FS_Subset
  <1>7. ASSUME NEW v \in Int, NEW u \in U, v = OccStart(b[u]), LiveAt(a, U, t) \subseteq LiveAt(b, U, v)
        PROVE  Excess(b, U, cap)
    <2>1. Live(b[u], v)
      BY <1>1, <1>3, <1>7 DEF Live
    <2>2. Cardinality(LiveAt(b, U, v)) > cap
      <3>1. /\ Cardinality(LiveAt(a, U, t)) <= Cardinality(LiveAt(b, U, v))
            /\ Cardinality(LiveAt(a, U, t)) \in Nat /\ Cardinality(LiveAt(b, U, v)) \in Nat
        BY <1>5, <1>6, <1>7, FewerRows
      <3>. HIDE DEF t, U, cap
      <3>. QED
        BY <1>3, <1>5, <3>1
    <2>. QED
      BY <1>7, <2>1, <2>2 DEF Excess
  <1>8. CASE ~Live(r, t)
    <2>1. q # o /\ q \in S
      BY <1>1, <1>3, <1>8 DEF Live
    <2>2. t = OccStart(b[q])
      BY <1>1, <2>1
    <2>3. LiveAt(a, U, t) \subseteq LiveAt(b, U, t)
      BY <1>5, <1>6, <1>8
    <2>. QED
      BY <1>2, <1>5, <1>7, <2>2, <2>3 DEF b
  <1>9. CASE Live(r, t)
    <2>. DEFINE v == IF OccStart(x) >= t THEN OccStart(x) ELSE t
                u == IF OccStart(x) >= t THEN o ELSE q
    <2>1. v \in Int /\ u \in U /\ v = OccStart(b[u])
      <3>1. OccStart(x) < t => q # o
        BY <1>1, <1>3, <1>5
      <3>. QED
        BY <1>1, <1>3, <1>5, <3>1
    <2>2. at(t) \subseteq at(v)
      <3>. SUFFICES ASSUME NEW z \in S, Live(rows[z], t) PROVE Live(rows[z], v)
        BY DEF LiveAt
      <3>1. Meets(r, rows[z])
        BY <1>3, <1>5, <1>9 DEF Meets, Live
      <3>2. OccStart(x) < rows[z].end
        BY <3>1 DEF S
      <3>. QED
        BY <1>3, <1>5, <3>2 DEF Live
    <2>3. Live(x, v)
      BY <1>3, <1>5, <1>9 DEF Live
    <2>4. LiveAt(a, U, t) \subseteq LiveAt(b, U, v)
      <3>. HIDE DEF v, t, U, at
      <3>. QED
        BY <1>5, <1>6, <1>9, <2>1, <2>2, <2>3
    <2>. HIDE DEF v, u, t, U
    <2>. QED
      BY <1>2, <1>7, <2>1, <2>4 DEF b
  <1>. QED
    BY <1>8, <1>9

\* A post that is over its capacity has a row that the new one can wait for.
LEMMA FullPostsRelease ==
  ASSUME NEW p, NEW rows, NEW o, NEW r, Around(p, rows, o, r),
         Excess(With(rows, o, r), AtPost(With(rows, o, r), r.post), p.cap[r.post])
  PROVE  Releases(p, rows, r) # {}
  <1>. DEFINE a == With(rows, o, r)
              S == AtPost(rows, r.post)
  <1>1. CASE S = {}
    <2>1. AtPost(a, r.post) = {o}
      BY <1>1 DEF AtPost, With
    <2>2. PICK q \in {o} : Cardinality(LiveAt(a, {o}, OccStart(a[q]))) > p.cap[r.post]
      BY <2>1 DEF Excess
    <2>3. LiveAt(a, {o}, OccStart(a[q])) \in SUBSET {o}
      BY DEF LiveAt
    <2>4. IsFiniteSet({o}) /\ Cardinality({o}) = 1
      BY FS_Singleton
    <2>5. Cardinality(LiveAt(a, {o}, OccStart(a[q]))) <= 1 /\ Cardinality(LiveAt(a, {o}, OccStart(a[q]))) \in Nat
      <3>. HIDE DEF a
      <3>. QED
        BY <2>3, <2>4, FewerRows
    <2>6. p.cap[r.post] \in Nat \ {0}
      BY RowsAround
    <2>. HIDE DEF a
    <2>. QED
      BY <2>2, <2>5, <2>6
  <1>2. CASE S # {}
    BY <1>2 DEF Releases
  <1>. QED
    BY <1>1, <1>2

\* A row that meets no other leaves its post within its capacity.
LEMMA AloneIsRoom ==
  ASSUME NEW p, NEW rows, NEW o, NEW r, Around(p, rows, o, r),
         ~Excess(rows, AtPost(rows, r.post), p.cap[r.post]),
         \A q \in AtPost(rows, r.post) : ~Meets(r, rows[q])
  PROVE  ~Excess(With(rows, o, r), AtPost(With(rows, o, r), r.post), p.cap[r.post])
  <1>. DEFINE a == With(rows, o, r)
              S == AtPost(rows, r.post)
              U == S \cup {o}
              cap == p.cap[r.post]
  <1>1. SUFFICES ASSUME Excess(a, AtPost(a, r.post), cap) PROVE FALSE
    OBVIOUS
  <1>2. /\ a[o] = r /\ AtPost(a, r.post) = U /\ o \notin S
        /\ \A q \in S : a[q] = rows[q] /\ q \in DOMAIN rows
    BY DEF With, AtPost, Around
  <1>3. /\ cap \in Nat \ {0} /\ r.end \in Int
        /\ OccStart(r) \in Int /\ OccStart(r) < r.end
        /\ \A q \in S : /\ OccStart(rows[q]) \in Int /\ rows[q].end \in Int
                        /\ OccStart(rows[q]) < rows[q].end
    BY <1>2, RowsAround DEF Around
  <1>. HIDE DEF a, S, cap
  <1>4. PICK q \in U : LET t == OccStart(a[q]) IN Live(a[q], t) /\ Cardinality(LiveAt(a, U, t)) > cap
    BY <1>1, <1>2 DEF Excess
  <1>. DEFINE t == OccStart(a[q])
  <1>5. t \in Int /\ Live(a[q], t) /\ Cardinality(LiveAt(a, U, t)) > cap
    BY <1>2, <1>3, <1>4
  <1>6. ASSUME Live(r, t), NEW z \in S, Live(rows[z], t)
        PROVE  FALSE
    <2>1. Meets(r, rows[z])
      <3>. HIDE DEF t
      <3>. QED
        BY <1>3, <1>5, <1>6 DEF Meets, Live
    <2>. QED
      BY <2>1 DEF S
  <1>7. CASE q = o
    <2>1. LiveAt(a, U, t) \in SUBSET {o}
      <3>1. Live(r, t)
        BY <1>2, <1>5, <1>7
      <3>2. \A z \in S : ~Live(a[z], t)
        BY <1>2, <1>6, <3>1
      <3>. QED
        BY <3>2 DEF LiveAt
    <2>2. IsFiniteSet({o}) /\ Cardinality({o}) = 1
      BY FS_Singleton
    <2>3. Cardinality(LiveAt(a, U, t)) <= 1 /\ Cardinality(LiveAt(a, U, t)) \in Nat
      <3>. HIDE DEF t, U
      <3>. QED
        BY <2>1, <2>2, FewerRows
    <2>. HIDE DEF t, U
    <2>. QED
      BY <1>3, <1>5, <2>3
  <1>8. CASE q # o
    <2>1. q \in S /\ t = OccStart(rows[q]) /\ Live(rows[q], t)
      BY <1>2, <1>5, <1>8
    <2>2. ~Live(r, t)
      BY <1>6, <2>1
    <2>3. LiveAt(a, U, t) = LiveAt(rows, S, t)
      BY <1>2, <2>2 DEF LiveAt
    <2>4. Excess(rows, S, cap)
      BY <1>5, <2>1, <2>3 DEF Excess
    <2>. QED
      BY <2>4 DEF S, cap
  <1>. QED
    BY <1>7, <1>8

\* On a post within its capacity the last of what is in the way of a row ends after
\* the row would begin.
LEMMA BlockersAreAhead ==
  ASSUME NEW p, NEW rows, NEW o, NEW r, Around(p, rows, o, r),
         ~Excess(rows, AtPost(rows, r.post), p.cap[r.post]), Blockers(p, rows, o, r) # {}
  PROVE  \E q \in DOMAIN rows : /\ Max(Blockers(p, rows, o, r)) = rows[q].end
                               /\ OccStart(r) < rows[q].end
  <1>. DEFINE B == Blockers(p, rows, o, r)
              full == Excess(With(rows, o, r), AtPost(With(rows, o, r), r.post), p.cap[r.post])
              S == AtPost(rows, r.post)
              T == {z \in S : Meets(r, rows[z])}
              e == [z \in DOMAIN rows |-> rows[z].end]
              met == {e[z] : z \in T}
              first == IF full /\ Releases(p, rows, r) # {} THEN {Min(Releases(p, rows, r))} ELSE {}
              ahead == {q \in DOMAIN rows : Meets(r, rows[q])}
  <1>1. /\ IsFiniteSet(DOMAIN rows) /\ OccStart(r) \in Int
        /\ \A q \in DOMAIN rows : rows[q].end \in Int
    BY RowsAround
  <1>2. S \subseteq DOMAIN rows /\ T \subseteq ahead /\ Sharing(rows, r) \subseteq ahead
        /\ ahead \subseteq DOMAIN rows
    BY DEF AtPost, Sharing
  <1>3. B = first \cup {rows[q].end : q \in Sharing(rows, r)}
    BY DEF Blockers
  <1>4. full => T # {}
    BY AloneIsRoom
  <1>5. T # {} => Releases(p, rows, r) = met
    <2>1. met = {rows[z].end : z \in {x \in S : Meets(r, rows[x])}}
      BY <1>2
    <2>2. T # {} => met # {}
      OBVIOUS
    <2>. HIDE DEF met, T
    <2>. QED
      BY <2>1, <2>2 DEF Releases
  <1>6. T # {} => Min(met) \in met
    <2>1. IsFiniteSet(met)
      <3>1. IsFiniteSet(T)
        BY <1>1, <1>2, FS_Subset
      <3>. HIDE DEF T, e
      <3>. QED
        BY <3>1, ImageIsFinite
    <2>2. met \subseteq Int /\ (T # {} => met # {})
      BY <1>1, <1>2
    <2>. HIDE DEF met, T
    <2>. QED
      BY <2>1, <2>2, MinIsLeast
  <1>7. ASSUME NEW b \in B
        PROVE  \E q \in ahead : b = e[q]
    <2>1. CASE b \in first
      <3>1. full /\ b = Min(Releases(p, rows, r))
        BY <2>1
      <3>2. b \in met
        <4>. HIDE DEF met, T, full
        <4>. QED
          BY <1>4, <1>5, <1>6, <3>1
      <3>. QED
        BY <1>2, <3>2
    <2>2. CASE b \in {rows[q].end : q \in Sharing(rows, r)}
      BY <1>2, <2>2
    <2>. HIDE DEF first, B
    <2>. QED
      BY <1>3, <1>7, <2>1, <2>2
  <1>8. Max(B) \in B
    <2>1. B \subseteq {e[q] : q \in DOMAIN rows}
      <3>. HIDE DEF B, e
      <3>. QED
        BY <1>2, <1>7
    <2>2. IsFiniteSet({e[q] : q \in DOMAIN rows})
      <3>. HIDE DEF e
      <3>. QED
        BY <1>1, ImageIsFinite
    <2>3. {e[q] : q \in DOMAIN rows} \subseteq Int
      BY <1>1
    <2>. HIDE DEF B, e
    <2>4. IsFiniteSet(B) /\ B \subseteq Int
      BY <2>1, <2>2, <2>3, FS_Subset
    <2>. QED
      BY <2>4, MaxIsGreatest DEF B
  <1>9. PICK q \in ahead : Max(B) = e[q]
    <2>. HIDE DEF B, ahead, e
    <2>. QED
      BY <1>7, <1>8
  <1>10. q \in DOMAIN rows /\ Meets(r, rows[q])
    OBVIOUS
  <1>11. OccStart(r) < rows[q].end
    BY <1>10 DEF Meets
  <1>. QED
    BY <1>9, <1>10, <1>11

\* Nothing is in the way of a row just when the loop may place it.
LEMMA NothingInTheWay ==
  ASSUME NEW p, NEW rows, NEW o, NEW r, Around(p, rows, o, r)
  PROVE  Blockers(p, rows, o, r) = {} <=> Unblocked(p, rows, o, r)
  <1>1. Sharing(rows, r) = {} <=>
          \A q \in DOMAIN rows :
            Meets(r, rows[q]) => rows[q].crew # r.crew /\ r.tools \cap rows[q].tools = {}
    BY DEF Sharing
  <1>. QED
    BY <1>1, FullPostsRelease DEF Blockers, Unblocked

\* Until the last of what is in the way of a row is over, something is in the way.
LEMMA LaterIsBlocked ==
  ASSUME NEW p, NEW rows, NEW o, NEW r, Around(p, rows, o, r),
         NEW x, Around(p, rows, o, x), x.post = r.post, x.crew = r.crew, x.tools = r.tools,
         OccStart(r) <= OccStart(x), r.end <= x.end,
         Blockers(p, rows, o, r) # {}
  PROVE  /\ Max(Blockers(p, rows, o, r)) \in Int
         /\ OccStart(x) < Max(Blockers(p, rows, o, r)) => ~Unblocked(p, rows, o, x)
  <1>. DEFINE B == Blockers(p, rows, o, r)
              full == Excess(With(rows, o, r), AtPost(With(rows, o, r), r.post), p.cap[r.post])
              ends == [q \in Sharing(rows, r) |-> rows[q].end]
              S == AtPost(rows, r.post)
              met == {rows[q].end : q \in {z \in S : Meets(r, rows[z])}}
              first == IF full /\ Releases(p, rows, r) # {} THEN {Min(Releases(p, rows, r))} ELSE {}
  <1>0. /\ IsFiniteSet(DOMAIN rows)
        /\ OccStart(r) \in Int /\ OccStart(r) < r.end /\ OccStart(x) \in Int /\ OccStart(x) < x.end
        /\ r.end \in Int /\ x.end \in Int
        /\ \A q \in DOMAIN rows : /\ OccStart(rows[q]) \in Int /\ rows[q].end \in Int
                                  /\ OccStart(rows[q]) < rows[q].end
    BY RowsAround DEF Around
  <1>1. B = first \cup {ends[q] : q \in DOMAIN ends}
    BY DEF Blockers
  <1>2. S \subseteq DOMAIN rows /\ Sharing(rows, r) \subseteq DOMAIN rows
    BY DEF AtPost, Sharing
  <1>3. Releases(p, rows, r) = IF met = {} /\ S # {} THEN {Min({rows[q].end : q \in S})} ELSE met
    BY DEF Releases
  <1>. HIDE DEF S
  <1>4. ASSUME NEW T \in SUBSET DOMAIN rows, T # {}
        PROVE  LET M == {rows[q].end : q \in T}
               IN Min(M) \in M /\ \A y \in M : Min(M) <= y
    <2>. DEFINE M == {rows[q].end : q \in T}
                e == [q \in T |-> rows[q].end]
    <2>1. IsFiniteSet(M)
      <3>1. M = {e[q] : q \in DOMAIN e} /\ IsFiniteSet(DOMAIN e)
        BY <1>0, FS_Subset
      <3>. HIDE DEF M, e
      <3>. QED
        BY <3>1, ImageIsFinite
    <2>2. M \subseteq Int /\ M # {}
      BY <1>0, <1>4
    <2>. HIDE DEF M
    <2>. QED
      BY <2>1, <2>2, MinIsLeast DEF M
  <1>5. met # {} => Min(met) \in met /\ \A y \in met : Min(met) <= y
    <2>. DEFINE T == {z \in S : Meets(r, rows[z])}
    <2>1. T \in SUBSET DOMAIN rows /\ (met # {} => T # {})
      BY <1>2
    <2>. HIDE DEF T
    <2>2. met = {rows[q].end : q \in T}
      BY DEF T
    <2>. QED
      BY <1>4, <2>1, <2>2
  <1>6. IsFiniteSet(B) /\ B \subseteq Int
    <2>1. IsFiniteSet(first)
      BY FS_Singleton, FS_EmptySet
    <2>2. IsFiniteSet({ends[q] : q \in DOMAIN ends})
      <3>1. IsFiniteSet(DOMAIN ends)
        BY <1>0, <1>2, FS_Subset
      <3>. HIDE DEF ends
      <3>. QED
        BY <3>1, ImageIsFinite
    <2>3. {ends[q] : q \in DOMAIN ends} \subseteq Int
      BY <1>0, <1>2
    <2>4. first \subseteq Int
      <3>1. CASE met # {}
        <4>1. met \subseteq Int
          BY <1>0, <1>2
        <4>2. Releases(p, rows, r) = met
          BY <1>3, <3>1
        <4>. HIDE DEF met
        <4>. QED
          BY <1>5, <3>1, <4>1, <4>2
      <3>2. CASE met = {} /\ S # {}
        <4>. DEFINE M == {rows[q].end : q \in S}
        <4>0. M \subseteq Int
          BY <1>0, <1>2
        <4>1. Min(M) \in M /\ M \subseteq Int
          BY <1>2, <1>4, <3>2, <4>0
        <4>2. Releases(p, rows, r) = {Min(M)}
          BY <1>3, <3>2
        <4>. HIDE DEF M
        <4>3. Min({Min(M)}) = Min(M)
          BY <4>1 DEF Min
        <4>. QED
          BY <4>1, <4>2, <4>3
      <3>3. CASE met = {} /\ S = {}
        BY <1>3, <3>3
      <3>. QED
        BY <3>1, <3>2, <3>3
    <2>. DEFINE E == {ends[q] : q \in DOMAIN ends}
    <2>. HIDE DEF first, E
    <2>5. IsFiniteSet(first \cup E)
      BY <2>1, <2>2, FS_Union DEF E
    <2>. HIDE DEF B
    <2>. QED
      BY <1>1, <2>3, <2>4, <2>5 DEF E
  <1>7. Max(B) \in B
    <2>. HIDE DEF B
    <2>. QED
      BY <1>6, MaxIsGreatest DEF B
  <1>. SUFFICES ASSUME OccStart(x) < Max(B) PROVE ~Unblocked(p, rows, o, x)
    <2>. HIDE DEF B
    <2>. QED
      BY <1>6, <1>7 DEF B
  <1>8. CASE \E q \in Sharing(rows, r) : Max(B) = rows[q].end
    <2>1. PICK q \in Sharing(rows, r) : Max(B) = rows[q].end
      BY <1>8
    <2>2. Meets(r, rows[q]) /\ (rows[q].crew = r.crew \/ r.tools \cap rows[q].tools # {})
      BY DEF Sharing
    <2>3. Meets(x, rows[q])
      BY <1>0, <1>2, <2>1, <2>2 DEF Meets
    <2>. QED
      BY <1>2, <2>2, <2>3 DEF Unblocked
  <1>9. CASE Max(B) \in first
    <2>1. full /\ Max(B) = Min(Releases(p, rows, r))
      BY <1>9
    <2>2. \A q \in S : Meets(r, rows[q]) => OccStart(x) < rows[q].end
      <3>. SUFFICES ASSUME NEW q \in S, Meets(r, rows[q]) PROVE OccStart(x) < rows[q].end
        OBVIOUS
      <3>1. rows[q].end \in met
        OBVIOUS
      <3>2. Releases(p, rows, r) = met
        BY <1>3, <3>1
      <3>3. Max(B) <= rows[q].end /\ Max(B) \in Int
        <4>. HIDE DEF met, B
        <4>. QED
          BY <1>5, <1>6, <1>7, <2>1, <3>1, <3>2
      <3>. HIDE DEF B, met
      <3>. QED
        BY <1>0, <1>2, <3>3 DEF B
    <2>3. Excess(With(rows, o, x), AtPost(With(rows, o, x), x.post), p.cap[x.post])
      BY <2>1, <2>2, ExcessStays DEF S
    <2>. QED
      BY <2>3 DEF Unblocked
  <1>. QED
    <2>1. Max(B) \in first \cup {rows[q].end : q \in Sharing(rows, r)}
      BY <1>1, <1>7
    <2>. HIDE DEF first, B
    <2>. QED
      BY <1>8, <1>9, <2>1

-----------------------------------------------------------------------------
(***************************************************************************)
(* The scan of one gap.                                                    *)
(***************************************************************************)
\* A gap that the loop scans for a start of o.
Scanned(p, rows, o, c, w, g) ==
  /\ ProblemOk(p) /\ Scannable(p) /\ RowsOk(p, rows)
  /\ o \in Ready(p, rows) /\ c \in p.posts[o] /\ w \in EligibleCrews(p, o)
  /\ g \in Gaps(p, rows, c) /\ GapSetup(p, o, c, g) # NoCell

RowAt(p, o, c, w, g, s, e) == Row(c, w, p.tools[o], s, e, GapSetup(p, o, c, g))

TooLate(p, o, g, e) ==
  \/ e > p.horizon
  \/ \E d \in Deadlines(p, o) : e > d
  \/ g.limit # NoLimit /\ e > g.limit

LEMMA ScannedTyped ==
  ASSUME NEW p, NEW rows, NEW o, NEW c, NEW w, NEW g, Scanned(p, rows, o, c, w, g)
  PROVE  /\ o \in p.ops /\ o \notin DOMAIN rows /\ c \in DOMAIN p.cap /\ w \in DOMAIN p.crewCap
         /\ p.dur[o] \in Nat \ {0} /\ p.horizon \in Nat /\ p.floor[o] \in Int
         /\ GapSetup(p, o, c, g) \in Nat /\ g.after \in Int /\ g.limit \in Int
         /\ \A d \in Deadlines(p, o) : d \in Int
         /\ IsFiniteSet(DOMAIN rows) /\ \A q \in DOMAIN rows : rows[q].end \in Int
         /\ \A l \in p.links[o] : l.pred \in DOMAIN rows /\ l.min \in Int /\ l.max \in Int
         /\ \A x \in p.needs[o] : p.stock[x].from \in Int
  <1>1. /\ o \in p.ops /\ o \notin DOMAIN rows /\ c \in DOMAIN p.cap /\ w \in DOMAIN p.crewCap
        /\ p.dur[o] \in Nat \ {0} /\ p.horizon \in Nat /\ p.floor[o] \in Int /\ o \in DOMAIN p.dur
    BY DEF Scanned, Ready, ProblemOk, EligibleCrews
  <1>2. /\ g.from \in {Idle} \cup {p.state[x] : x \in DOMAIN p.dur}
        /\ g.after \in Int /\ g.limit \in Int
    BY <1>1, GapsTyped DEF Scanned
  <1>3. GapSetup(p, o, c, g) \in Nat
    <2>. DEFINE states == {Idle} \cup {p.state[x] : x \in DOMAIN p.dur}
    <2>1. \A from \in states : Cell(p, c, from, p.state[o]) \in Nat \cup {NoCell}
      BY <1>1 DEF Scanned, ProblemOk
    <2>2. Cell(p, c, g.from, p.state[o]) \in Nat \cup {NoCell}
      <3>. HIDE DEF states
      <3>. QED
        BY <1>2, <2>1 DEF states
    <2>. QED
      BY <2>2 DEF GapSetup, Scanned
  <1>4. \A d \in Deadlines(p, o) : d \in Int
    BY DEF Deadlines, Scanned, ProblemOk, FrozenRowOk, RowOk
  <1>5. IsFiniteSet(DOMAIN rows) /\ \A q \in DOMAIN rows : rows[q].end \in Int
    <2>1. DOMAIN rows \subseteq DOMAIN p.dur /\ IsFiniteSet(DOMAIN p.dur)
      BY DEF Scanned, RowsOk, ProblemOk
    <2>2. IsFiniteSet(DOMAIN rows)
      BY <2>1, FS_Subset
    <2>. QED
      BY <2>2 DEF Scanned, RowsOk, PlacedRowOk, RowOk
  <1>6. \A l \in p.links[o] : l.pred \in DOMAIN rows /\ l.min \in Int /\ l.max \in Int
    BY DEF Scanned, Ready, Preds, Scannable
  <1>7. \A x \in p.needs[o] : p.stock[x].from \in Int
    BY <1>1 DEF Scanned, Scannable, ProblemOk, SpareOk
  <1>. QED
    BY <1>1, <1>2, <1>3, <1>4, <1>5, <1>6, <1>7

\* The cursor is set to the first start after all that must be over.
LEMMA FirstCursorIsFirst ==
  ASSUME NEW p, NEW rows, NEW o, NEW c, NEW w, NEW g, Scanned(p, rows, o, c, w, g)
  PROVE  LET setup == GapSetup(p, o, c, g)
             first == FirstCursor(p, rows, o, w, g, setup)
         IN /\ first \in Nat /\ first >= setup
            /\ \A s \in Int, e \in Int :
                 s >= first <=> /\ AfterPredecessors(p, rows, o, s) /\ SparesReady(p, o, s)
                                /\ NotBefore(p, rows, o, RowAt(p, o, c, w, g, s, e), g)
  <1>. DEFINE setup == GapSetup(p, o, c, g)
              first == FirstCursor(p, rows, o, w, g, setup)
              before == Earlier(p, rows, o, w)
              A == {0, p.floor[o] + setup, g.after + setup}
              f == [l \in p.links[o] |-> rows[l.pred].end + l.min]
              h == [x \in p.needs[o] |-> p.stock[x].from]
              k == [q \in before |-> rows[q].end + setup]
              B == {f[l] : l \in DOMAIN f}
              C == {h[x] : x \in DOMAIN h}
              D == {k[q] : q \in DOMAIN k}
              S == A \cup B \cup C \cup D \cup {setup}
  <1>1. first = Max(S)
    BY DEF FirstCursor
  <1>2. before \subseteq DOMAIN rows
    BY DEF Earlier, OfCrew, OnTool
  <1>3. setup \in Nat
    BY ScannedTyped
  <1>. HIDE DEF setup, before
  <1>4. S \subseteq Int
    <2>1. /\ p.floor[o] \in Int /\ g.after \in Int
          /\ \A q \in DOMAIN rows : rows[q].end \in Int
          /\ \A l \in p.links[o] : l.pred \in DOMAIN rows /\ l.min \in Int
          /\ \A x \in p.needs[o] : p.stock[x].from \in Int
      BY ScannedTyped
    <2>2. A \cup {setup} \subseteq Int
      BY <1>3, <2>1
    <2>3. B \subseteq Int
      <3>1. \A l \in p.links[o] : f[l] = rows[l.pred].end + l.min /\ rows[l.pred].end \in Int
        BY <2>1
      <3>2. \A l \in p.links[o] : f[l] \in Int
        <4>. HIDE DEF f
        <4>. QED
          BY <2>1, <3>1
      <3>3. DOMAIN f = p.links[o]
        OBVIOUS
      <3>. HIDE DEF f
      <3>. QED
        BY <3>2, <3>3
    <2>4. C \subseteq Int
      BY <2>1
    <2>5. D \subseteq Int
      BY <1>2, <1>3, <2>1
    <2>. HIDE DEF A, B, C, D
    <2>. QED
      BY <2>2, <2>3, <2>4, <2>5
  <1>5. IsFiniteSet(S)
    <2>1. IsFiniteSet(B)
      <3>1. IsFiniteSet(DOMAIN f)
        BY ScannedTyped DEF Scanned, Scannable
      <3>. HIDE DEF f
      <3>. QED
        BY <3>1, ImageIsFinite
    <2>2. IsFiniteSet(C)
      <3>1. IsFiniteSet(DOMAIN h)
        BY ScannedTyped DEF Scanned, Scannable
      <3>. HIDE DEF h
      <3>. QED
        BY <3>1, ImageIsFinite
    <2>3. IsFiniteSet(D)
      <3>1. IsFiniteSet(DOMAIN k)
        BY <1>2, ScannedTyped, FS_Subset
      <3>. HIDE DEF k
      <3>. QED
        BY <3>1, ImageIsFinite
    <2>4. IsFiniteSet(A) /\ IsFiniteSet({setup})
      <3>1. IsFiniteSet({0}) /\ IsFiniteSet({p.floor[o] + setup}) /\ IsFiniteSet({g.after + setup}) /\ IsFiniteSet({setup})
        BY FS_Singleton
      <3>2. IsFiniteSet({0} \cup {p.floor[o] + setup})
        BY <3>1, FS_Union
      <3>3. IsFiniteSet(({0} \cup {p.floor[o] + setup}) \cup {g.after + setup})
        BY <3>1, <3>2, FS_Union
      <3>4. A = ({0} \cup {p.floor[o] + setup}) \cup {g.after + setup}
        OBVIOUS
      <3>. QED
        BY <3>1, <3>3, <3>4
    <2>. HIDE DEF A, B, C, D
    <2>5. IsFiniteSet(A \cup B)
      BY <2>1, <2>4, FS_Union
    <2>6. IsFiniteSet((A \cup B) \cup C)
      BY <2>2, <2>5, FS_Union
    <2>7. IsFiniteSet(((A \cup B) \cup C) \cup D)
      BY <2>3, <2>6, FS_Union
    <2>8. IsFiniteSet((((A \cup B) \cup C) \cup D) \cup {setup})
      BY <2>4, <2>7, FS_Union
    <2>. QED
      BY <2>8
  <1>6. first \in S /\ \A x \in S : x <= first
    <2>1. S # {}
      OBVIOUS
    <2>. HIDE DEF S, first
    <2>. QED
      BY <1>1, <1>4, <1>5, <2>1, MaxIsGreatest
  <1>7. first \in Int /\ 0 <= first /\ setup <= first
    <2>1. 0 \in S /\ setup \in S
      OBVIOUS
    <2>. HIDE DEF S, first
    <2>. QED
      BY <1>4, <1>6, <2>1
  <1>8. ASSUME NEW s \in Int
        PROVE  s >= first <=> \A x \in S : s >= x
    <2>. HIDE DEF S, first
    <2>. QED
      BY <1>4, <1>6, <1>7
  <1>9. ASSUME NEW s \in Int, NEW e \in Int
        PROVE  (\A x \in S : s >= x) <=>
                  /\ AfterPredecessors(p, rows, o, s) /\ SparesReady(p, o, s)
                  /\ NotBefore(p, rows, o, RowAt(p, o, c, w, g, s, e), g)
    <2>. DEFINE r == RowAt(p, o, c, w, g, s, e)
    <2>1. OccStart(r) = s - setup /\ r.crew = w
      BY DEF RowAt, Row, OccStart, setup
    <2>2. (\A x \in B : s >= x) <=> AfterPredecessors(p, rows, o, s)
      BY DEF AfterPredecessors
    <2>3. (\A x \in C : s >= x) <=> SparesReady(p, o, s)
      BY DEF SparesReady
    <2>4. (\A x \in D : s >= x) <=> \A q \in before : OccStart(r) >= rows[q].end
      <3>1. \A q \in before : s >= rows[q].end + setup <=> s - setup >= rows[q].end
        BY <1>2, <1>3, ScannedTyped
      <3>2. (\A x \in D : s >= x) <=> \A q \in before : s >= rows[q].end + setup
        OBVIOUS
      <3>. QED
        BY <2>1, <3>1, <3>2
    <2>5. (\A x \in A \cup {setup} : s >= x) <=> \A b \in {0, p.floor[o], g.after} : OccStart(r) >= b
      BY <1>3, <2>1, ScannedTyped
    <2>6. NotBefore(p, rows, o, r, g) <=> /\ \A b \in {0, p.floor[o], g.after} : OccStart(r) >= b
                                          /\ \A q \in before : OccStart(r) >= rows[q].end
      BY <2>1 DEF NotBefore, before
    <2>. HIDE DEF A, B, C, D, r
    <2>7. (\A x \in S : s >= x) <=> /\ \A x \in A \cup {setup} : s >= x
                                    /\ \A x \in B : s >= x
                                    /\ \A x \in C : s >= x
                                    /\ \A x \in D : s >= x
      OBVIOUS
    <2>. HIDE DEF S
    <2>. QED
      BY <2>2, <2>3, <2>4, <2>5, <2>6, <2>7 DEF r
  <1>. HIDE DEF S, first
  <1>. QED
    BY <1>7, <1>8, <1>9 DEF setup, first

\* What a start must keep to, in the order of the scan.
LEMMA FitsInOrder ==
  ASSUME NEW p, NEW rows, NEW o, NEW c, NEW w, NEW g, Scanned(p, rows, o, c, w, g),
         NEW s \in Nat, NEW e \in Ends(p, o, CalendarsOf(c, w, p.tools[o]), s)
  PROVE  LET setup == GapSetup(p, o, c, g)
             r == RowAt(p, o, c, w, g, s, e)
         IN Fits(p, rows, o, r, g) <=>
              /\ s >= FirstCursor(p, rows, o, w, g, setup)
              /\ InCalendars(p, o, CalendarsOf(c, w, p.tools[o]), s, setup)
              /\ WithinMaxLag(p, rows, o, s)
              /\ ~TooLate(p, o, g, e)
              /\ Unblocked(p, rows, o, r)
              /\ LaneMatches(p, rows, o, r, g)
  <1>. DEFINE setup == GapSetup(p, o, c, g)
              r == RowAt(p, o, c, w, g, s, e)
              cals == CalendarsOf(c, w, p.tools[o])
  <1>1. r.start = s /\ r.end = e /\ r.post = c /\ r.crew = w /\ r.setup = setup
    BY DEF RowAt, Row
  <1>2. e \in Int
    BY ScannedTyped DEF Ends
  <1>3. s >= FirstCursor(p, rows, o, w, g, setup) <=>
          /\ AfterPredecessors(p, rows, o, s) /\ SparesReady(p, o, s)
          /\ NotBefore(p, rows, o, r, g)
    BY <1>2, FirstCursorIsFirst
  <1>4. ~TooLate(p, o, g, e) <=> /\ e <= p.horizon
                                 /\ \A d \in Deadlines(p, o) : e <= d
                                 /\ g.limit # NoLimit => e <= g.limit
    BY <1>2, ScannedTyped DEF TooLate
  <1>. HIDE DEF r, setup, cals
  <1>5. Fits(p, rows, o, r, g) <=>
              /\ AfterPredecessors(p, rows, o, s)
              /\ WithinMaxLag(p, rows, o, s)
              /\ SparesReady(p, o, s)
              /\ NotBefore(p, rows, o, r, g)
              /\ InCalendars(p, o, cals, s, setup)
              /\ e <= p.horizon
              /\ \A d \in Deadlines(p, o) : e <= d
              /\ g.limit # NoLimit => e <= g.limit
              /\ Unblocked(p, rows, o, r)
              /\ LaneMatches(p, rows, o, r, g)
    BY <1>1 DEF Fits, cals
  <1>. QED
    BY <1>3, <1>4, <1>5 DEF r, setup, cals

\* The starts that fit.
FitStarts(p, rows, o, c, w, g) ==
  {s \in Nat : \E e \in Ends(p, o, CalendarsOf(c, w, p.tools[o]), s) :
                 Fits(p, rows, o, RowAt(p, o, c, w, g, s, e), g)}

\* Of each there is one end; it is in time, nothing is in the way, and it is after
\* the first cursor.
LEMMA FitStartsAre ==
  ASSUME NEW p, NEW rows, NEW o, NEW c, NEW w, NEW g, Scanned(p, rows, o, c, w, g),
         NEW m \in FitStarts(p, rows, o, c, w, g)
  PROVE  LET setup == GapSetup(p, o, c, g)
         IN /\ m \in Nat /\ m < p.horizon /\ m + Fit(p, o) <= p.horizon
            /\ m >= FirstCursor(p, rows, o, w, g, setup)
            /\ m \in CalendarStarts(p, o, c, w, setup)
            /\ WithinMaxLag(p, rows, o, m)
            /\ \E e \in Ends(p, o, CalendarsOf(c, w, p.tools[o]), m) :
                 /\ m < e /\ e \in Int /\ ~TooLate(p, o, g, e)
                 /\ Fits(p, rows, o, RowAt(p, o, c, w, g, m, e), g)
                 /\ Unblocked(p, rows, o, RowAt(p, o, c, w, g, m, e))
                 /\ LaneMatches(p, rows, o, RowAt(p, o, c, w, g, m, e), g)
  <1>. DEFINE cals == CalendarsOf(c, w, p.tools[o])
  <1>1. m \in Nat
    BY DEF FitStarts
  <1>2. PICK e \in Ends(p, o, cals, m) : Fits(p, rows, o, RowAt(p, o, c, w, g, m, e), g)
    BY DEF FitStarts
  <1>3. /\ m >= FirstCursor(p, rows, o, w, g, GapSetup(p, o, c, g))
        /\ InCalendars(p, o, cals, m, GapSetup(p, o, c, g))
        /\ WithinMaxLag(p, rows, o, m) /\ ~TooLate(p, o, g, e)
        /\ Unblocked(p, rows, o, RowAt(p, o, c, w, g, m, e))
        /\ LaneMatches(p, rows, o, RowAt(p, o, c, w, g, m, e), g)
    BY <1>1, <1>2, FitsInOrder
  <1>4. e \in Int /\ m < e /\ m + Fit(p, o) <= e
    BY <1>1, ScannedTyped DEF Ends, Fit
  <1>5. e <= p.horizon /\ p.horizon \in Nat
    BY <1>3, <1>4, ScannedTyped DEF TooLate
  <1>6. Fit(p, o) \in Nat
    BY ScannedTyped DEF Fit
  <1>7. m < p.horizon /\ m + Fit(p, o) <= p.horizon
    BY <1>1, <1>4, <1>5, <1>6
  <1>8. m \in CalendarStarts(p, o, c, w, GapSetup(p, o, c, g))
    BY <1>1, <1>3 DEF CalendarStarts
  <1>. QED
    BY <1>1, <1>2, <1>3, <1>4, <1>7, <1>8

\* A start from which the deadlines or the lags cannot be kept leaves none later
\* that could.
LEMMA LaterIsTooLate ==
  ASSUME NEW p, NEW rows, NEW o, NEW c, NEW w, NEW g, Scanned(p, rows, o, c, w, g),
         NEW s \in Nat,
         \/ ~WithinMaxLag(p, rows, o, s)
         \/ \A e \in Ends(p, o, CalendarsOf(c, w, p.tools[o]), s) : TooLate(p, o, g, e)
  PROVE  \A m \in FitStarts(p, rows, o, c, w, g) : m < s
  <1>. SUFFICES ASSUME NEW m \in FitStarts(p, rows, o, c, w, g), ~(m < s) PROVE FALSE
    OBVIOUS
  <1>. DEFINE cals == CalendarsOf(c, w, p.tools[o])
  <1>1. /\ m \in Nat /\ WithinMaxLag(p, rows, o, m)
        /\ \E e \in Ends(p, o, cals, m) : e \in Int /\ ~TooLate(p, o, g, e)
    BY FitStartsAre
  <1>2. PICK e \in Ends(p, o, cals, m) : e \in Int /\ ~TooLate(p, o, g, e)
    BY <1>1
  <1>3. s <= m
    BY <1>1
  <1>4. WithinMaxLag(p, rows, o, s)
    <2>. SUFFICES ASSUME NEW l \in p.links[o], l.max # NoMax
                  PROVE  s <= rows[l.pred].end + l.max
      BY DEF WithinMaxLag
    <2>1. m <= rows[l.pred].end + l.max
      BY <1>1 DEF WithinMaxLag
    <2>2. rows[l.pred].end \in Int /\ l.max \in Int
      BY ScannedTyped
    <2>. QED
      BY <1>1, <1>3, <2>1, <2>2
  <1>5. PICK x \in Ends(p, o, cals, s) : x <= e
    <2>1. ProblemOk(p) /\ o \in p.ops
      BY ScannedTyped DEF Scanned
    <2>. QED
      BY <1>1, <1>2, <1>3, <2>1, EndsFollowStarts
  <1>6. x \in Int
    BY ScannedTyped DEF Ends
  <1>7. ~TooLate(p, o, g, x)
    <2>1. /\ \A d \in Deadlines(p, o) : d \in Int
          /\ p.horizon \in Int /\ g.limit \in Int
      BY ScannedTyped
    <2>. QED
      BY <1>2, <1>5, <1>6, <2>1 DEF TooLate
  <1>. QED
    BY <1>4, <1>5, <1>7

\* Rows at two starts of the same gap are around the same rows.
LEMMA RowsAtAre ==
  ASSUME NEW p, NEW rows, NEW o, NEW c, NEW w, NEW g, Scanned(p, rows, o, c, w, g),
         NEW s \in Nat, NEW e \in Int, s < e
  PROVE  LET r == RowAt(p, o, c, w, g, s, e)
         IN /\ Around(p, rows, o, r)
            /\ r.post = c /\ r.crew = w /\ r.tools = p.tools[o] /\ r.end = e
            /\ OccStart(r) = s - GapSetup(p, o, c, g)
  <1>. DEFINE r == RowAt(p, o, c, w, g, s, e)
  <1>1. /\ r.post = c /\ r.crew = w /\ r.tools = p.tools[o] /\ r.end = e
        /\ r.start = s /\ r.setup = GapSetup(p, o, c, g)
        /\ OccStart(r) = s - GapSetup(p, o, c, g)
    BY DEF RowAt, Row, OccStart
  <1>. HIDE DEF r
  <1>2. Around(p, rows, o, r)
    BY <1>1, ScannedTyped DEF Around, Scanned
  <1>. QED
    BY <1>1, <1>2 DEF r

\* What is in the way of a start stays in the way until the cursor is past it.
LEMMA JumpsAreSafe ==
  ASSUME NEW p, NEW rows, NEW o, NEW c, NEW w, NEW g, Scanned(p, rows, o, c, w, g),
         NEW s \in Nat, NEW e \in Ends(p, o, CalendarsOf(c, w, p.tools[o]), s),
         LET B == Blockers(p, rows, o, RowAt(p, o, c, w, g, s, e))
         IN B # {}
  PROVE  LET last == Max(Blockers(p, rows, o, RowAt(p, o, c, w, g, s, e)))
         IN /\ last \in Int
            /\ \A m \in FitStarts(p, rows, o, c, w, g) :
                 m >= s => m > s /\ m >= last + GapSetup(p, o, c, g)
  <1>. DEFINE cals == CalendarsOf(c, w, p.tools[o])
              r == RowAt(p, o, c, w, g, s, e)
              B == Blockers(p, rows, o, r)
              setup == GapSetup(p, o, c, g)
  <1>1. e \in Int /\ s < e /\ setup \in Nat
    BY ScannedTyped DEF Ends
  <1>2. /\ Around(p, rows, o, r) /\ r.post = c /\ r.crew = w /\ r.tools = p.tools[o] /\ r.end = e
        /\ OccStart(r) = s - setup
    BY <1>1, RowsAtAre
  <1>3. ProblemOk(p) /\ o \in p.ops
    BY ScannedTyped DEF Scanned
  <1>. HIDE DEF r, setup
  <1>4. Max(B) \in Int
    <2>1. OccStart(r) <= OccStart(r) /\ r.end <= r.end
      BY <1>1, <1>2
    <2>. QED
      BY <1>2, <2>1, LaterIsBlocked DEF r
  <1>5. ASSUME NEW m \in FitStarts(p, rows, o, c, w, g), m >= s
        PROVE  m > s /\ m >= Max(B) + setup
    <2>1. PICK y \in Ends(p, o, cals, m) :
            m \in Nat /\ m < y /\ y \in Int /\ Unblocked(p, rows, o, RowAt(p, o, c, w, g, m, y))
      BY FitStartsAre
    <2>. DEFINE x == RowAt(p, o, c, w, g, m, y)
    <2>2. /\ Around(p, rows, o, x) /\ x.post = c /\ x.crew = w /\ x.tools = p.tools[o] /\ x.end = y
          /\ OccStart(x) = m - setup
      BY <2>1, RowsAtAre DEF setup
    <2>3. e <= y
      <3>1. PICK z \in Ends(p, o, cals, s) : z <= y
        BY <1>3, <1>5, <2>1, EndsFollowStarts
      <3>2. z = e
        BY <1>3, OneEnd
      <3>. QED
        BY <3>1, <3>2
    <2>4. m # s
      <3>1. m = s => x = r
        BY <1>3, <2>1, OneEnd DEF r
      <3>2. ~Unblocked(p, rows, o, r)
        BY <1>2, NothingInTheWay DEF r
      <3>. QED
        BY <2>1, <3>1, <3>2
    <2>5. Unblocked(p, rows, o, x)
      BY <2>1
    <2>. HIDE DEF x, B
    <2>6. ~(OccStart(x) < Max(B))
      <3>1. OccStart(r) <= OccStart(x) /\ r.end <= x.end /\ B # {}
        BY <1>1, <1>2, <1>5, <2>1, <2>2, <2>3 DEF B, r
      <3>. QED
        BY <1>2, <2>2, <2>5, <3>1, LaterIsBlocked DEF B
    <2>. QED
      BY <1>1, <1>4, <1>5, <2>1, <2>2, <2>4, <2>6
  <1>. QED
    BY <1>4, <1>5 DEF r, setup

\* On a post with one lane the row is coloured as the gap it was found in says.
LEMMA OneLaneMatches ==
  ASSUME NEW p, NEW rows, NEW o, NEW r, Around(p, rows, o, r), RowOk(p, r),
         OneAtATime(p, rows, r.post), Unblocked(p, rows, o, r),
         NEW g \in Gaps(p, rows, r.post), OccStart(r) >= g.after,
         g.limit # NoLimit => r.end <= g.limit
  PROVE  LaneMatches(p, rows, o, r, g)
  <1>. DEFINE all == With(rows, o, r)
              S == AtPost(rows, r.post)
              now == AtPost(all, r.post)
              col == ColourLanes(p, r.post, all, now)
              over == OverBefore(all, now, o)
  <1>1. /\ DOMAIN all = DOMAIN rows \cup {o} /\ all[o] = r
        /\ now = S \cup {o} /\ o \notin S
        /\ \A q \in S : all[q] = rows[q]
        /\ \A q \in DOMAIN rows : all[q] = rows[q]
    BY DEF With, AtPost, Around
  <1>2. RowsOnCard(p, rows) /\ RowsOnCard(p, all)
    <2>1. RowsOnCard(p, rows)
      BY OnCard DEF Around
    <2>. HIDE DEF all
    <2>. QED
      BY <1>1, <2>1 DEF RowsOnCard, Around
  <1>3. OneByOne(rows, S)
    BY <1>2, RowsOneByOne DEF OneAtATime, Around
  <1>4. OneByOne(all, now) /\ col \in OnOneLane(p, r.post, all, now, now)
    <2>1. p.cap[r.post] = 1 /\ ~Excess(all, now, 1)
      BY DEF OneAtATime, Unblocked
    <2>. HIDE DEF all
    <2>. QED
      BY <1>2, <2>1, RowsOneByOne DEF Around
  <1>. HIDE DEF all, S, now, col, over
  <1>5. ~col.overflow /\ InTurn(p, r.post, all, now, o, col.at[o])
    BY <1>1, <1>4 DEF OnOneLane
  <1>6. /\ \A q \in S : /\ OccStart(rows[q]) \in Int /\ rows[q].end \in Int
                         /\ OccStart(rows[q]) < rows[q].end /\ OccStart(rows[q]) >= 0
        /\ OccStart(r) \in Int /\ r.end \in Int /\ OccStart(r) < r.end /\ g.after \in Int
    <2>1. g.after \in Int
      BY GapsTyped DEF Around
    <2>. QED
      BY <1>3, <2>1, RowsAround DEF OneByOne, Timed, OneAtATime, S, Around
  <1>7. over = {q \in S : rows[q].end <= OccStart(r)}
    BY <1>1, <1>6 DEF over, OverBefore
  <1>8. ASSUME NEW x, Follows(all, now, o, x), g.lane = 0, g.from = StateAfter(p, x)
        PROVE  LaneMatches(p, rows, o, r, g)
    <2>1. col.at[o].prev = x
      BY <1>1, <1>4, <1>5, <1>8, FollowsOnlyOne DEF InTurn
    <2>2. col.at[o].lane = g.lane /\ col.at[o].from = g.from
      BY <1>5, <1>8, <2>1 DEF InTurn
    <2>. QED
      BY <1>5, <2>2 DEF LaneMatches, col, now, all
  <1>9. GapIsBetween(p, rows, S, g) \/ GapIsLast(p, rows, S, g)
    BY <1>3, GapsOfOneLane DEF OneAtATime, S
  <1>10. CASE GapIsBetween(p, rows, S, g)
    <2>. DEFINE n == g.next
                then == OverBefore(rows, S, n)
    <2>1. PICK x : /\ Follows(rows, S, n, x) /\ g.from = StateAfter(p, x)
                   /\ x # NoOp => x \in S /\ g.after = rows[x].end
      BY <1>10 DEF GapIsBetween
    <2>2. n \in S /\ g.lane = 0 /\ r.end <= OccStart(rows[n])
      BY <1>6, <1>10 DEF GapIsBetween, NoLimit
    <2>3. over \subseteq then
      <3>1. \A q \in S : rows[q].end <= OccStart(r) => rows[q].end <= OccStart(rows[n])
        BY <1>6, <2>2
      <3>. QED
        BY <1>7, <3>1 DEF OverBefore
    <2>. HIDE DEF then
    <2>4. IF then = {} THEN x = NoOp
          ELSE x \in then /\ \A q \in then \ {x} : rows[q].end <= OccStart(rows[x])
      BY <2>1 DEF Follows, then
    <2>5. then # {} => x \in S /\ x # NoOp
      BY <1>3, <2>4 DEF then, OverBefore, OneByOne
    <2>6. then # {} => x \in over
      BY <1>6, <1>7, <2>1, <2>5
    <2>7. IF over = {} THEN x = NoOp
          ELSE x \in over /\ \A q \in over \ {x} : rows[q].end <= OccStart(rows[x])
      BY <2>3, <2>4, <2>6
    <2>8. Follows(all, now, o, x)
      <3>1. \A q \in over : q \in S /\ all[q] = rows[q]
        BY <1>1, <1>7
      <3>. QED
        BY <2>7, <3>1 DEF Follows, over
    <2>. QED
      BY <1>8, <2>1, <2>2, <2>8
  <1>11. CASE GapIsLast(p, rows, S, g)
    <2>1. CASE S = {}
      <3>1. over = {} /\ g.lane = 0 /\ g.from = StateAfter(p, NoOp)
        BY <1>7, <1>11, <2>1 DEF GapIsLast, StateAfter
      <3>2. Follows(all, now, o, NoOp)
        BY <3>1 DEF Follows, over
      <3>. QED
        BY <1>8, <3>1, <3>2
    <2>2. CASE S # {}
      <3>1. PICK x \in S : /\ g.after = rows[x].end /\ g.from = p.state[x]
                           /\ \A q \in S \ {x} : rows[q].end <= OccStart(rows[x])
        BY <1>11, <2>2 DEF GapIsLast
      <3>2. x \in over /\ x # NoOp
        BY <1>3, <1>6, <1>7, <3>1 DEF OneByOne
      <3>3. \A q \in over \ {x} : all[q].end <= OccStart(all[x])
        BY <1>1, <1>7, <3>1
      <3>4. Follows(all, now, o, x)
        BY <3>2, <3>3 DEF Follows, over
      <3>5. g.lane = 0 /\ g.from = StateAfter(p, x)
        BY <1>11, <3>1, <3>2 DEF GapIsLast, StateAfter
      <3>. QED
        BY <1>8, <3>4, <3>5
    <2>. QED
      BY <2>1, <2>2
  <1>. QED
    BY <1>9, <1>10, <1>11

\* The row at a start that fits, or no row.
RowFrom(p, o, c, w, g, s) ==
  RowAt(p, o, c, w, g, s, Min(Ends(p, o, CalendarsOf(c, w, p.tools[o]), s)))

LEMMA RowFromIs ==
  ASSUME NEW p, NEW rows, NEW o, NEW c, NEW w, NEW g, Scanned(p, rows, o, c, w, g),
         NEW s \in Nat, NEW e \in Ends(p, o, CalendarsOf(c, w, p.tools[o]), s)
  PROVE  RowFrom(p, o, c, w, g, s) = RowAt(p, o, c, w, g, s, e)
  <1>1. ProblemOk(p) /\ o \in p.ops
    BY ScannedTyped DEF Scanned
  <1>2. Ends(p, o, CalendarsOf(c, w, p.tools[o]), s) = {e}
    BY <1>1, OneEnd
  <1>3. e \in Int
    BY ScannedTyped DEF Ends
  <1>4. Min({e}) = e
    BY <1>3 DEF Min
  <1>. QED
    BY <1>2, <1>4 DEF RowFrom

\* The tries that the scan of a gap of the plan needs.
Enough(p, rows, o, c, w) ==
  /\ IsFiniteSet(Openings(p, o, c, w)) /\ Cardinality(Openings(p, o, c, w)) < Tries
  /\ \/ OneAtATime(p, rows, c) /\ Cardinality(p.ops) <= Tries
     \/ p.horizon <= Tries

\* What the cursor passes where the scan moves on: a minute of the horizon, or the
\* end of a row and the setup.
Passed(p, rows, d) ==
  IF p.horizon <= Tries THEN 1..(p.horizon - 1) ELSE {rows[q].end + d : q \in DOMAIN rows}

LEMMA FewPassed ==
  ASSUME NEW p, NEW rows, NEW o, NEW c, NEW w, NEW g, Scanned(p, rows, o, c, w, g),
         NEW d \in Int, NEW s
  PROVE  LET M == Passed(p, rows, d)
         IN /\ M \subseteq Int /\ IsFiniteSet(M)
            /\ Enough(p, rows, o, c, w) /\ p.horizon # 0
                 => /\ Cardinality(After(M, s)) \in Nat
                    /\ Cardinality(After(M, s)) < Tries
  <1>. DEFINE M == Passed(p, rows, d)
              f == [q \in DOMAIN rows |-> rows[q].end + d]
              T == {f[q] : q \in DOMAIN rows}
  <1>0. /\ p.horizon \in Nat /\ IsFiniteSet(DOMAIN rows) /\ \A q \in DOMAIN rows : rows[q].end \in Int
        /\ o \in p.ops /\ o \notin DOMAIN rows
    BY ScannedTyped
  <1>1. M = IF p.horizon <= Tries THEN 1..(p.horizon - 1) ELSE T
    BY DEF Passed
  <1>2. IsFiniteSet(1..(p.horizon - 1)) /\ (p.horizon # 0 => Cardinality(1..(p.horizon - 1)) < p.horizon)
    <2>1. p.horizon - 1 \in Int
      BY <1>0
    <2>2. /\ IsFiniteSet(1..(p.horizon - 1))
          /\ Cardinality(1..(p.horizon - 1)) = IF 1 > p.horizon - 1 THEN 0 ELSE (p.horizon - 1) - 1 + 1
      BY <2>1, FS_Interval
    <2>. QED
      BY <1>0, <2>2
  <1>3. IsFiniteSet(T) /\ Cardinality(T) <= Cardinality(DOMAIN rows) /\ T \subseteq Int
    <2>1. f \in Surjection(DOMAIN rows, T)
      BY DEF Surjection
    <2>2. T \subseteq Int
      BY <1>0
    <2>. HIDE DEF f, T
    <2>. QED
      BY <1>0, <2>1, <2>2, FS_Surjection
  <1>4. IsFiniteSet(p.ops) /\ Cardinality(DOMAIN rows) < Cardinality(p.ops)
    <2>1. IsFiniteSet(p.ops) /\ DOMAIN rows \cup {o} \in SUBSET p.ops
      <3>1. IsFiniteSet(DOMAIN p.dur) /\ p.ops \subseteq DOMAIN p.dur /\ DOMAIN rows \subseteq p.ops
        BY DEF Scanned, RowsOk, ProblemOk
      <3>. QED
        BY <1>0, <3>1, FS_Subset
    <2>2. Cardinality(DOMAIN rows \cup {o}) = Cardinality(DOMAIN rows) + 1
      BY <1>0, FS_AddElement
    <2>3. Cardinality(DOMAIN rows \cup {o}) <= Cardinality(p.ops)
      BY <2>1, FS_Subset
    <2>4. Cardinality(DOMAIN rows) \in Nat /\ Cardinality(p.ops) \in Nat
      BY <1>0, <2>1, FS_CardinalityType
    <2>. QED
      BY <2>1, <2>2, <2>3, <2>4
  <1>. HIDE DEF M, T
  <1>5. M \subseteq Int /\ IsFiniteSet(M)
    BY <1>0, <1>1, <1>2, <1>3
  <1>6. ASSUME Enough(p, rows, o, c, w), p.horizon # 0
        PROVE  Cardinality(After(M, s)) \in Nat /\ Cardinality(After(M, s)) < Tries
    <2>1. After(M, s) \in SUBSET M
      BY DEF After
    <2>2. /\ Cardinality(After(M, s)) \in Nat /\ Cardinality(M) \in Nat
          /\ Cardinality(After(M, s)) <= Cardinality(M)
      BY <1>5, <2>1, FS_Subset, FS_CardinalityType
    <2>3. /\ Cardinality(T) \in Nat /\ Cardinality(DOMAIN rows) \in Nat /\ Cardinality(p.ops) \in Nat
          /\ Cardinality(1..(p.horizon - 1)) \in Nat
      BY <1>0, <1>2, <1>3, <1>4, FS_CardinalityType
    <2>4. Cardinality(M) < Tries
      <3>1. CASE p.horizon <= Tries
        BY <1>0, <1>1, <1>2, <1>6, <2>3, <3>1, TriesAssumption
      <3>2. CASE ~(p.horizon <= Tries)
        <4>1. Cardinality(p.ops) <= Tries /\ M = T
          BY <1>1, <1>6, <3>2 DEF Enough
        <4>. QED
          BY <1>3, <1>4, <2>3, <4>1, TriesAssumption
      <3>. QED
        BY <3>1, <3>2
    <2>. QED
      BY <2>2, <2>4, TriesAssumption
  <1>. QED
    BY <1>5, <1>6 DEF M

\* Whatever the number of tries, the scan finds the first start that fits, or
\* none; with enough of them, none only if there is none.
LEMMA ScanFindsFirst ==
  ASSUME NEW p, NEW rows, NEW o, NEW c, NEW w, NEW g, Scanned(p, rows, o, c, w, g)
  PROVE  LET found == Scan(p, rows, o, c, w, g)
             Good == FitStarts(p, rows, o, c, w, g)
         IN \/ \E m \in Good : /\ \A x \in Good : m <= x
                               /\ found = {RowFrom(p, o, c, w, g, m)}
            \/ found = {} /\ (Enough(p, rows, o, c, w) => Good = {})
  <1>. DEFINE setup == GapSetup(p, o, c, g)
              cals == CalendarsOf(c, w, p.tools[o])
              first == FirstCursor(p, rows, o, w, g, setup)
              Good == FitStarts(p, rows, o, c, w, g)
              enough == Enough(p, rows, o, c, w)
              Must == IF enough THEN Good ELSE {}
              Marks == Passed(p, rows, setup)
              tooLate(r) == \/ r.end > p.horizon
                            \/ \E d \in Deadlines(p, o) : r.end > d
                            \/ g.limit # NoLimit /\ r.end > g.limit
              at(cursor) == Advance(p, o, c, w, setup, cursor)
              row(s) == Row(c, w, p.tools[o], s, Min(Ends(p, o, cals, s)), setup)
              next(s) == LET blockers == Blockers(p, rows, o, row(s))
                         IN IF blockers = {} THEN s + 1 ELSE Max(blockers) + setup
              tries(f) == f = [n \in 0..Tries |->
                [cursor \in Nat |->
                   LET s == at(cursor)
                   IN IF n = 0 THEN {}
                      ELSE IF s = NoStart \/ ~WithinMaxLag(p, rows, o, s) THEN {}
                      ELSE IF Ends(p, o, cals, s) = {} THEN f[n - 1][s + Stride]
                      ELSE IF tooLate(row(s)) THEN {}
                      ELSE IF Blockers(p, rows, o, row(s)) = {} /\ LaneMatches(p, rows, o, row(s), g)
                           THEN {row(s)}
                      ELSE f[n - 1][Max({next(s), cursor + 1})]]]
              try == CHOOSE f : tries(f)
              over(s) == s = NoStart \/ ~WithinMaxLag(p, rows, o, s)
              clear(s) == Blockers(p, rows, o, row(s)) = {} /\ LaneMatches(p, rows, o, row(s), g)
              none(s) == Ends(p, o, cals, s) = {}
              stops == {u \in Nat : over(at(u)) \/ (~none(at(u)) /\ (tooLate(row(at(u))) \/ clear(at(u))))}
              val == [u \in Nat |-> IF over(at(u)) \/ tooLate(row(at(u))) THEN {} ELSE {row(at(u))}]
              go == [u \in Nat |-> IF none(at(u)) THEN at(u) + Stride ELSE Max({next(at(u)), u + 1})]
              ans == [s \in Nat |-> {row(s)}]
  <1>1. Scan(p, rows, o, c, w, g) = try[Tries][first]
    BY DEF Scan
  <1>2. \A s : row(s) = RowFrom(p, o, c, w, g, s)
    BY DEF RowFrom, RowAt
  <1>3. \A s : tooLate(row(s)) <=> TooLate(p, o, g, Min(Ends(p, o, cals, s)))
    BY DEF Row, TooLate
  <1>4. /\ o \in p.ops /\ c \in DOMAIN p.cap /\ w \in DOMAIN p.crewCap /\ p.horizon \in Nat
        /\ setup \in Nat /\ ProblemOk(p)
    BY ScannedTyped DEF Scanned
  <1>5. first \in Nat /\ first >= setup
    BY FirstCursorIsFirst
  <1>6. Good \subseteq Nat /\ Must \subseteq Good
    BY DEF FitStarts
  <1>7. ASSUME NEW f
        PROVE  tries(f) <=> Tried(Tries, stops, val, go, {}, f)
    <2>. DEFINE A(n, u) == IF n = 0 THEN {}
                           ELSE IF over(at(u)) THEN {}
                           ELSE IF none(at(u)) THEN f[n - 1][at(u) + Stride]
                           ELSE IF tooLate(row(at(u))) THEN {}
                           ELSE IF clear(at(u)) THEN {row(at(u))}
                           ELSE f[n - 1][Max({next(at(u)), u + 1})]
                B(n, u) == IF n = 0 THEN {} ELSE IF u \in stops THEN val[u] ELSE f[n - 1][go[u]]
    <2>1. ASSUME NEW u \in Nat
          PROVE  /\ u \in stops <=> over(at(u)) \/ (~none(at(u)) /\ (tooLate(row(at(u))) \/ clear(at(u))))
                 /\ val[u] = IF over(at(u)) \/ tooLate(row(at(u))) THEN {} ELSE {row(at(u))}
                 /\ go[u] = IF none(at(u)) THEN at(u) + Stride ELSE Max({next(at(u)), u + 1})
      OBVIOUS
    <2>2. tries(f) <=> f = [n \in 0..Tries |-> [u \in Nat |-> A(n, u)]]
      OBVIOUS
    <2>3. Tried(Tries, stops, val, go, {}, f) <=> f = [n \in 0..Tries |-> [u \in Nat |-> B(n, u)]]
      BY DEF Tried
    <2>4. \A n \in 0..Tries, u \in Nat : A(n, u) = B(n, u)
      <3>. HIDE DEF tries, stops, val, go, over, none, clear, tooLate, row, at, next
      <3>. QED
        BY <2>1
    <2>. HIDE DEF A, B, tries, stops, val, go
    <2>. QED
      BY <2>2, <2>3, <2>4
  <1>8. Tried(Tries, stops, val, go, {}, try)
    <2>1. \E f : Tried(Tries, stops, val, go, {}, f)
      BY TriesAssumption, TriesExist
    <2>. HIDE DEF tries, stops, val, go
    <2>. QED
      BY <1>7, <2>1
  <1>9. ASSUME NEW u \in Nat, u >= first
        PROVE  /\ at(u) = NoStart => \A m \in Must : m < u
               /\ at(u) # NoStart => /\ at(u) \in Nat /\ at(u) >= u
                                     /\ InCalendars(p, o, cals, at(u), setup)
                                     /\ \A m \in Good : m >= u => m >= at(u)
    <2>1. u >= setup
      BY <1>4, <1>5, <1>9
    <2>2. \/ at(u) \in LeastFrom(CalendarStarts(p, o, c, w, setup), u)
          \/ /\ at(u) = NoStart
             /\ \A m \in CalendarStarts(p, o, c, w, setup) :
                  m >= u => m + Fit(p, o) > p.horizon \/ ~enough
      BY <1>4, <2>1, AdvanceFindsLeast DEF Enough
    <2>3. \A m \in Good : /\ m \in CalendarStarts(p, o, c, w, setup)
                          /\ m \in Nat /\ m < p.horizon /\ m + Fit(p, o) <= p.horizon
      BY FitStartsAre
    <2>4. Fit(p, o) \in Nat
      BY ScannedTyped DEF Fit
    <2>5. CASE at(u) \in LeastFrom(CalendarStarts(p, o, c, w, setup), u)
      <3>1. at(u) \in Nat /\ at(u) >= u /\ InCalendars(p, o, cals, at(u), setup)
        BY <2>5 DEF LeastFrom, CalendarStarts
      <3>2. \A m \in Good : m >= u => m >= at(u)
        <4>1. \A m \in Good : m >= u => at(u) <= m
          BY <2>3, <2>5 DEF LeastFrom
        <4>. HIDE DEF at, Good
        <4>. QED
          BY <1>6, <3>1, <4>1
      <3>3. at(u) # NoStart
        BY <3>1 DEF NoStart
      <3>. QED
        BY <3>1, <3>2, <3>3
    <2>6. CASE /\ at(u) = NoStart
               /\ \A m \in CalendarStarts(p, o, c, w, setup) :
                    m >= u => m + Fit(p, o) > p.horizon \/ ~enough
      <3>1. ASSUME NEW m \in Must, m >= u
            PROVE  FALSE
        <4>1. m \in Good /\ enough
          BY <3>1
        <4>2. m + Fit(p, o) > p.horizon
          BY <2>3, <2>6, <3>1, <4>1
        <4>. HIDE DEF Good
        <4>. QED
          BY <1>4, <2>3, <2>4, <3>1, <4>1, <4>2, TriesAssumption
      <3>2. \A m \in Must : m \in Nat
        BY <1>6
      <3>. HIDE DEF Must, at
      <3>. QED
        BY <2>6, <3>1, <3>2
    <2>. QED
      BY <2>2, <2>5, <2>6
  <1>10. ASSUME NEW u \in Nat, u >= first, ~over(at(u)), NEW e \in Ends(p, o, cals, at(u))
         PROVE  /\ row(at(u)) = RowAt(p, o, c, w, g, at(u), e)
                /\ tooLate(row(at(u))) <=> TooLate(p, o, g, e)
                /\ at(u) \in Good <=> clear(at(u)) /\ ~tooLate(row(at(u)))
                /\ Around(p, rows, o, row(at(u))) /\ row(at(u)).post = c
                /\ OccStart(row(at(u))) = at(u) - setup
                /\ OneAtATime(p, rows, c) /\ ~TooLate(p, o, g, e)
                     /\ Blockers(p, rows, o, row(at(u))) = {} => clear(at(u))
    <2>. DEFINE s == at(u)
    <2>1. s \in Nat /\ s >= u /\ InCalendars(p, o, cals, s, setup) /\ WithinMaxLag(p, rows, o, s)
      BY <1>9, <1>10
    <2>. HIDE DEF s
    <2>2. row(s) = RowAt(p, o, c, w, g, s, e)
      BY <1>2, <1>10, <2>1, RowFromIs DEF s
    <2>3. Ends(p, o, cals, s) = {e}
      BY <1>4, <1>10, <2>1, OneEnd DEF s
    <2>4. e \in Int /\ s < e
      BY <1>10, <2>1, ScannedTyped DEF Ends, s
    <2>5. Min({e}) = e
      BY <2>4 DEF Min
    <2>6. tooLate(row(s)) <=> TooLate(p, o, g, e)
      BY <1>3, <2>3, <2>5
    <2>7. s >= first
      BY <1>5, <1>10, <2>1
    <2>8. s \in Good <=> Fits(p, rows, o, RowAt(p, o, c, w, g, s, e), g)
      BY <2>1, <2>3 DEF FitStarts
    <2>9. /\ Around(p, rows, o, RowAt(p, o, c, w, g, s, e))
          /\ RowAt(p, o, c, w, g, s, e).post = c /\ RowAt(p, o, c, w, g, s, e).end = e
          /\ OccStart(RowAt(p, o, c, w, g, s, e)) = s - setup
      BY <2>1, <2>4, RowsAtAre
    <2>12. RowOk(p, RowAt(p, o, c, w, g, s, e))
      <3>1. p.tools[o] \subseteq DOMAIN p.toolCap
        BY <1>4 DEF ProblemOk
      <3>. QED
        BY <1>4, <2>1, <2>4, <3>1 DEF RowAt, Row, RowOk
    <2>13. OccStart(RowAt(p, o, c, w, g, s, e)) >= g.after
      <3>1. NotBefore(p, rows, o, RowAt(p, o, c, w, g, s, e), g)
        BY <2>1, <2>4, <2>7, FirstCursorIsFirst DEF first
      <3>. QED
        BY <3>1 DEF NotBefore
    <2>. HIDE DEF tooLate, row, Good
    <2>10. Blockers(p, rows, o, row(s)) = {} <=> Unblocked(p, rows, o, row(s))
      BY <2>2, <2>9, NothingInTheWay
    <2>11. s \in Good <=> clear(s) /\ ~tooLate(row(s))
      BY <2>1, <2>2, <2>3, <2>6, <2>7, <2>8, <2>10, FitsInOrder DEF first
    <2>14. OneAtATime(p, rows, c) /\ ~TooLate(p, o, g, e)
             /\ Blockers(p, rows, o, row(s)) = {} => clear(s)
      <3>. SUFFICES ASSUME OneAtATime(p, rows, c), ~TooLate(p, o, g, e),
                           Blockers(p, rows, o, row(s)) = {}
                    PROVE  LaneMatches(p, rows, o, row(s), g)
        BY DEF clear
      <3>1. g \in Gaps(p, rows, c) /\ g.limit \in Int
        BY ScannedTyped DEF Scanned
      <3>2. g.limit # NoLimit => e <= g.limit
        BY <2>4, <3>1 DEF TooLate
      <3>. QED
        BY <2>2, <2>9, <2>10, <2>12, <2>13, <3>1, <3>2, OneLaneMatches
    <2>15. Around(p, rows, o, row(s)) /\ row(s).post = c /\ OccStart(row(s)) = s - setup
      BY <2>2, <2>9
    <2>. HIDE DEF clear
    <2>. QED
      BY <2>2, <2>6, <2>11, <2>14, <2>15 DEF s
  <1>11. Searches(Good, Must, Marks, ans, {}, first, stops, val, go)
    <2>0. ASSUME NEW u \in Nat, u >= first, at(u) # NoStart,
                 \A m \in Good : m < at(u)
          PROVE  \A m \in Good : m < u
      <3>1. \A m \in Good : m >= u => m >= at(u)
        BY <1>9, <2>0
      <3>2. at(u) \in Nat
        BY <1>9, <2>0
      <3>. HIDE DEF Good, at
      <3>. QED
        BY <1>6, <2>0, <3>1, <3>2
    <2>1. ASSUME NEW u \in Nat \cap stops, u >= first
          PROVE  \/ \E m \in LeastFrom(Good, u) : val[u] = ans[m]
                 \/ val[u] = {} /\ \A m \in Must : m < u
      <3>0. /\ over(at(u)) \/ (~none(at(u)) /\ (tooLate(row(at(u))) \/ clear(at(u))))
            /\ val[u] = IF over(at(u)) \/ tooLate(row(at(u))) THEN {} ELSE {row(at(u))}
        OBVIOUS
      <3>1. CASE at(u) = NoStart
        <4>1. val[u] = {}
          BY <3>0, <3>1
        <4>2. \A m \in Must : m < u
          BY <1>9, <2>1, <3>1
        <4>. QED
          BY <4>1, <4>2
      <3>2. CASE at(u) # NoStart /\ ~WithinMaxLag(p, rows, o, at(u))
        <4>1. val[u] = {}
          BY <3>0, <3>2
        <4>2. at(u) \in Nat
          BY <1>9, <2>1, <3>2
        <4>. HIDE DEF at, val
        <4>3. \A m \in Good : m < at(u)
          BY <3>2, <4>2, LaterIsTooLate
        <4>. HIDE DEF Good
        <4>4. \A m \in Good : m < u
          BY <2>0, <2>1, <3>2, <4>3
        <4>. QED
          BY <1>6, <4>1, <4>4
      <3>3. CASE ~over(at(u))
        <4>1. ~none(at(u)) /\ (tooLate(row(at(u))) \/ clear(at(u)))
          BY <3>0, <3>3
        <4>2. PICK e \in Ends(p, o, cals, at(u)) : TRUE
          BY <4>1
        <4>3. at(u) \in Nat /\ at(u) >= u /\ at(u) # NoStart /\ \A m \in Good : m >= u => m >= at(u)
          BY <1>9, <2>1, <3>3
        <4>4. /\ tooLate(row(at(u))) <=> TooLate(p, o, g, e)
              /\ at(u) \in Good <=> clear(at(u)) /\ ~tooLate(row(at(u)))
          BY <1>10, <2>1, <3>3, <4>2
        <4>5. CASE tooLate(row(at(u)))
          <5>1. val[u] = {}
            BY <3>0, <4>5
          <5>2. \A x \in Ends(p, o, cals, at(u)) : TooLate(p, o, g, x)
            <6>1. \A x \in Ends(p, o, cals, at(u)) : x = e
              <7>. HIDE DEF at
              <7>. QED
                BY <1>4, <4>2, <4>3, OneEnd
            <6>. HIDE DEF tooLate, row, at
            <6>. QED
              BY <4>4, <4>5, <6>1
          <5>. HIDE DEF at, val
          <5>3. \A m \in Good : m < at(u)
            BY <4>3, <5>2, LaterIsTooLate
          <5>. HIDE DEF Good
          <5>4. \A m \in Good : m < u
            BY <2>0, <2>1, <4>3, <5>3
          <5>. QED
            BY <1>6, <5>1, <5>4
        <4>6. CASE ~tooLate(row(at(u)))
          <5>1. at(u) \in Good
            BY <4>1, <4>4, <4>6
          <5>2. at(u) \in LeastFrom(Good, u)
            <6>. HIDE DEF at, Good
            <6>. QED
              BY <4>3, <5>1 DEF LeastFrom
          <5>3. val[u] = {row(at(u))}
            BY <3>0, <3>3, <4>6
          <5>4. ans[at(u)] = {row(at(u))}
            <6>. HIDE DEF at, row
            <6>. QED
              BY <4>3
          <5>. HIDE DEF at, Good, val, ans, row
          <5>. QED
            BY <5>2, <5>3, <5>4
        <4>. HIDE DEF Good, Must, val, ans, tooLate, row, at
        <4>. QED
          BY <4>5, <4>6
      <3>. HIDE DEF Good, Must, val, ans, over, at
      <3>4. ~over(at(u)) \/ (at(u) # NoStart /\ ~WithinMaxLag(p, rows, o, at(u))) \/ at(u) = NoStart
        BY DEF over
      <3>. QED
        BY <3>1, <3>2, <3>3, <3>4
    <2>2. ASSUME NEW u \in Nat \ stops, u >= first
          PROVE  /\ go[u] \in Nat /\ go[u] >= u
                 /\ \/ \A m \in Good : m < u
                    \/ go[u] > u /\ \A m \in Good : m >= u => m >= go[u]
                 /\ (\E m \in Must : m >= u) => \E k \in Marks : k > u /\ k <= go[u]
      <3>0. /\ ~over(at(u)) /\ (none(at(u)) \/ (~tooLate(row(at(u))) /\ ~clear(at(u))))
            /\ go[u] = IF none(at(u)) THEN at(u) + Stride ELSE Max({next(at(u)), u + 1})
        OBVIOUS
      <3>1. at(u) \in Nat /\ at(u) >= u /\ at(u) # NoStart /\ \A m \in Good : m >= u => m >= at(u)
        BY <1>9, <2>2, <3>0
      <3>2. CASE none(at(u))
        <4>1. go[u] = at(u) + Stride
          BY <3>0, <3>2
        <4>2. \A m \in Good : m < at(u)
          <5>1. \A e \in Ends(p, o, cals, at(u)) : TooLate(p, o, g, e)
            BY <3>2
          <5>. HIDE DEF at
          <5>. QED
            BY <3>1, <5>1, LaterIsTooLate
        <4>. HIDE DEF at, Good, go
        <4>3. \A m \in Good : m < u
          BY <2>0, <2>2, <3>1, <4>2
        <4>4. ~\E m \in Must : m >= u
          BY <1>6, <4>3
        <4>. HIDE DEF Must
        <4>. QED
          BY <3>1, <4>1, <4>3, <4>4, TriesAssumption
      <3>3. CASE ~none(at(u))
        <4>1. PICK e \in Ends(p, o, cals, at(u)) : TRUE
          BY <3>3
        <4>2. go[u] = Max({next(at(u)), u + 1})
          BY <3>0, <3>3
        <4>3. /\ row(at(u)) = RowAt(p, o, c, w, g, at(u), e)
              /\ at(u) \notin Good
          BY <1>10, <2>2, <3>0, <3>3, <4>1
        <4>4. next(at(u)) \in Int /\ \A m \in Good : m >= at(u) => m >= next(at(u)) /\ m > at(u)
          <5>. DEFINE B == Blockers(p, rows, o, row(at(u)))
          <5>0. next(at(u)) = IF B = {} THEN at(u) + 1 ELSE Max(B) + setup
            OBVIOUS
          <5>1. CASE B = {}
            <6>. HIDE DEF at, Good, next, B
            <6>. QED
              BY <1>6, <3>1, <4>3, <5>0, <5>1
          <5>2. CASE B # {}
            <6>1. /\ Max(B) \in Int
                  /\ \A m \in Good : m >= at(u) => m > at(u) /\ m >= Max(B) + setup
              <7>. HIDE DEF at, row
              <7>. QED
                BY <3>1, <4>1, <4>3, <5>2, JumpsAreSafe
            <6>. HIDE DEF at, Good, next, B, setup
            <6>. QED
              BY <1>4, <5>0, <5>2, <6>1
          <5>. QED
            BY <5>1, <5>2
        <4>. HIDE DEF at, Good, go, next
        <4>5. /\ go[u] = (IF next(at(u)) >= u + 1 THEN next(at(u)) ELSE u + 1)
              /\ u \in Nat
          BY <4>2, <4>4, LaterOfTwo
        <4>6. go[u] \in Nat /\ go[u] > u
          BY <4>4, <4>5
        <4>7. ASSUME NEW m \in Good, m >= u
              PROVE  m >= go[u]
          <5>1. m >= next(at(u)) /\ m > at(u) /\ m \in Nat
            BY <1>6, <3>1, <4>4, <4>7
          <5>. QED
            BY <3>1, <4>4, <4>5, <5>1
        <4>8. ASSUME NEW m \in Must, m >= u
              PROVE  \E k \in Marks : k > u /\ k <= go[u]
          <5>. HIDE DEF Marks
          <5>1. m \in Good /\ enough
            BY <4>8
          <5>2. m >= go[u] /\ m \in Nat /\ m < p.horizon
            BY <4>7, <4>8, <5>1, FitStartsAre DEF Good
          <5>3. CASE p.horizon <= Tries
            <6>1. go[u] \in 1..(p.horizon - 1)
              BY <1>4, <4>5, <4>6, <5>2
            <6>2. go[u] \in Marks
              <7>. HIDE DEF go
              <7>. QED
                BY <5>3, <6>1 DEF Marks, Passed
            <6>. QED
              BY <4>6, <6>2
          <5>4. CASE ~(p.horizon <= Tries)
            <6>1. OneAtATime(p, rows, c)
              BY <5>1, <5>4 DEF Enough
            <6>. DEFINE B == Blockers(p, rows, o, row(at(u)))
            <6>2. B # {}
              BY <1>10, <2>2, <3>0, <3>3, <4>1, <6>1
            <6>3. next(at(u)) = Max(B) + setup
              BY <6>2 DEF next
            <6>4. PICK q \in DOMAIN rows : Max(B) = rows[q].end /\ at(u) - setup < rows[q].end
              <7>1. /\ Around(p, rows, o, row(at(u))) /\ row(at(u)).post = c
                    /\ OccStart(row(at(u))) = at(u) - setup
                BY <1>10, <2>2, <3>0, <4>1
              <7>2. ~Excess(rows, AtPost(rows, c), p.cap[c])
                BY <6>1 DEF OneAtATime
              <7>. HIDE DEF row, at, setup
              <7>. QED
                BY <6>2, <7>1, <7>2, BlockersAreAhead DEF B
            <6>5. rows[q].end \in Int
              BY ScannedTyped
            <6>. HIDE DEF B, setup
            <6>6. go[u] = rows[q].end + setup
              BY <1>4, <3>1, <4>5, <6>3, <6>4, <6>5
            <6>7. go[u] \in Marks
              BY <5>4, <6>6 DEF Marks, Passed
            <6>. QED
              BY <4>6, <6>7
          <5>. QED
            BY <5>3, <5>4
        <4>. HIDE DEF Must, Marks
        <4>. QED
          BY <4>6, <4>7, <4>8
      <3>. HIDE DEF Good, Must, Marks, go, none
      <3>. QED
        BY <3>2, <3>3
    <2>. HIDE DEF Good, Must, Marks, ans, first, stops, val, go
    <2>. QED
      BY <2>1, <2>2 DEF Searches
  <1>120. /\ Marks \in SUBSET Int /\ IsFiniteSet(Marks)
          /\ enough /\ p.horizon # 0 => /\ Cardinality(After(Marks, first)) \in Nat
                                        /\ Cardinality(After(Marks, first)) < Tries
    <2>1. setup \in Int
      BY <1>4
    <2>. HIDE DEF setup, first
    <2>. QED
      BY <2>1, FewPassed
  <1>12. Found(Good, Must, Marks, ans, {}, Tries, first, try[Tries][first])
    <2>1. Tries \in 0..Tries /\ Tries \in Nat /\ first >= first
      BY <1>5, TriesAssumption
    <2>. HIDE DEF Good, Must, Marks, ans, first, stops, val, go, try
    <2>. QED
      BY <1>5, <1>6, <1>8, <1>11, <1>120, <2>1, TriesFindLeast
  <1>13. \A m \in Good : m >= first /\ m \in Nat /\ m < p.horizon
    BY FitStartsAre
  <1>14. CASE \E m \in LeastFrom(Good, first) : try[Tries][first] = ans[m]
    <2>1. PICK m \in LeastFrom(Good, first) : try[Tries][first] = ans[m]
      <3>. HIDE DEF Good, first, ans, try
      <3>. QED
        BY <1>14
    <2>2. m \in Good /\ \A x \in Good : m <= x
      <3>. HIDE DEF Good, first
      <3>. QED
        BY <1>13 DEF LeastFrom
    <2>3. ans[m] = {RowFrom(p, o, c, w, g, m)}
      BY <1>2, <1>13, <2>2
    <2>. HIDE DEF ans, try
    <2>. QED
      BY <1>1, <2>1, <2>2, <2>3
  <1>15. CASE try[Tries][first] = {} /\ \A m \in Must : m >= first => Tries <= Cardinality(After(Marks, first))
    <2>1. ASSUME enough, NEW m \in Good PROVE FALSE
      <3>1. m \in Must
        BY <2>1
      <3>2. m >= first /\ m \in Nat /\ m < p.horizon
        BY <1>13
      <3>. HIDE DEF Good, Must, Marks, first, try, enough
      <3>3. p.horizon # 0
        BY <3>2
      <3>. QED
        BY <1>15, <1>120, <2>1, <3>1, <3>2, <3>3, TriesAssumption
    <2>. HIDE DEF try
    <2>. QED
      BY <1>1, <1>15, <2>1
  <1>. QED
    <2>. HIDE DEF Good, Must, Marks, ans, first, try
    <2>. QED
      BY <1>12, <1>14, <1>15 DEF Found

\* The rows that a gap takes are those at the starts that fit.
LEMMA RowsOfStarts ==
  ASSUME NEW p, NEW rows, NEW o, NEW c, NEW w, NEW g, Scanned(p, rows, o, c, w, g),
         FollowerHolds(p, rows, o, g)
  PROVE  {a.row : a \in SlotsIn(p, rows, o, c, w, g)}
           = {RowFrom(p, o, c, w, g, s) : s \in FitStarts(p, rows, o, c, w, g)}
  <1>. DEFINE cals == CalendarsOf(c, w, p.tools[o])
              Good == FitStarts(p, rows, o, c, w, g)
              fits == {a.row : a \in SlotsIn(p, rows, o, c, w, g)}
              row(s, e) == RowAt(p, o, c, w, g, s, e)
              found == {r \in UNION {{row(s, e) : e \in Ends(p, o, cals, s)} : s \in 0..p.horizon} :
                          Fits(p, rows, o, r, g)}
  <1>1. fits = found
    <2>. DEFINE wide == {r \in UNION {{Row(c, w, p.tools[o], s, e, GapSetup(p, o, c, g)) :
                                          e \in Ends(p, o, cals, s)} : s \in 0..p.horizon} :
                           Fits(p, rows, o, r, g)}
    <2>1. GapSetup(p, o, c, g) # NoCell
      BY DEF Scanned
    <2>2. SlotsIn(p, rows, o, c, w, g) = {[row |-> r, lane |-> g.lane] : r \in wide}
      BY <2>1 DEF SlotsIn
    <2>3. wide = found
      BY DEF RowAt
    <2>. DEFINE slot(r) == [row |-> r, lane |-> g.lane]
    <2>4. \A r : slot(r).row = r
      OBVIOUS
    <2>5. SlotsIn(p, rows, o, c, w, g) = {slot(r) : r \in wide}
      BY <2>2
    <2>. HIDE DEF wide, found, slot
    <2>6. {a.row : a \in {slot(r) : r \in wide}} = wide
      BY <2>4
    <2>. QED
      BY <2>3, <2>5, <2>6
  <1>2. ASSUME NEW r \in found
        PROVE  \E s \in Good : r = RowFrom(p, o, c, w, g, s)
    <2>1. PICK s \in 0..p.horizon : \E e \in Ends(p, o, cals, s) : r = row(s, e)
      OBVIOUS
    <2>2. PICK e \in Ends(p, o, cals, s) : r = row(s, e)
      BY <2>1
    <2>3. s \in Nat
      BY ScannedTyped
    <2>4. s \in Good
      BY <2>2, <2>3 DEF FitStarts
    <2>. QED
      BY <2>2, <2>3, <2>4, RowFromIs
  <1>3. ASSUME NEW s \in Good
        PROVE  RowFrom(p, o, c, w, g, s) \in found
    <2>1. s \in Nat /\ s < p.horizon /\ p.horizon \in Nat
      BY FitStartsAre, ScannedTyped
    <2>2. PICK e \in Ends(p, o, cals, s) : Fits(p, rows, o, row(s, e), g)
      BY DEF FitStarts
    <2>3. s \in 0..p.horizon /\ RowFrom(p, o, c, w, g, s) = row(s, e)
      BY <2>1, <2>2, RowFromIs
    <2>. QED
      BY <2>2, <2>3
  <1>. HIDE DEF found, Good
  <1>. QED
    BY <1>1, <1>2, <1>3 DEF Good

\* The scan of a gap of the plan: the first row that fits, or no row.
LEMMA ScanIsRight ==
  ASSUME NEW p, NEW rows, NEW o, NEW c, NEW w, NEW g, Scanned(p, rows, o, c, w, g),
         FollowerHolds(p, rows, o, g)
  PROVE  LET found == Scan(p, rows, o, c, w, g)
             fits == {a.row : a \in SlotsIn(p, rows, o, c, w, g)}
         IN \/ found = {r \in fits : \A q \in fits : r.start <= q.start}
            \/ found = {} /\ ~Enough(p, rows, o, c, w)
  <1>. DEFINE Good == FitStarts(p, rows, o, c, w, g)
              row(s) == RowFrom(p, o, c, w, g, s)
              found == Scan(p, rows, o, c, w, g)
              fits == {row(s) : s \in Good}
              least == {r \in fits : \A q \in fits : r.start <= q.start}
  <1>1. {a.row : a \in SlotsIn(p, rows, o, c, w, g)} = fits
    BY RowsOfStarts
  <1>2. \A s : row(s).start = s
    BY DEF RowFrom, RowAt, Row
  <1>3. Good \subseteq Nat
    BY DEF FitStarts
  <1>4. \/ \E m \in Good : (\A x \in Good : m <= x) /\ found = {row(m)}
        \/ found = {} /\ (Enough(p, rows, o, c, w) => Good = {})
    BY ScanFindsFirst
  <1>. HIDE DEF Good, row, found
  <1>5. CASE \E m \in Good : (\A x \in Good : m <= x) /\ found = {row(m)}
    <2>1. PICK m \in Good : (\A x \in Good : m <= x) /\ found = {row(m)}
      BY <1>5
    <2>2. ASSUME NEW s \in Good
          PROVE  row(s) \in least <=> s = m
      <3>1. row(s) \in least <=> \A x \in Good : s <= x
        BY <1>2
      <3>2. (\A x \in Good : s <= x) <=> s = m
        BY <1>3, <2>1
      <3>. QED
        BY <3>1, <3>2
    <2>3. least = {row(m)}
      BY <2>2
    <2>. HIDE DEF fits, least
    <2>. QED
      BY <1>1, <2>1, <2>3 DEF least, found
  <1>6. CASE found = {} /\ (Enough(p, rows, o, c, w) => Good = {})
    <2>1. CASE Good = {}
      <3>1. least = {}
        BY <2>1
      <3>. HIDE DEF fits
      <3>. QED
        BY <1>1, <1>6, <3>1 DEF found
    <2>2. CASE ~Enough(p, rows, o, c, w)
      BY <1>6, <2>2 DEF found
    <2>. QED
      BY <1>6, <2>1, <2>2
  <1>. QED
    BY <1>4, <1>5, <1>6

\* Whatever the number of tries, a start that the walk does find is the least.
ScanFindsNoLater ==
  \A o \in Ready(problem, placed) :
    \A c \in problem.posts[o], w \in EligibleCrews(problem, o) :
      \A g \in Gaps(problem, placed, c) :
        LET fits == {a.row : a \in SlotsIn(problem, placed, o, c, w, g)}
            usable == /\ GapSetup(problem, o, c, g) # NoCell
                      /\ FollowerHolds(problem, placed, o, g)
            found == Scan(problem, placed, o, c, w, g)
        IN usable /\ found # {} => found = {r \in fits : \A q \in fits : r.start <= q.start}

\* The loop plans the card it was given.
LEMMA CardStays == Spec => [](problem \in Problems)
  <1>1. Init => problem \in Problems
    BY DEF Init
  <1>2. problem \in Problems /\ [Next]_vars => (problem \in Problems)'
    BY DEF Next, Place, Stop, vars
  <1>. QED
    BY <1>1, <1>2, PTL DEF Spec

\* _slot_from_lane: of a plan in the making, no jump of the cursor passes over a
\* start, however few tries it has; it can only run out of them.
THEOREM CursorPassesOverNone ==
  ASSUME \A p \in Problems : Scannable(p)
  PROVE  Spec => []ScanFindsNoLater
  <1>1. PlannerInv /\ problem \in Problems => ScanFindsNoLater
    <2>. SUFFICES ASSUME PlannerInv, problem \in Problems, NEW o \in Ready(problem, placed),
                         NEW c \in problem.posts[o], NEW w \in EligibleCrews(problem, o),
                         NEW g \in Gaps(problem, placed, c),
                         GapSetup(problem, o, c, g) # NoCell, FollowerHolds(problem, placed, o, g),
                         Scan(problem, placed, o, c, w, g) # {}
                  PROVE  LET fits == {a.row : a \in SlotsIn(problem, placed, o, c, w, g)}
                         IN Scan(problem, placed, o, c, w, g) = {r \in fits : \A q \in fits : r.start <= q.start}
      BY DEF ScanFindsNoLater
    <2>1. Scanned(problem, placed, o, c, w, g)
      BY DEF Scanned, PlannerInv
    <2>. QED
      BY <2>1, ScanIsRight
  <1>. QED
    BY <1>1, PlannerKeepsInv, CardStays, PTL

\* In the plan there are enough tries where there are for the frozen rows.
LEMMA TriesSufficeInPlan ==
  ASSUME PlannerInv, TriesSuffice(problem), NEW o \in problem.ops,
         NEW c \in problem.posts[o], NEW w \in EligibleCrews(problem, o)
  PROVE  Enough(problem, placed, o, c, w)
  <1>1. c \in DOMAIN problem.cap
    BY DEF PlannerInv, ProblemOk
  <1>2. ASSUME OneAtATime(problem, problem.frozen, c)
        PROVE  OneAtATime(problem, placed, c)
    <2>1. problem.cap[c] = 1 /\ ~Excess(placed, AtPost(placed, c), 1)
      BY <1>1, <1>2 DEF OneAtATime, PlannerInv, PostsWithinCapacity
    <2>2. ASSUME NEW q \in AtPost(placed, c)
          PROVE  OccStart(placed[q]) >= 0
      <3>1. CASE q \in DOMAIN problem.frozen
        BY <1>2, <3>1 DEF OneAtATime, PlannerInv, FrozenStay, AtPost
      <3>2. CASE q \notin DOMAIN problem.frozen
        BY <3>2 DEF PlannerInv, PlacedFitsAlone, FitsAlone, AtPost
      <3>. QED
        BY <3>1, <3>2
    <2>. QED
      BY <2>1, <2>2 DEF OneAtATime
  <1>. QED
    BY <1>2 DEF TriesSuffice, Enough

\* _slot_from_lane with _advance_calendar: where the calendars of a slot open fewer
\* times than it tries, and a post with one lane sees no more visits than that, the
\* walk finds the least start, and none just when there is none.
THEOREM ScanFindsTheLeastStart ==
  ASSUME \A p \in Problems : Scannable(p) /\ TriesSuffice(p)
  PROVE  Spec => []ScanFindsLeast
  <1>1. PlannerInv /\ problem \in Problems => ScanFindsLeast
    <2>. SUFFICES ASSUME PlannerInv, problem \in Problems, NEW o \in Ready(problem, placed),
                         NEW c \in problem.posts[o], NEW w \in EligibleCrews(problem, o),
                         NEW g \in Gaps(problem, placed, c),
                         GapSetup(problem, o, c, g) # NoCell, FollowerHolds(problem, placed, o, g)
                  PROVE  LET fits == {a.row : a \in SlotsIn(problem, placed, o, c, w, g)}
                         IN Scan(problem, placed, o, c, w, g) = {r \in fits : \A q \in fits : r.start <= q.start}
      BY DEF ScanFindsLeast
    <2>1. Scanned(problem, placed, o, c, w, g)
      BY DEF Scanned, PlannerInv
    <2>2. Enough(problem, placed, o, c, w)
      BY TriesSufficeInPlan DEF Ready
    <2>. QED
      BY <2>1, <2>2, ScanIsRight
  <1>. QED
    BY <1>1, PlannerKeepsInv, CardStays, PTL
==============================================================================
