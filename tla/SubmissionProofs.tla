-------------------------- MODULE SubmissionProofs --------------------------
(***************************************************************************)
(* The notary against the definition of a feasible plan by minutes and     *)
(* lanes, for every problem that model.py lets through and every plan that *)
(* can be written for it.                                                  *)
(***************************************************************************)
EXTENDS Submission, OperatorProofs, FunctionTheorems

-----------------------------------------------------------------------------
(***************************************************************************)
(* The sweep and the minutes.                                              *)
(***************************************************************************)
\* A minute that is over capacity tells of an arrival that is, and the other way.
LEMMA SweepFindsMinutes ==
  ASSUME NEW rows, NEW S, Timed(rows, S), NEW cap \in Nat
  PROVE  Excess(rows, S, cap) <=> \E t \in Int : Cardinality(LiveAt(rows, S, t)) > cap
  <1>1. ASSUME Excess(rows, S, cap)
        PROVE  \E t \in Int : Cardinality(LiveAt(rows, S, t)) > cap
    BY <1>1 DEF Excess, Timed
  <1>2. ASSUME NEW t \in Int, Cardinality(LiveAt(rows, S, t)) > cap
        PROVE  Excess(rows, S, cap)
    <2>. DEFINE L == LiveAt(rows, S, t)
                starts == {OccStart(rows[o]) : o \in L}
    <2>1. L \in SUBSET S /\ IsFiniteSet(L)
      BY FS_Subset DEF LiveAt, Timed
    <2>2. L # {}
      BY <1>2, FS_EmptySet
    <2>3. \A o \in L : OccStart(rows[o]) \in Int /\ rows[o].end \in Int
                       /\ OccStart(rows[o]) <= t /\ t < rows[o].end
      BY DEF LiveAt, Live, Timed
    <2>. HIDE DEF L
    <2>4. PICK m \in starts : \A x \in starts : x <= m
      <3>1. starts \in SUBSET Int /\ starts # {} /\ \A x \in starts : x <= t
        BY <2>2, <2>3
      <3>. HIDE DEF starts
      <3>. QED
        BY <3>1, GreatestInt
    <2>5. PICK o \in L : OccStart(rows[o]) = m
      OBVIOUS
    <2>6. \A q \in L : OccStart(rows[q]) <= m
      BY <2>4
    <2>7. m \in Int /\ Live(rows[o], m)
      BY <2>3, <2>5 DEF Live
    <2>8. L \in SUBSET LiveAt(rows, S, m)
      BY <2>1, <2>3, <2>6, <2>7 DEF LiveAt, Live
    <2>9. IsFiniteSet(LiveAt(rows, S, m))
      BY FS_Subset DEF LiveAt, Timed
    <2>10. Cardinality(LiveAt(rows, S, m)) > cap
      <3>1. Cardinality(L) > cap
        BY <1>2 DEF L
      <3>. QED
        BY <2>8, <2>9, <3>1, FewerRows
    <2>. QED
      BY <2>1, <2>5, <2>7, <2>10 DEF Excess
  <1>. QED
    BY <1>1, <1>2

\* More rows are no less over capacity.
LEMMA ExcessGrows ==
  ASSUME NEW rows, NEW S, Timed(rows, S), NEW T \in SUBSET S, NEW cap \in Nat,
         Excess(rows, T, cap)
  PROVE  Excess(rows, S, cap)
  <1>1. PICK o \in T : /\ Live(rows[o], OccStart(rows[o]))
                       /\ Cardinality(LiveAt(rows, T, OccStart(rows[o]))) > cap
    BY DEF Excess
  <1>. DEFINE t == OccStart(rows[o])
  <1>2. LiveAt(rows, T, t) \in SUBSET LiveAt(rows, S, t) /\ IsFiniteSet(LiveAt(rows, S, t))
    BY FS_Subset DEF LiveAt, Timed
  <1>3. Cardinality(LiveAt(rows, S, t)) > cap
    <2>. HIDE DEF t
    <2>1. Cardinality(LiveAt(rows, T, t)) > cap
      BY <1>1 DEF t
    <2>. QED
      BY <1>2, <2>1, FewerRows
  <1>. QED
    BY <1>1, <1>3 DEF Excess

-----------------------------------------------------------------------------
(***************************************************************************)
(* What a pass over the rows of a post knows of its lanes.                 *)
(***************************************************************************)
\* The rows S occupy time, lie after datetime.min, and name lanes or none.
Visits(rows, S) ==
  /\ Timed(rows, S)
  /\ \A o \in S : /\ OccStart(rows[o]) < rows[o].end
                  /\ OccStart(rows[o]) >= Dawn
                  /\ rows[o].lane \in Nat \cup {NoLane}

\* What is written for a row that is refused the lane it names.
Refusals == [lane : Nat, prev : {NoOp}, from : {""}, expected : {NoCell}, ambiguous : {TRUE}]

Apart(r, s) == r.end <= OccStart(s) \/ s.end <= OccStart(r)

\* The rows that a colouring has put on lane k.
OnLane(col, k) == {q \in DOMAIN col.at : col.at[q].lane = k}

\* Those of them that are over when row o arrives on its lane.
BeforeIn(rows, col, o) ==
  {q \in OnLane(col, col.at[o].lane) : rows[q].end <= OccStart(rows[o])}

\* The state from is that of the last row of E, or idle when there is none.
ComesFrom(p, rows, E, from) ==
  IF E = {} THEN from = Idle
  ELSE \E q \in E : (\A x \in E : rows[x].end <= rows[q].end) /\ from = p.state[q]

\* Lane k is free at the end of its last row and in its state, or untouched.
LaneTells(p, rows, col, k) ==
  LET l == col.lanes[k + 1]
  IN IF OnLane(col, k) = {} THEN l.free = Dawn /\ l.state = Idle
     ELSE \E q \in OnLane(col, k) :
            /\ l.free = rows[q].end /\ l.state = p.state[q]
            /\ \A x \in OnLane(col, k) : rows[x].end <= rows[q].end

\* A colouring of the rows T puts rows apart on lanes that the post has, and
\* tells what each of them was preceded by.
Tracks(p, c, rows, T, col) ==
  /\ Len(col.lanes) <= p.cap[c]
  /\ \A o \in DOMAIN col.at : col.at[o].lane \in 0..(Len(col.lanes) - 1)
  /\ \A k \in 0..(Len(col.lanes) - 1) : LaneTells(p, rows, col, k)
  /\ \A o, q \in DOMAIN col.at :
       o # q /\ col.at[o].lane = col.at[q].lane => Apart(rows[o], rows[q])
  /\ \A o \in DOMAIN col.at :
       /\ ComesFrom(p, rows, BeforeIn(rows, col, o), col.at[o].from)
       /\ col.at[o].expected = Cell(p, c, col.at[o].from, p.state[o])
  /\ col.overflow => Excess(rows, T, p.cap[c])

Sure(col) == \A o \in DOMAIN col.at : ~col.at[o].ambiguous

\* A row that is put on a lane which is free when it arrives, after all that
\* were handled before it, is tracked with them.
LEMMA TakeTracks ==
  ASSUME NEW p, NEW c, p.cap[c] \in Nat, NEW rows, NEW S, Visits(rows, S), NEW T \in SUBSET S, NEW X,
         NEW o \in S, o \notin T, \A q \in T : OccStart(rows[q]) <= OccStart(rows[o]),
         NEW k \in Nat, NEW amb \in BOOLEAN,
         NEW acc \in Colourings(p, c, S, T, X), Tracks(p, c, rows, T, acc),
         IF k < Len(acc.lanes) THEN acc.lanes[k + 1].free <= OccStart(rows[o])
                               ELSE k = Len(acc.lanes) /\ k < p.cap[c]
  PROVE  Tracks(p, c, rows, T \cup {o}, Take(p, c, rows, o, k, amb, acc))
  <1>. DEFINE new  == Take(p, c, rows, o, k, amb, acc)
              from == IF k < Len(acc.lanes) THEN acc.lanes[k + 1].state ELSE Idle
              n    == Len(acc.lanes)
              D    == DOMAIN acc.at
              E    == OnLane(acc, k)
  <1>1. /\ new.overflow = acc.overflow
        /\ Len(new.lanes) = IF k < n THEN n ELSE n + 1
        /\ new.lanes[k + 1].free = rows[o].end /\ new.lanes[k + 1].state = p.state[o]
        /\ \A j \in 0..(n - 1) : j # k => new.lanes[j + 1] = acc.lanes[j + 1]
        /\ DOMAIN new.at = D \cup {o}
        /\ new.at[o].lane = k /\ new.at[o].from = from /\ new.at[o].ambiguous = amb
        /\ new.at[o].expected = Cell(p, c, from, p.state[o])
        /\ \A q \in D : q # o => new.at[q] = acc.at[q]
    <2>. HIDE DEF new
    <2>1. k <= Len(acc.lanes) /\ Timed(rows, S)
      BY DEF Colourings, Visits
    <2>2. PutOn(p, c, rows, o, k, amb, acc, new)
      BY <2>1, TakePutsOn DEF new
    <2>. QED
      BY <2>2 DEF PutOn
  <1>2. n \in Nat /\ D \subseteq T /\ o \notin D /\ k \in 0..n
    BY DEF Colourings
  <1>3. \A q \in S : /\ OccStart(rows[q]) \in Int /\ rows[q].end \in Int
                     /\ OccStart(rows[q]) < rows[q].end
    BY DEF Visits, Timed
  <1>. HIDE DEF new, from, n, D
  <1>4. /\ n <= p.cap[c]
        /\ \A q \in D : acc.at[q].lane \in 0..(n - 1)
        /\ \A j \in 0..(n - 1) : LaneTells(p, rows, acc, j)
        /\ \A a, q \in D : a # q /\ acc.at[a].lane = acc.at[q].lane => Apart(rows[a], rows[q])
        /\ \A a \in D : /\ ComesFrom(p, rows, BeforeIn(rows, acc, a), acc.at[a].from)
                        /\ acc.at[a].expected = Cell(p, c, acc.at[a].from, p.state[a])
        /\ acc.overflow => Excess(rows, T, p.cap[c])
    BY DEF Tracks, n, D
  <1>5. /\ OnLane(new, k) = E \cup {o}
        /\ \A j \in 0..n : j # k => OnLane(new, j) = OnLane(acc, j)
        /\ E \subseteq D
    BY <1>1, <1>2 DEF OnLane, D
  <1>6. IF E = {} THEN from = Idle
        ELSE \E q \in E : from = p.state[q] /\ \A x \in E : rows[x].end <= rows[q].end
    <2>1. CASE k < n
      BY <1>2, <1>4, <2>1 DEF LaneTells, from, n
    <2>2. CASE ~(k < n)
      BY <1>2, <1>4, <2>2 DEF OnLane, D, from, n
    <2>. QED
      BY <2>1, <2>2
  <1>7. \A x \in E : rows[x].end <= OccStart(rows[o]) /\ x # o /\ x \in S
    <2>1. CASE k < n
      BY <1>2, <1>3, <1>4, <1>5, <2>1 DEF LaneTells, n
    <2>2. CASE ~(k < n)
      BY <1>2, <1>4, <2>2 DEF OnLane, D
    <2>. QED
      BY <2>1, <2>2
  <1>8. Len(new.lanes) <= p.cap[c]
    BY <1>1, <1>2, <1>4 DEF n
  <1>9. ASSUME NEW q \in DOMAIN new.at
        PROVE  new.at[q].lane \in 0..(Len(new.lanes) - 1)
    <2>1. CASE q = o
      BY <1>1, <1>2, <2>1
    <2>2. CASE q # o
      BY <1>1, <1>2, <1>4, <2>2
    <2>. QED
      BY <2>1, <2>2
  <1>10. ASSUME NEW j \in 0..(Len(new.lanes) - 1)
         PROVE  LaneTells(p, rows, new, j)
    <2>1. CASE j = k
      <3>1. \A x \in E \cup {o} : rows[x].end <= rows[o].end
        BY <1>2, <1>3, <1>7
      <3>. QED
        BY <1>1, <1>5, <2>1, <3>1 DEF LaneTells
    <2>2. CASE j # k
      <3>1. j \in 0..(n - 1)
        BY <1>1, <1>2, <2>2
      <3>2. LaneTells(p, rows, acc, j) /\ OnLane(new, j) = OnLane(acc, j) /\ new.lanes[j + 1] = acc.lanes[j + 1]
        BY <1>1, <1>2, <1>4, <1>5, <2>2, <3>1
      <3>. QED
        BY <3>2 DEF LaneTells
    <2>. QED
      BY <2>1, <2>2
  <1>11. ASSUME NEW a \in DOMAIN new.at, NEW q \in DOMAIN new.at, a # q, new.at[a].lane = new.at[q].lane
         PROVE  Apart(rows[a], rows[q])
    <2>1. CASE a = o
      <3>1. q \in E
        BY <1>1, <1>11, <2>1 DEF OnLane, D
      <3>. QED
        BY <1>7, <2>1, <3>1 DEF Apart
    <2>2. CASE q = o
      <3>1. a \in E
        BY <1>1, <1>11, <2>2 DEF OnLane, D
      <3>. QED
        BY <1>7, <2>2, <3>1 DEF Apart
    <2>3. CASE a # o /\ q # o
      BY <1>1, <1>4, <1>11, <2>3
    <2>. QED
      BY <2>1, <2>2, <2>3
  <1>12. ASSUME NEW a \in DOMAIN new.at
         PROVE  /\ ComesFrom(p, rows, BeforeIn(rows, new, a), new.at[a].from)
                /\ new.at[a].expected = Cell(p, c, new.at[a].from, p.state[a])
    <2>1. CASE a = o
      <3>1. BeforeIn(rows, new, o) = E
        BY <1>1, <1>3, <1>5, <1>7 DEF BeforeIn
      <3>. QED
        BY <1>1, <1>6, <2>1, <3>1 DEF ComesFrom
    <2>2. CASE a # o
      <3>1. a \in D /\ new.at[a] = acc.at[a] /\ acc.at[a].lane \in 0..(n - 1)
        BY <1>1, <1>4, <2>2
      <3>2. ~(rows[o].end <= OccStart(rows[a]))
        BY <1>2, <1>3, <3>1
      <3>3. BeforeIn(rows, new, a) = BeforeIn(rows, acc, a)
        <4>1. \A j \in 0..n : OnLane(new, j) \ {o} = OnLane(acc, j)
          BY <1>5, <1>7, <1>2 DEF OnLane, D
        <4>. QED
          BY <1>2, <3>1, <3>2, <4>1 DEF BeforeIn
      <3>. QED
        BY <1>4, <3>1, <3>3
    <2>. QED
      BY <2>1, <2>2
  <1>13. new.overflow => Excess(rows, T \cup {o}, p.cap[c])
    <2>1. Timed(rows, T \cup {o}) /\ T \in SUBSET (T \cup {o})
      BY FS_Subset DEF Visits, Timed
    <2>. QED
      BY <1>1, <1>4, <2>1, ExcessGrows
  <1>14. Tracks(p, c, rows, T \cup {o}, new)
    BY <1>8, <1>9, <1>10, <1>11, <1>12, <1>13 DEF Tracks
  <1>. QED
    BY <1>14 DEF new

\* The last row of a post arrives after all the others.
LEMMA LastArrives ==
  ASSUME NEW rows, NEW S, Timed(rows, S), NEW T \in SUBSET S, T # {}
  PROVE  LET o == LastOf(rows, T)
         IN /\ o \in S /\ o \in T /\ (T \ {o}) \cup {o} = T
            /\ \A q \in T \ {o} : OccStart(rows[q]) <= OccStart(rows[o])
  <1>. DEFINE o == LastOf(rows, T)
  <1>1. o \in T /\ \A q \in T \ {o} : Before(rows, q, o)
    BY LastIsOneOf
  <1>. HIDE DEF o
  <1>2. \A q \in T : OccStart(rows[q]) \in Int
    BY DEF Timed
  <1>3. o \in S /\ o \in T /\ (T \ {o}) \cup {o} = T
        /\ \A q \in T \ {o} : OccStart(rows[q]) <= OccStart(rows[o])
    BY <1>1, <1>2 DEF Before
  <1>. QED
    BY <1>3 DEF o

\* Before the first row every lane that is open is untouched.
LEMMA StartTracks ==
  ASSUME NEW p, NEW c, p.cap[c] \in Nat, NEW rows, NEW S
  PROVE  LET col == StartColouring(p, c, rows, S)
         IN /\ Tracks(p, c, rows, {}, col) /\ DOMAIN col.at = {} /\ ~col.overflow
            /\ IsExplicit(p, c, rows, S) => Len(col.lanes) = p.cap[c]
  <1>. DEFINE col == StartColouring(p, c, rows, S)
              lanes == IF IsExplicit(p, c, rows, S) THEN [k \in 1..p.cap[c] |-> IdleLane] ELSE <<>>
              at == [o \in {} |-> {}]
  <1>1. col = [lanes |-> lanes, at |-> at, overflow |-> FALSE]
    BY DEF EmptyColouring, StartColouring
  <1>2. col.lanes = lanes /\ col.at = at /\ ~col.overflow
    <2>. HIDE DEF lanes, at, col
    <2>. QED
      BY <1>1
  <1>3. DOMAIN col.at = {}
    <2>. HIDE DEF col
    <2>. QED
      BY <1>2
  <1>4. /\ Len(lanes) = IF IsExplicit(p, c, rows, S) THEN p.cap[c] ELSE 0
        /\ \A k \in 0..(Len(lanes) - 1) : lanes[k + 1].free = Dawn /\ lanes[k + 1].state = Idle
    BY DEF IdleLane
  <1>. HIDE DEF lanes, at, col
  <1>5. Tracks(p, c, rows, {}, col)
    BY <1>2, <1>3, <1>4 DEF Tracks, LaneTells, OnLane
  <1>. QED
    BY <1>2, <1>3, <1>4, <1>5 DEF col

-----------------------------------------------------------------------------
(***************************************************************************)
(* Rows that all name their lanes.                                         *)
(***************************************************************************)
\* The lanes that the rows name exist, and no two rows meet on one.
NamedApart(rows, S, cap) ==
  /\ \A o \in S : rows[o].lane \in 0..(cap - 1)
  /\ \A o, q \in S : o # q /\ rows[o].lane = rows[q].lane => Apart(rows[o], rows[q])

\* A colouring of the rows T that has followed the lanes they name.
FollowsNames(p, c, rows, S, T) ==
  {col \in Colourings(p, c, S, T, Refusals) :
     /\ Len(col.lanes) = p.cap[c] /\ ~col.overflow
     /\ \A o \in DOMAIN col.at : col.at[o].lane = rows[o].lane
     /\ Sure(col) => Tracks(p, c, rows, T, col)
     /\ NamedApart(rows, S, p.cap[c]) => Sure(col)}

\* A row that is refused its lane is written down as such, and nothing else changes.
Refused(acc, o, k) ==
  [acc EXCEPT !.at = With(@, o, [lane |-> k, prev |-> NoOp, from |-> "",
                                 expected |-> NoCell, ambiguous |-> TRUE])]

RefusedIn(p, c, S, T, o, k, acc, new) ==
  /\ new \in Colourings(p, c, S, T \cup {o}, Refusals)
  /\ new.lanes = acc.lanes /\ new.overflow = acc.overflow
  /\ ~Sure(new) /\ new.at[o].lane = k
  /\ \A q \in DOMAIN new.at : q # o => q \in DOMAIN acc.at /\ new.at[q] = acc.at[q]

LEMMA RefusalTyped ==
  ASSUME NEW p, NEW c, NEW S, NEW T \in SUBSET S, NEW o \in S, NEW k \in Nat,
         NEW acc \in Colourings(p, c, S, T, Refusals)
  PROVE  RefusedIn(p, c, S, T, o, k, acc, Refused(acc, o, k))
  <1>. DEFINE L == LanesOf(p, S)
              P == Put(p, c, S) \cup Refusals
              put == [lane |-> k, prev |-> NoOp, from |-> "", expected |-> NoCell, ambiguous |-> TRUE]
              at == With(acc.at, o, put)
              new == Refused(acc, o, k)
  <1>1. /\ acc = [lanes |-> acc.lanes, at |-> acc.at, overflow |-> acc.overflow]
        /\ acc.lanes \in Seq(L) /\ acc.overflow \in BOOLEAN
        /\ DOMAIN acc.at \subseteq T /\ acc.at \in [DOMAIN acc.at -> P]
        /\ ~acc.overflow => DOMAIN acc.at = T
    <2>. HIDE DEF L, P
    <2>. QED
      BY DEF Colourings, L, P
  <1>2. put \in P /\ put.ambiguous /\ put.lane = k
    BY DEF Refusals
  <1>3. new = [lanes |-> acc.lanes, at |-> at, overflow |-> acc.overflow]
    <2>. HIDE DEF put, at, new
    <2>1. new = [acc EXCEPT !.at = at]
      BY DEF Refused, put, at, new
    <2>. QED
      BY <1>1, <2>1
  <1>. HIDE DEF L, P, put, new
  <1>4. /\ DOMAIN at = DOMAIN acc.at \cup {o}
        /\ at \in [DOMAIN at -> P] /\ at[o] = put
        /\ \A q \in DOMAIN acc.at : q # o => at[q] = acc.at[q]
    <2>1. at = [q \in DOMAIN acc.at \cup {o} |-> IF q = o THEN put ELSE acc.at[q]]
      BY DEF With
    <2>2. \A q \in DOMAIN acc.at : acc.at[q] \in P
      BY <1>1
    <2>. HIDE DEF at
    <2>. QED
      BY <1>2, <2>1, <2>2
  <1>. HIDE DEF at
  <1>5. new.lanes = acc.lanes /\ new.at = at /\ new.overflow = acc.overflow
    BY <1>3
  <1>6. new \in [lanes : Seq(L), at : UNION {[U -> P] : U \in SUBSET (T \cup {o})}, overflow : BOOLEAN]
    <2>1. DOMAIN at \in SUBSET (T \cup {o})
      BY <1>1, <1>4
    <2>2. at \in UNION {[U -> P] : U \in SUBSET (T \cup {o})}
      BY <1>4, <2>1
    <2>. QED
      BY <1>1, <1>3, <2>2
  <1>7. new \in Colourings(p, c, S, T \cup {o}, Refusals)
    BY <1>1, <1>4, <1>5, <1>6 DEF Colourings, L, P
  <1>8. ~Sure(new)
    BY <1>2, <1>4, <1>5 DEF Sure
  <1>9. RefusedIn(p, c, S, T, o, k, acc, new)
    BY <1>2, <1>4, <1>5, <1>7, <1>8 DEF RefusedIn
  <1>. QED
    BY <1>9 DEF new

\* A row that keeps apart from those of its lane is not refused.
LEMMA ApartIsFree ==
  ASSUME NEW p, NEW c, p.cap[c] \in Nat, NEW rows, NEW S, Visits(rows, S), NEW T \in SUBSET S,
         NEW o \in S, o \notin T, \A q \in T : OccStart(rows[q]) <= OccStart(rows[o]),
         NEW acc \in FollowsNames(p, c, rows, S, T), NamedApart(rows, S, p.cap[c])
  PROVE  rows[o].lane < p.cap[c] /\ acc.lanes[rows[o].lane + 1].free <= OccStart(rows[o])
  <1>. DEFINE k == rows[o].lane
  <1>1. k \in 0..(p.cap[c] - 1) /\ Len(acc.lanes) = p.cap[c]
    BY DEF NamedApart, FollowsNames
  <1>2. LaneTells(p, rows, acc, k)
    BY <1>1 DEF FollowsNames, Tracks
  <1>3. OnLane(acc, k) \subseteq T /\ \A q \in OnLane(acc, k) : rows[q].lane = k
    BY DEF OnLane, FollowsNames, Colourings
  <1>4. \A q \in S : /\ OccStart(rows[q]) \in Int /\ rows[q].end \in Int
                     /\ OccStart(rows[q]) < rows[q].end /\ Dawn <= OccStart(rows[q])
    BY DEF Visits, Timed, Dawn
  <1>5. acc.lanes[k + 1].free <= OccStart(rows[o])
    <2>1. CASE OnLane(acc, k) = {}
      BY <1>2, <1>4, <2>1 DEF LaneTells
    <2>2. CASE OnLane(acc, k) # {}
      <3>1. PICK q \in OnLane(acc, k) : acc.lanes[k + 1].free = rows[q].end
        BY <1>2, <2>2 DEF LaneTells
      <3>2. q \in T /\ q # o /\ rows[q].lane = rows[o].lane
        BY <1>3
      <3>3. Apart(rows[q], rows[o])
        BY <3>2 DEF NamedApart
      <3>. QED
        BY <1>4, <3>1, <3>2, <3>3 DEF Apart
    <2>. QED
      BY <2>1, <2>2
  <1>. QED
    BY <1>1, <1>5

\* One row is handled.
LEMMA ExplicitFollows ==
  ASSUME NEW p, NEW c, p.cap[c] \in Nat, NEW rows, NEW S, Visits(rows, S), NEW T \in SUBSET S,
         NEW o \in S, o \notin T, \A q \in T : OccStart(rows[q]) <= OccStart(rows[o]),
         rows[o].lane \in Nat,
         NEW acc \in FollowsNames(p, c, rows, S, T)
  PROVE  ExplicitStep(p, c, rows, o, acc) \in FollowsNames(p, c, rows, S, T \cup {o})
  <1>. DEFINE k == rows[o].lane
              new == ExplicitStep(p, c, rows, o, acc)
              refused == k >= p.cap[c] \/ acc.lanes[k + 1].free > OccStart(rows[o])
  <1>1. /\ acc \in Colourings(p, c, S, T, Refusals)
        /\ Len(acc.lanes) = p.cap[c] /\ ~acc.overflow
        /\ \A q \in DOMAIN acc.at : acc.at[q].lane = rows[q].lane
        /\ Sure(acc) => Tracks(p, c, rows, T, acc)
        /\ NamedApart(rows, S, p.cap[c]) => Sure(acc)
    BY DEF FollowsNames
  <1>2. DOMAIN acc.at = T /\ Timed(rows, S)
    BY <1>1 DEF Colourings, Visits
  <1>3. acc.lanes \in Seq(LanesOf(p, S)) /\ OccStart(rows[o]) \in Int
        /\ \A l \in LanesOf(p, S) : l.free \in Int
    BY <1>1, <1>2 DEF Colourings, LanesOf, Timed
  <1>6. new = IF refused THEN Refused(acc, o, k) ELSE Take(p, c, rows, o, k, FALSE, acc)
    BY DEF ExplicitStep, Refused
  <1>4. CASE refused
    <2>1. /\ new \in Colourings(p, c, S, T \cup {o}, Refusals)
          /\ new.lanes = acc.lanes /\ new.overflow = acc.overflow
          /\ ~Sure(new) /\ new.at[o].lane = k
          /\ \A q \in DOMAIN new.at : q # o => q \in DOMAIN acc.at /\ new.at[q] = acc.at[q]
      <3>. HIDE DEF new, refused
      <3>1. new = Refused(acc, o, k)
        BY <1>4, <1>6
      <3>. HIDE DEF k
      <3>2. k \in Nat
        BY DEF k
      <3>3. acc \in Colourings(p, c, S, T, Refusals)
        BY <1>1
      <3>4. RefusedIn(p, c, S, T, o, k, acc, new)
        BY <3>1, <3>2, <3>3, RefusalTyped
      <3>. QED
        BY <3>4 DEF RefusedIn
    <2>2. ~NamedApart(rows, S, p.cap[c])
      <3>1. SUFFICES ASSUME NamedApart(rows, S, p.cap[c]) PROVE FALSE
        OBVIOUS
      <3>2. k < p.cap[c] /\ acc.lanes[k + 1].free <= OccStart(rows[o])
        BY <3>1, ApartIsFree
      <3>3. acc.lanes[k + 1].free \in Int
        <4>1. k + 1 \in 1..Len(acc.lanes)
          BY <1>1, <3>2
        <4>. QED
          BY <1>3, <4>1
      <3>. QED
        BY <1>3, <1>4, <3>2, <3>3
    <2>. HIDE DEF new
    <2>3. /\ Len(new.lanes) = p.cap[c] /\ ~new.overflow
          /\ \A q \in DOMAIN new.at : new.at[q].lane = rows[q].lane
          /\ ~Sure(new)
      BY <1>1, <2>1
    <2>4. new \in FollowsNames(p, c, rows, S, T \cup {o})
      BY <2>1, <2>2, <2>3 DEF FollowsNames
    <2>. QED
      BY <2>4 DEF new
  <1>5. CASE ~refused
    <2>1. k < Len(acc.lanes) /\ acc.lanes[k + 1].free <= OccStart(rows[o])
      <3>1. k < Len(acc.lanes)
        BY <1>1, <1>5
      <3>2. acc.lanes[k + 1] \in LanesOf(p, S)
        BY <1>3, <3>1
      <3>3. acc.lanes[k + 1].free \in Int
        BY <1>3, <3>2
      <3>. QED
        BY <1>3, <1>5, <3>1, <3>3
    <2>2. new = Take(p, c, rows, o, k, FALSE, acc)
      <3>. HIDE DEF new, refused
      <3>. QED
        BY <1>5, <1>6
    <2>. HIDE DEF new, refused
    <2>3. new \in Colourings(p, c, S, T \cup {o}, Refusals) /\ PutOn(p, c, rows, o, k, FALSE, acc, new)
      <3>1. PICK amb \in BOOLEAN : ~amb
        OBVIOUS
      <3>2. amb = FALSE
        BY <3>1
      <3>3. new = Take(p, c, rows, o, k, amb, acc)
        BY <2>2, <3>2, Zenon
      <3>. HIDE DEF k
      <3>4. k \in Nat /\ k <= Len(acc.lanes)
        BY <1>1, <2>1 DEF k
      <3>5. new \in Colourings(p, c, S, T \cup {o}, Refusals)
        BY <1>1, <1>2, <3>3, <3>4, TakeTyped
      <3>6. PutOn(p, c, rows, o, k, amb, acc, new)
        BY <1>1, <1>2, <3>3, <3>4, TakePutsOn
      <3>. QED
        BY <3>2, <3>5, <3>6, Zenon
    <2>4. /\ Len(new.lanes) = p.cap[c] /\ ~new.overflow
          /\ \A q \in DOMAIN new.at : new.at[q].lane = rows[q].lane
          /\ Sure(new) <=> Sure(acc)
      BY <1>1, <1>2, <2>1, <2>3 DEF PutOn, Sure
    <2>5. Sure(new) => Tracks(p, c, rows, T \cup {o}, new)
      BY <1>1, <2>1, <2>2, <2>4, TakeTracks
    <2>6. new \in FollowsNames(p, c, rows, S, T \cup {o})
      BY <1>1, <2>3, <2>4, <2>5 DEF FollowsNames
    <2>. QED
      BY <2>6 DEF new
  <1>. QED
    BY <1>4, <1>5

\* All rows are handled.
LEMMA ExplicitPass ==
  ASSUME NEW p, NEW c, p.cap[c] \in Nat, NEW rows, NEW S, Visits(rows, S),
         IsExplicit(p, c, rows, S)
  PROVE  ColourLanes(p, c, rows, S) \in FollowsNames(p, c, rows, S, S)
  <1>. DEFINE A == [T \in SUBSET S |-> FollowsNames(p, c, rows, S, T)]
  <1>1. Timed(rows, S) /\ \A o \in S : rows[o].lane \in Nat
    BY DEF Visits, IsExplicit
  <1>2. StartColouring(p, c, rows, S) \in FollowsNames(p, c, rows, S, {})
    <2>. DEFINE col == StartColouring(p, c, rows, S)
    <2>1. /\ Tracks(p, c, rows, {}, col) /\ DOMAIN col.at = {} /\ ~col.overflow
          /\ Len(col.lanes) = p.cap[c]
      BY StartTracks
    <2>2. col \in Colourings(p, c, S, {}, Refusals)
      BY StartTyped
    <2>. HIDE DEF col
    <2>3. col \in FollowsNames(p, c, rows, S, {})
      BY <2>1, <2>2 DEF FollowsNames, Sure
    <2>. QED
      BY <2>3 DEF col
  <1>3. ASSUME NEW T \in SUBSET S, T # {}, NEW acc \in A[T \ {LastOf(rows, T)}]
        PROVE  ColourStep(p, c, rows, S, LastOf(rows, T), acc) \in A[T]
    <2>. DEFINE o == LastOf(rows, T)
                U == T \ {o}
    <2>1. o \in S /\ o \in T /\ U \cup {o} = T /\ \A q \in U : OccStart(rows[q]) <= OccStart(rows[o])
      BY <1>1, <1>3, LastArrives
    <2>2. acc \in FollowsNames(p, c, rows, S, U)
      <3>. HIDE DEF o
      <3>. QED
        BY <1>3 DEF o
    <2>3. ColourStep(p, c, rows, S, o, acc) = ExplicitStep(p, c, rows, o, acc)
      BY DEF ColourStep
    <2>4. o \notin U /\ U \in SUBSET S /\ rows[o].lane \in Nat
      <3>. HIDE DEF o
      <3>. QED
        BY <1>1, <1>3, <2>1
    <2>. HIDE DEF o, U
    <2>5. ExplicitStep(p, c, rows, o, acc) \in FollowsNames(p, c, rows, S, U \cup {o})
      BY <2>1, <2>2, <2>4, ExplicitFollows
    <2>6. ColourStep(p, c, rows, S, o, acc) \in FollowsNames(p, c, rows, S, T)
      BY <2>1, <2>3, <2>5
    <2>. QED
      BY <2>6 DEF o
  <1>4. StaysColoured(p, c, rows, S, A)
    <2>1. StartColouring(p, c, rows, S) \in A[{}]
      BY <1>2
    <2>. HIDE DEF A
    <2>. QED
      BY <1>3, <2>1 DEF StaysColoured
  <1>5. ColourLanes(p, c, rows, S) \in A[S]
    <2>. HIDE DEF A
    <2>. QED
      BY <1>1, <1>4, ColouringStaysIn
  <1>. QED
    BY <1>5

-----------------------------------------------------------------------------
(***************************************************************************)
(* Rows that name no lanes, or not all.                                    *)
(***************************************************************************)
\* A row for which no lane is left arrives when every lane has a row on it.
LEMMA NoLaneLeft ==
  ASSUME NEW p, NEW c, p.cap[c] \in Nat, NEW rows, NEW S, Visits(rows, S), NEW T \in SUBSET S, NEW X,
         NEW o \in S, o \notin T, \A q \in T : OccStart(rows[q]) <= OccStart(rows[o]),
         NEW acc \in Colourings(p, c, S, T, X), Tracks(p, c, rows, T, acc),
         Reusable(acc, OccStart(rows[o])) = {}, ~(Len(acc.lanes) < p.cap[c])
  PROVE  Excess(rows, T \cup {o}, p.cap[c])
  <1>. DEFINE t == OccStart(rows[o])
              n == p.cap[c]
              busy(k, q) == q \in OnLane(acc, k) /\ Live(rows[q], t)
              f == [k \in 0..n |-> IF k = n THEN o ELSE CHOOSE q : busy(k, q)]
              V == LiveAt(rows, T \cup {o}, t)
  <1>1. /\ acc.lanes \in Seq(LanesOf(p, S)) /\ DOMAIN acc.at \subseteq T /\ n \in Nat
        /\ \A l \in LanesOf(p, S) : l.free \in Int
    BY DEF Colourings, LanesOf
  <1>2. Len(acc.lanes) = n
    BY <1>1 DEF Tracks
  <1>3. \A q \in S : /\ OccStart(rows[q]) \in Int /\ rows[q].end \in Int
                     /\ OccStart(rows[q]) < rows[q].end /\ Dawn <= OccStart(rows[q])
    BY DEF Visits, Timed, Dawn
  <1>4. ASSUME NEW k \in 0..(n - 1)
        PROVE  \E q : busy(k, q)
    <2>1. k + 1 \in 1..Len(acc.lanes) /\ k \in 0..(Len(acc.lanes) - 1)
      BY <1>1, <1>2
    <2>2. acc.lanes[k + 1].free \in Int
      BY <1>1, <2>1
    <2>3. t < acc.lanes[k + 1].free
      <3>1. k \notin Reusable(acc, t) /\ t \in Int
        BY <1>3
      <3>. HIDE DEF t
      <3>. QED
        BY <2>1, <2>2, <3>1 DEF Reusable
    <2>4. LaneTells(p, rows, acc, k)
      BY <2>1 DEF Tracks
    <2>5. OnLane(acc, k) # {}
      BY <1>3, <2>2, <2>3, <2>4 DEF LaneTells
    <2>6. PICK q \in OnLane(acc, k) : acc.lanes[k + 1].free = rows[q].end
      BY <2>4, <2>5 DEF LaneTells
    <2>7. q \in T
      BY <1>1 DEF OnLane
    <2>8. Live(rows[q], t)
      BY <1>3, <2>3, <2>6, <2>7 DEF Live
    <2>. QED
      BY <2>6, <2>8
  <1>5. \A k \in 0..(n - 1) : f[k] \in OnLane(acc, k) /\ Live(rows[f[k]], t)
    BY <1>1, <1>4
  <1>6. f[n] = o /\ Live(rows[o], t)
    BY <1>1, <1>3 DEF Live
  <1>. HIDE DEF f, t, n
  <1>7. \A k \in 0..(n - 1) : f[k] \in T /\ acc.at[f[k]].lane = k
    BY <1>1, <1>5 DEF OnLane
  <1>8. \A k \in 0..n : k = n \/ k \in 0..(n - 1)
    BY <1>1
  <1>9. f \in Injection(0..n, V)
    <2>1. f \in [0..n -> V]
      <3>1. \A k \in 0..n : f[k] \in V
        BY <1>5, <1>6, <1>7, <1>8 DEF LiveAt
      <3>. HIDE DEF V
      <3>. QED
        BY <3>1 DEF f
    <2>2. \A j, k \in 0..n : f[j] = f[k] => j = k
      BY <1>6, <1>7, <1>8
    <2>. HIDE DEF V
    <2>. QED
      BY <2>1, <2>2, Fun_IsInj
  <1>10. IsFiniteSet(V)
    <2>1. IsFiniteSet(S) /\ V \in SUBSET S
      BY DEF Visits, Timed, LiveAt
    <2>. QED
      BY <2>1, FS_Subset
  <1>11. Cardinality(V) > n
    <2>. HIDE DEF V
    <2>1. Cardinality(0..n) <= Cardinality(V)
      BY <1>9, <1>10, FS_Injection
    <2>2. Cardinality(0..n) = n + 1
      BY <1>1, FS_Interval
    <2>. QED
      BY <1>1, <1>10, <2>1, <2>2, FS_CardinalityType
  <1>. QED
    BY <1>6, <1>11 DEF Excess, t, n

\* A colouring of the rows T that has guessed their lanes.
Guesses(p, c, rows, S, T) ==
  {col \in Colourings(p, c, S, T, {}) :
     /\ Tracks(p, c, rows, T, col)
     /\ IsMixed(p, c, rows, S) => \A o \in DOMAIN col.at : col.at[o].ambiguous
     /\ p.cap[c] = 1 => Sure(col)}

\* One row is handled.
LEMMA ImplicitGuesses ==
  ASSUME NEW p, NEW c, p.cap[c] \in Nat, NEW rows, NEW S, Visits(rows, S), NEW T \in SUBSET S,
         NEW o \in S, o \notin T, \A q \in T : OccStart(rows[q]) <= OccStart(rows[o]),
         NEW acc \in Guesses(p, c, rows, S, T)
  PROVE  ImplicitStep(p, c, rows, o, IsMixed(p, c, rows, S), acc) \in Guesses(p, c, rows, S, T \cup {o})
  <1>. DEFINE occ  == OccStart(rows[o])
              guess == IsMixed(p, c, rows, S)
              free == Reusable(acc, occ)
              best == CHOOSE k \in free : \A j \in free :
                        \/ acc.lanes[k + 1].free < acc.lanes[j + 1].free
                        \/ acc.lanes[k + 1].free = acc.lanes[j + 1].free /\ k <= j
              unsure == guess \/ Cardinality(CandidateStates(p, c, acc, occ)) > 1
              new == ImplicitStep(p, c, rows, o, guess, acc)
  <1>1. /\ acc \in Colourings(p, c, S, T, {}) /\ Tracks(p, c, rows, T, acc)
        /\ guess => \A q \in DOMAIN acc.at : acc.at[q].ambiguous
        /\ p.cap[c] = 1 => Sure(acc)
    BY DEF Guesses
  <1>2. /\ acc.lanes \in Seq(LanesOf(p, S)) /\ Len(acc.lanes) \in Nat
        /\ \A l \in LanesOf(p, S) : l.free \in Int
        /\ DOMAIN acc.at \subseteq T /\ Timed(rows, S)
    BY <1>1 DEF Colourings, LanesOf, Visits
  <1>3. unsure \in BOOLEAN /\ guess \in BOOLEAN
    BY DEF IsMixed
  <1>4. p.cap[c] = 1 => ~unsure
    BY <1>1, <1>2, OneLaneIsSure DEF IsMixed, Tracks
  <1>5. new = IF free # {} THEN Take(p, c, rows, o, best, unsure, acc)
              ELSE IF Len(acc.lanes) < p.cap[c]
                   THEN Take(p, c, rows, o, Len(acc.lanes), unsure, acc)
                   ELSE [acc EXCEPT !.overflow = TRUE]
    BY DEF ImplicitStep
  <1>6. new \in Colourings(p, c, S, T \cup {o}, {})
    <2>. HIDE DEF new, guess
    <2>. QED
      BY <1>1, <1>2, <1>3, ImplicitTyped DEF new
  <1>7. ASSUME NEW k \in Nat, new = Take(p, c, rows, o, k, unsure, acc),
               IF k < Len(acc.lanes) THEN acc.lanes[k + 1].free <= OccStart(rows[o])
                                     ELSE k = Len(acc.lanes) /\ k < p.cap[c]
        PROVE  new \in Guesses(p, c, rows, S, T \cup {o})
    <2>. HIDE DEF new, unsure, guess
    <2>1. k <= Len(acc.lanes)
      BY <1>2, <1>7
    <2>2. PutOn(p, c, rows, o, k, unsure, acc, new)
      BY <1>1, <1>2, <1>3, <1>7, <2>1, TakePutsOn
    <2>3. Tracks(p, c, rows, T \cup {o}, new)
      BY <1>1, <1>3, <1>7, TakeTracks
    <2>4. \A q \in DOMAIN new.at : q # o => q \in DOMAIN acc.at /\ new.at[q].ambiguous = acc.at[q].ambiguous
      BY <2>2 DEF PutOn
    <2>5. new.at[o].ambiguous = unsure
      BY <2>2 DEF PutOn
    <2>6. guess => \A q \in DOMAIN new.at : new.at[q].ambiguous
      BY <1>1, <2>4, <2>5, Zenon DEF unsure
    <2>7. p.cap[c] = 1 => Sure(new)
      BY <1>1, <1>4, <2>4, <2>5, Zenon DEF Sure
    <2>. QED
      BY <1>6, <2>3, <2>6, <2>7 DEF Guesses, guess
  <1>8. CASE free # {}
    <2>1. free \in SUBSET (0..(Len(acc.lanes) - 1)) /\ \A k \in free : acc.lanes[k + 1].free <= occ
      BY DEF Reusable
    <2>2. best \in free
      <3>. HIDE DEF free
      <3>. QED
        BY <1>2, <1>8, <2>1, LongestFree
    <2>3. best \in Nat /\ best < Len(acc.lanes) /\ acc.lanes[best + 1].free <= OccStart(rows[o])
      <3>. HIDE DEF best, free
      <3>. QED
        BY <1>2, <2>1, <2>2
    <2>4. new = Take(p, c, rows, o, best, unsure, acc)
      <3>. HIDE DEF new, best, unsure, free
      <3>. QED
        BY <1>5, <1>8
    <2>5. new \in Guesses(p, c, rows, S, T \cup {o})
      <3>. HIDE DEF new, best, unsure, free
      <3>. QED
        BY <1>7, <2>3, <2>4
    <2>. QED
      BY <2>5
  <1>9. CASE free = {} /\ Len(acc.lanes) < p.cap[c]
    <2>1. new = Take(p, c, rows, o, Len(acc.lanes), unsure, acc)
      <3>. HIDE DEF new, best, unsure, free
      <3>. QED
        BY <1>5, <1>9
    <2>2. new \in Guesses(p, c, rows, S, T \cup {o})
      <3>. HIDE DEF new, best, unsure, free
      <3>1. IF Len(acc.lanes) < Len(acc.lanes)
            THEN acc.lanes[Len(acc.lanes) + 1].free <= OccStart(rows[o])
            ELSE Len(acc.lanes) = Len(acc.lanes) /\ Len(acc.lanes) < p.cap[c]
        BY <1>2, <1>9
      <3>. QED
        BY <1>2, <1>7, <2>1, <3>1
    <2>. QED
      BY <2>2
  <1>10. CASE free = {} /\ ~(Len(acc.lanes) < p.cap[c])
    <2>1. new = [acc EXCEPT !.overflow = TRUE]
      <3>. HIDE DEF new, best, unsure, free
      <3>. QED
        BY <1>5, <1>10
    <2>2. new.lanes = acc.lanes /\ new.at = acc.at
      <3>1. acc = [lanes |-> acc.lanes, at |-> acc.at, overflow |-> acc.overflow]
        BY <1>1 DEF Colourings
      <3>. HIDE DEF new
      <3>. QED
        BY <2>1, <3>1
    <2>3. Excess(rows, T \cup {o}, p.cap[c])
      BY <1>1, <1>10, NoLaneLeft
    <2>4. Tracks(p, c, rows, T \cup {o}, new)
      <3>. HIDE DEF new
      <3>. QED
        <4>1. \A k : OnLane(new, k) = OnLane(acc, k)
          BY <2>2 DEF OnLane
        <4>2. /\ \A k : LaneTells(p, rows, acc, k) => LaneTells(p, rows, new, k)
              /\ \A q : BeforeIn(rows, new, q) = BeforeIn(rows, acc, q)
          BY <2>2, <4>1 DEF LaneTells, BeforeIn
        <4>. QED
          BY <1>1, <2>2, <2>3, <4>2 DEF Tracks
    <2>5. new \in Guesses(p, c, rows, S, T \cup {o})
      <3>. HIDE DEF new
      <3>. QED
        BY <1>1, <1>6, <2>2, <2>4 DEF Guesses, Sure, guess
    <2>. QED
      BY <2>5
  <1>. QED
    BY <1>8, <1>9, <1>10

\* All rows are handled.
LEMMA ImplicitPass ==
  ASSUME NEW p, NEW c, p.cap[c] \in Nat, NEW rows, NEW S, Visits(rows, S),
         ~IsExplicit(p, c, rows, S)
  PROVE  ColourLanes(p, c, rows, S) \in Guesses(p, c, rows, S, S)
  <1>. DEFINE A == [T \in SUBSET S |-> Guesses(p, c, rows, S, T)]
  <1>1. Timed(rows, S)
    BY DEF Visits
  <1>2. StartColouring(p, c, rows, S) \in Guesses(p, c, rows, S, {})
    <2>. DEFINE col == StartColouring(p, c, rows, S)
    <2>1. Tracks(p, c, rows, {}, col) /\ DOMAIN col.at = {}
      BY StartTracks
    <2>2. col \in Colourings(p, c, S, {}, {})
      BY StartTyped
    <2>. HIDE DEF col
    <2>3. col \in Guesses(p, c, rows, S, {})
      BY <2>1, <2>2 DEF Guesses, Sure
    <2>. QED
      BY <2>3 DEF col
  <1>3. ASSUME NEW T \in SUBSET S, T # {}, NEW acc \in A[T \ {LastOf(rows, T)}]
        PROVE  ColourStep(p, c, rows, S, LastOf(rows, T), acc) \in A[T]
    <2>. DEFINE o == LastOf(rows, T)
                U == T \ {o}
    <2>1. o \in S /\ o \in T /\ U \cup {o} = T /\ \A q \in U : OccStart(rows[q]) <= OccStart(rows[o])
      BY <1>1, <1>3, LastArrives
    <2>2. acc \in Guesses(p, c, rows, S, U)
      <3>. HIDE DEF o
      <3>. QED
        BY <1>3 DEF o
    <2>3. ColourStep(p, c, rows, S, o, acc) = ImplicitStep(p, c, rows, o, IsMixed(p, c, rows, S), acc)
      BY DEF ColourStep
    <2>4. o \notin U /\ U \in SUBSET S
      <3>. HIDE DEF o
      <3>. QED
        BY <1>3, <2>1
    <2>. HIDE DEF o, U
    <2>5. ImplicitStep(p, c, rows, o, IsMixed(p, c, rows, S), acc) \in Guesses(p, c, rows, S, U \cup {o})
      BY <2>1, <2>2, <2>4, ImplicitGuesses
    <2>6. ColourStep(p, c, rows, S, o, acc) \in Guesses(p, c, rows, S, T)
      BY <2>1, <2>3, <2>5
    <2>. QED
      BY <2>6 DEF o
  <1>4. StaysColoured(p, c, rows, S, A)
    <2>1. StartColouring(p, c, rows, S) \in A[{}]
      BY <1>2
    <2>. HIDE DEF A
    <2>. QED
      BY <1>3, <2>1 DEF StaysColoured
  <1>5. ColourLanes(p, c, rows, S) \in A[S]
    <2>. HIDE DEF A
    <2>. QED
      BY <1>1, <1>4, ColouringStaysIn
  <1>. QED
    BY <1>5

-----------------------------------------------------------------------------
(***************************************************************************)
(* What the notary says of the setups of a post.                           *)
(***************************************************************************)
\* The pass is sure of every row, and each has the setup that it expects.
SetupsAsExpected(p, rows, col) ==
  /\ Sure(col)
  /\ \A o \in DOMAIN col.at : /\ ExpectedSetup(p, col.at[o]) # NoCell
                              /\ rows[o].setup = ExpectedSetup(p, col.at[o])

LEMMA NoSetupFinding ==
  ASSUME NEW p, NEW rows, NEW c
  PROVE  SetupsAt(p, rows, c) = {} <=>
           SetupsAsExpected(p, rows, ColourLanes(p, c, rows, AtPost(rows, c)))
  <1>. DEFINE col  == ColourLanes(p, c, rows, AtPost(rows, c))
              sure == {o \in DOMAIN col.at : ~col.at[o].ambiguous}
              exp(o) == ExpectedSetup(p, col.at[o])
              unsure  == (DOMAIN col.at) \ sure
              missing == {o \in sure : exp(o) = NoCell}
              wrong   == {o \in sure : exp(o) # NoCell /\ rows[o].setup # exp(o)}
  <1>1. SetupsAt(p, rows, c) =
          Codes("SETUP_MISMATCH", unsure) \cup Codes("MISSING_SETUP", missing)
            \cup Codes("SETUP_MISMATCH", wrong)
    BY DEF SetupsAt
  <1>2. \A code, U : Codes(code, U) = {} <=> U = {}
    BY DEF Codes
  <1>3. SetupsAt(p, rows, c) = {} <=> unsure = {} /\ missing = {} /\ wrong = {}
    <2>. HIDE DEF unsure, missing, wrong
    <2>. QED
      BY <1>1, <1>2
  <1>. HIDE DEF col, exp
  <1>4. SetupsAt(p, rows, c) = {} <=> SetupsAsExpected(p, rows, col)
    BY <1>3 DEF SetupsAsExpected, Sure, exp
  <1>. QED
    BY <1>4 DEF col

\* A pass that is sure of rows which fit tracks them all, on the lanes they name.
LEMMA SureMeansTracked ==
  ASSUME NEW p, NEW c, p.cap[c] \in Nat, NEW rows, NEW S, Visits(rows, S),
         ~Excess(rows, S, p.cap[c]), Sure(ColourLanes(p, c, rows, S))
  PROVE  LET col == ColourLanes(p, c, rows, S)
         IN /\ Tracks(p, c, rows, S, col) /\ DOMAIN col.at = S
            /\ \A o \in S : p.cap[c] > 1 /\ rows[o].lane # NoLane => col.at[o].lane = rows[o].lane
  <1>. DEFINE col == ColourLanes(p, c, rows, S)
  <1>1. CASE IsExplicit(p, c, rows, S)
    <2>1. col \in FollowsNames(p, c, rows, S, S)
      BY <1>1, ExplicitPass
    <2>. HIDE DEF col
    <2>2. Tracks(p, c, rows, S, col) /\ DOMAIN col.at = S /\ \A o \in S : col.at[o].lane = rows[o].lane
      BY <2>1 DEF FollowsNames, Colourings, col
    <2>. QED
      BY <2>2 DEF col
  <1>2. CASE ~IsExplicit(p, c, rows, S)
    <2>1. col \in Guesses(p, c, rows, S, S)
      BY <1>2, ImplicitPass
    <2>. HIDE DEF col
    <2>2. Tracks(p, c, rows, S, col)
      BY <2>1 DEF Guesses
    <2>3. DOMAIN col.at = S
      BY <2>1, <2>2 DEF Guesses, Colourings, Tracks
    <2>4. ASSUME NEW o \in S, p.cap[c] > 1, rows[o].lane # NoLane
          PROVE  FALSE
      <3>1. IsMixed(p, c, rows, S)
        BY <1>2, <2>4 DEF IsMixed
      <3>. QED
        BY <2>1, <2>3, <3>1 DEF Guesses, Sure, col
    <2>. QED
      BY <2>2, <2>3, <2>4 DEF col
  <1>. QED
    BY <1>1, <1>2

\* Rows that occupy time share a minute unless they are apart.
LEMMA ApartShareNoMinute ==
  ASSUME NEW rows, NEW S, Visits(rows, S), NEW o \in S, NEW q \in S
  PROVE  MinutesOf(rows[o]) \cap MinutesOf(rows[q]) = {} <=> Apart(rows[o], rows[q])
  <1>1. /\ OccStart(rows[o]) \in Int /\ rows[o].end \in Int /\ OccStart(rows[o]) < rows[o].end
        /\ OccStart(rows[q]) \in Int /\ rows[q].end \in Int /\ OccStart(rows[q]) < rows[q].end
    BY DEF Visits, Timed
  <1>2. ASSUME ~Apart(rows[o], rows[q])
        PROVE  MinutesOf(rows[o]) \cap MinutesOf(rows[q]) # {}
    <2>1. CASE OccStart(rows[o]) <= OccStart(rows[q])
      <3>1. OccStart(rows[q]) \in MinutesOf(rows[o]) \cap MinutesOf(rows[q])
        BY <1>1, <1>2, <2>1 DEF Apart, MinutesOf
      <3>. QED
        BY <3>1
    <2>2. CASE ~(OccStart(rows[o]) <= OccStart(rows[q]))
      <3>1. OccStart(rows[o]) \in MinutesOf(rows[o]) \cap MinutesOf(rows[q])
        BY <1>1, <1>2, <2>2 DEF Apart, MinutesOf
      <3>. QED
        BY <3>1
    <2>. QED
      BY <2>1, <2>2
  <1>3. ASSUME Apart(rows[o], rows[q])
        PROVE  MinutesOf(rows[o]) \cap MinutesOf(rows[q]) = {}
    BY <1>1, <1>3 DEF Apart, MinutesOf
  <1>. QED
    BY <1>2, <1>3

\* By the lanes of the pass, a row comes from the state that the pass found.
LEMMA StateIsTracked ==
  ASSUME NEW c, NEW S, S = AtPost(plan, c), Visits(plan, S),
         NEW col, Tracks(problem, c, plan, S, col), DOMAIN col.at = S,
         NEW lane, \A o \in S : lane[o] = col.at[o].lane,
         NEW o \in S
  PROVE  /\ StateBefore(c, lane, o) = col.at[o].from
         /\ SetupNeeded(c, lane, o) = ExpectedSetup(problem, col.at[o])
  <1>. DEFINE E == Earlier(c, lane, o)
              m == CHOOSE q \in E : \A x \in E : plan[x].end <= plan[q].end
  <1>1. E = BeforeIn(plan, col, o)
    BY DEF Earlier, BeforeIn, OnLane
  <1>2. StateBefore(c, lane, o) = IF E = {} THEN Idle ELSE problem.state[m]
    BY DEF StateBefore
  <1>3. \A q \in E : q \in S /\ col.at[q].lane = col.at[o].lane
    BY DEF Earlier
  <1>4. ComesFrom(problem, plan, E, col.at[o].from)
    BY <1>1 DEF Tracks
  <1>5. ASSUME E # {}
        PROVE  problem.state[m] = col.at[o].from
    <2>1. PICK q \in E : (\A x \in E : plan[x].end <= plan[q].end) /\ col.at[o].from = problem.state[q]
      BY <1>4, <1>5 DEF ComesFrom
    <2>2. m \in E /\ \A x \in E : plan[x].end <= plan[m].end
      <3>. HIDE DEF E
      <3>. QED
        BY <2>1
    <2>. HIDE DEF E, m
    <2>3. m = q
      <3>1. SUFFICES ASSUME m # q PROVE FALSE
        OBVIOUS
      <3>2. Apart(plan[m], plan[q])
        BY <1>3, <2>1, <2>2, <3>1 DEF Tracks
      <3>3. /\ OccStart(plan[m]) \in Int /\ plan[m].end \in Int /\ OccStart(plan[m]) < plan[m].end
            /\ OccStart(plan[q]) \in Int /\ plan[q].end \in Int /\ OccStart(plan[q]) < plan[q].end
        BY <1>3, <2>1, <2>2 DEF Visits, Timed
      <3>4. plan[m].end <= plan[q].end /\ plan[q].end <= plan[m].end
        BY <2>1, <2>2
      <3>. QED
        BY <3>2, <3>3, <3>4 DEF Apart
    <2>. QED
      BY <2>1, <2>3
  <1>6. StateBefore(c, lane, o) = col.at[o].from
    <2>. HIDE DEF E, m
    <2>. QED
      BY <1>2, <1>4, <1>5 DEF ComesFrom
  <1>7. col.at[o].expected = Cell(problem, c, col.at[o].from, problem.state[o])
    BY DEF Tracks
  <1>. QED
    BY <1>6, <1>7 DEF SetupNeeded, ExpectedSetup

\* A post whose setups the notary finds right, and whose rows fit, has lanes
\* that explain them.
LEMMA SetupsAreExplained ==
  ASSUME NEW c, problem.cap[c] \in Nat, Visits(plan, AtPost(plan, c)),
         ~Excess(plan, AtPost(plan, c), problem.cap[c]),
         SetupsAt(problem, plan, c) = {}
  PROVE  \E lane \in [AtPost(plan, c) -> 0..(problem.cap[c] - 1)] : Explains(c, lane)
  <1>. DEFINE S == AtPost(plan, c)
              col == ColourLanes(problem, c, plan, S)
              lane == [o \in S |-> col.at[o].lane]
  <1>1. SetupsAsExpected(problem, plan, col)
    BY NoSetupFinding
  <1>2. /\ Tracks(problem, c, plan, S, col) /\ DOMAIN col.at = S
        /\ \A o \in S : problem.cap[c] > 1 /\ plan[o].lane # NoLane => col.at[o].lane = plan[o].lane
    <2>1. Sure(col)
      BY <1>1 DEF SetupsAsExpected
    <2>. HIDE DEF S
    <2>. QED
      BY <2>1, SureMeansTracked DEF S
  <1>. HIDE DEF col
  <1>3. lane \in [S -> 0..(problem.cap[c] - 1)]
    <2>1. \A o \in S : col.at[o].lane \in 0..(Len(col.lanes) - 1) /\ Len(col.lanes) <= problem.cap[c]
      BY <1>2 DEF Tracks
    <2>2. \A o \in S : col.at[o].lane \in 0..(problem.cap[c] - 1)
      BY <2>1
    <2>. QED
      BY <2>2
  <1>4. \A o \in S : lane[o] = col.at[o].lane
    OBVIOUS
  <1>. HIDE DEF lane
  <1>5. ASSUME NEW o \in S, NEW q \in S, o # q, lane[o] = lane[q]
        PROVE  MinutesOf(plan[o]) \cap MinutesOf(plan[q]) = {}
    <2>1. Apart(plan[o], plan[q])
      BY <1>2, <1>4, <1>5 DEF Tracks
    <2>. QED
      BY <2>1, ApartShareNoMinute
  <1>6. ASSUME NEW o \in S
        PROVE  plan[o].setup = SetupNeeded(c, lane, o)
    <2>1. SetupNeeded(c, lane, o) = ExpectedSetup(problem, col.at[o])
      <3>. HIDE DEF S
      <3>. QED
        BY <1>2, <1>4, StateIsTracked DEF S
    <2>. QED
      BY <1>1, <1>2, <2>1 DEF SetupsAsExpected
  <1>7. Explains(c, lane)
    BY <1>2, <1>4, <1>5, <1>6 DEF Explains
  <1>. QED
    BY <1>3, <1>7

\* The other way where the lanes leave no choice: setups that some lanes explain
\* are found right.
LEMMA ExplainedSetupsPass ==
  ASSUME NEW c, problem.cap[c] \in Nat \ {0}, Visits(plan, AtPost(plan, c)),
         \A o \in AtPost(plan, c) : plan[o].setup \in Nat,
         ~Excess(plan, AtPost(plan, c), problem.cap[c]),
         \/ problem.cap[c] = 1
         \/ \A o \in AtPost(plan, c) : plan[o].lane \in 0..(problem.cap[c] - 1),
         NEW lane \in [AtPost(plan, c) -> 0..(problem.cap[c] - 1)], Explains(c, lane)
  PROVE  SetupsAt(problem, plan, c) = {}
  <1>. DEFINE S == AtPost(plan, c)
              col == ColourLanes(problem, c, plan, S)
  <1>1. /\ \A o, q \in S : o # q /\ lane[o] = lane[q] => Apart(plan[o], plan[q])
        /\ \A o \in S : problem.cap[c] > 1 /\ plan[o].lane # NoLane => lane[o] = plan[o].lane
        /\ \A o \in S : plan[o].setup = SetupNeeded(c, lane, o)
        /\ \A o \in S : lane[o] \in 0..(problem.cap[c] - 1)
    <2>1. \A o, q \in S : o # q /\ lane[o] = lane[q] => MinutesOf(plan[o]) \cap MinutesOf(plan[q]) = {}
      BY DEF Explains
    <2>. QED
      BY <2>1, ApartShareNoMinute DEF Explains
  <1>2. Sure(col)
    <2>1. CASE problem.cap[c] = 1
      <3>1. ~IsExplicit(problem, c, plan, S)
        BY <2>1 DEF IsExplicit
      <3>2. col \in Guesses(problem, c, plan, S, S)
        <4>. HIDE DEF S
        <4>. QED
          BY <3>1, ImplicitPass DEF S
      <3>. HIDE DEF col
      <3>. QED
        BY <2>1, <3>2 DEF Guesses
    <2>2. CASE problem.cap[c] # 1 /\ \A o \in S : plan[o].lane \in 0..(problem.cap[c] - 1)
      <3>1. IsExplicit(problem, c, plan, S)
        BY <2>2 DEF IsExplicit, NoLane
      <3>2. NamedApart(plan, S, problem.cap[c])
        BY <1>1, <2>2 DEF NamedApart, NoLane
      <3>3. col \in FollowsNames(problem, c, plan, S, S)
        <4>. HIDE DEF S
        <4>. QED
          BY <3>1, ExplicitPass DEF S
      <3>. HIDE DEF col
      <3>. QED
        BY <3>2, <3>3 DEF FollowsNames
    <2>. QED
      BY <2>1, <2>2
  <1>3. /\ Tracks(problem, c, plan, S, col) /\ DOMAIN col.at = S
        /\ \A o \in S : problem.cap[c] > 1 /\ plan[o].lane # NoLane => col.at[o].lane = plan[o].lane
    <2>. HIDE DEF S
    <2>. QED
      BY <1>2, SureMeansTracked DEF S
  <1>. HIDE DEF col
  <1>4. ASSUME NEW o \in S
        PROVE  lane[o] = col.at[o].lane
    <2>1. CASE problem.cap[c] = 1
      <3>1. col.at[o].lane \in 0..(Len(col.lanes) - 1) /\ Len(col.lanes) <= 1
        BY <1>3, <2>1 DEF Tracks
      <3>2. col.at[o].lane = 0 /\ lane[o] = 0
        BY <1>1, <2>1, <3>1
      <3>. QED
        BY <3>2
    <2>2. CASE problem.cap[c] # 1
      BY <1>1, <1>3, <2>2 DEF NoLane
    <2>. QED
      BY <2>1, <2>2
  <1>5. \A o \in S : SetupNeeded(c, lane, o) = ExpectedSetup(problem, col.at[o])
    <2>. HIDE DEF S
    <2>. QED
      BY <1>3, <1>4, StateIsTracked DEF S
  <1>6. SetupsAsExpected(problem, plan, col)
    BY <1>1, <1>2, <1>3, <1>5 DEF SetupsAsExpected, NoCell
  <1>. QED
    BY <1>6, NoSetupFinding DEF col

-----------------------------------------------------------------------------
(***************************************************************************)
(* What holds of every plan that is written, in one state at a time.       *)
(***************************************************************************)
Written ==
  /\ problem \in Problems
  /\ DOMAIN plan \subseteq problem.ops
  /\ \A o \in DOMAIN plan : WrittenRowOk(plan[o])

\* The problem is one that model.py lets through, and its rows have times.
LEMMA WrittenFacts ==
  ASSUME Written
  PROVE  /\ ProblemOk(problem) /\ SupplyOk(problem)
         /\ Timed(plan, DOMAIN plan)
         /\ \A o \in DOMAIN plan : /\ plan[o].start \in Int /\ plan[o].end \in Int /\ plan[o].setup \in Nat
                                   /\ OccStart(plan[o]) <= plan[o].start
  <1>1. ProblemOk(problem) /\ SupplyOk(problem)
    BY RowsAssumption DEF Written
  <1>2. IsFiniteSet(problem.ops) /\ problem.ops \subseteq Int
    <2>1. IsFiniteSet(DOMAIN problem.dur) /\ DOMAIN problem.dur \subseteq Nat /\ problem.ops \subseteq DOMAIN problem.dur
      BY <1>1 DEF ProblemOk
    <2>. QED
      BY <2>1, FS_Subset
  <1>3. IsFiniteSet(DOMAIN plan) /\ DOMAIN plan \subseteq Int
    BY <1>2, FS_Subset DEF Written
  <1>4. \A o \in DOMAIN plan : /\ plan[o].start \in Int /\ plan[o].end \in Int /\ plan[o].setup \in Nat
                               /\ OccStart(plan[o]) \in Int /\ OccStart(plan[o]) <= plan[o].start
    BY DEF Written, WrittenRowOk, OccStart
  <1>. QED
    BY <1>1, <1>3, <1>4 DEF Timed

LEMMA PartsAreTimed ==
  ASSUME Written, NEW S \in SUBSET DOMAIN plan
  PROVE  Timed(plan, S)
  BY WrittenFacts, FS_Subset DEF Timed

\* A post, crew or tool is over capacity in the eyes of the sweep just when it
\* is in some minute of the plan.
LEMMA OverlapIsMinute ==
  ASSUME Written, NEW S \in SUBSET DOMAIN plan, NEW cap \in Nat
  PROVE  Excess(plan, S, cap) <=>
           \E t \in AllMinutes : ~(Cardinality({o \in S : t \in MinutesOf(plan[o])}) <= cap)
  <1>1. Timed(plan, S)
    BY PartsAreTimed
  <1>2. \A o \in S : OccStart(plan[o]) \in Int /\ plan[o].end \in Int
    BY <1>1 DEF Timed
  <1>3. \A t \in Int : {o \in S : t \in MinutesOf(plan[o])} = LiveAt(plan, S, t)
    BY <1>2 DEF MinutesOf, LiveAt, Live
  <1>4. \A t \in Int : Cardinality(LiveAt(plan, S, t)) \in Nat
    <2>1. \A t \in Int : LiveAt(plan, S, t) \in SUBSET S
      BY DEF LiveAt
    <2>. QED
      BY <1>1, <2>1, FewerRows DEF Timed
  <1>5. AllMinutes \subseteq Int
    BY DEF AllMinutes, MinutesOf
  <1>6. ASSUME Excess(plan, S, cap)
        PROVE  \E t \in AllMinutes : ~(Cardinality({o \in S : t \in MinutesOf(plan[o])}) <= cap)
    <2>1. PICK o \in S : /\ Live(plan[o], OccStart(plan[o]))
                         /\ Cardinality(LiveAt(plan, S, OccStart(plan[o]))) > cap
      BY <1>6 DEF Excess
    <2>2. OccStart(plan[o]) \in MinutesOf(plan[o])
      BY <1>2, <2>1 DEF MinutesOf, Live
    <2>3. OccStart(plan[o]) \in AllMinutes
      BY <2>2 DEF AllMinutes
    <2>4. {q \in S : OccStart(plan[o]) \in MinutesOf(plan[q])} = LiveAt(plan, S, OccStart(plan[o]))
      BY <1>2, <1>3
    <2>5. ~(Cardinality(LiveAt(plan, S, OccStart(plan[o]))) <= cap)
      BY <1>2, <1>4, <2>1
    <2>. QED
      BY <2>3, <2>4, <2>5, Zenon
  <1>7. ASSUME NEW t \in AllMinutes, ~(Cardinality({o \in S : t \in MinutesOf(plan[o])}) <= cap)
        PROVE  Excess(plan, S, cap)
    <2>1. t \in Int
      BY <1>5
    <2>2. ~(Cardinality(LiveAt(plan, S, t)) <= cap)
      BY <1>3, <1>7, <2>1, Zenon
    <2>3. Cardinality(LiveAt(plan, S, t)) > cap
      BY <1>4, <2>1, <2>2
    <2>. QED
      BY <1>1, <2>1, <2>3, SweepFindsMinutes
  <1>. QED
    BY <1>6, <1>7

\* OverlapsAreMinutes, in a state.
LEMMA OverlapsAreOverfullMinutes ==
  ASSUME Written
  PROVE  OverlapsAreMinutes
  <1>. DEFINE over(S, t) == {o \in S : t \in MinutesOf(plan[o])}
              posts == {c \in DOMAIN problem.cap : Excess(plan, AtPost(plan, c), problem.cap[c])}
              crews == {w \in DOMAIN problem.crewCap : Excess(plan, OfCrew(plan, w), problem.crewCap[w])}
              tools == {x \in DOMAIN problem.toolCap : Excess(plan, OnTool(plan, x), problem.toolCap[x])}
  <1>1. Overlaps(problem, plan) =
          Codes("CENTER_OVERLAP", posts) \cup Codes("CREW_OVERLAP", crews) \cup Codes("AUX_OVERLAP", tools)
    BY DEF Overlaps
  <1>2. \A code, U : Codes(code, U) = {} <=> U = {}
    BY DEF Codes
  <1>3. Overlaps(problem, plan) = {} <=> posts = {} /\ crews = {} /\ tools = {}
    <2>. HIDE DEF posts, crews, tools
    <2>. QED
      BY <1>1, <1>2
  <1>4. /\ \A c \in DOMAIN problem.cap : problem.cap[c] \in Nat
        /\ \A w \in DOMAIN problem.crewCap : problem.crewCap[w] \in Nat
        /\ \A x \in DOMAIN problem.toolCap : problem.toolCap[x] \in Nat
    BY WrittenFacts DEF ProblemOk
  <1>5. /\ \A c : AtPost(plan, c) \in SUBSET DOMAIN plan
        /\ \A w : OfCrew(plan, w) \in SUBSET DOMAIN plan
        /\ \A x : OnTool(plan, x) \in SUBSET DOMAIN plan
    BY DEF AtPost, OfCrew, OnTool
  <1>6. /\ posts = {} <=> \A c \in DOMAIN problem.cap : \A t \in AllMinutes :
                            Cardinality(over(AtPost(plan, c), t)) <= problem.cap[c]
        /\ crews = {} <=> \A w \in DOMAIN problem.crewCap : \A t \in AllMinutes :
                            Cardinality(over(OfCrew(plan, w), t)) <= problem.crewCap[w]
        /\ tools = {} <=> \A x \in DOMAIN problem.toolCap : \A t \in AllMinutes :
                            Cardinality(over(OnTool(plan, x), t)) <= problem.toolCap[x]
    <2>1. \A S \in SUBSET DOMAIN plan : \A cap \in Nat :
            ~Excess(plan, S, cap) <=> \A t \in AllMinutes : Cardinality(over(S, t)) <= cap
      BY OverlapIsMinute
    <2>. HIDE DEF over
    <2>2. posts = {} <=> \A c \in DOMAIN problem.cap : ~Excess(plan, AtPost(plan, c), problem.cap[c])
      OBVIOUS
    <2>3. crews = {} <=> \A w \in DOMAIN problem.crewCap : ~Excess(plan, OfCrew(plan, w), problem.crewCap[w])
      OBVIOUS
    <2>4. tools = {} <=> \A x \in DOMAIN problem.toolCap : ~Excess(plan, OnTool(plan, x), problem.toolCap[x])
      OBVIOUS
    <2>. HIDE DEF posts, crews, tools
    <2>5. posts = {} <=> \A c \in DOMAIN problem.cap : \A t \in AllMinutes :
                           Cardinality(over(AtPost(plan, c), t)) <= problem.cap[c]
      BY <1>4, <1>5, <2>1, <2>2
    <2>6. crews = {} <=> \A w \in DOMAIN problem.crewCap : \A t \in AllMinutes :
                           Cardinality(over(OfCrew(plan, w), t)) <= problem.crewCap[w]
      BY <1>4, <1>5, <2>1, <2>3
    <2>7. tools = {} <=> \A x \in DOMAIN problem.toolCap : \A t \in AllMinutes :
                           Cardinality(over(OnTool(plan, x), t)) <= problem.toolCap[x]
      BY <1>4, <1>5, <2>1, <2>4
    <2>. QED
      BY <2>5, <2>6, <2>7
  <1>7. CapacityEachMinute <=>
          /\ \A c \in DOMAIN problem.cap : \A t \in AllMinutes :
               Cardinality(over(AtPost(plan, c), t)) <= problem.cap[c]
          /\ \A w \in DOMAIN problem.crewCap : \A t \in AllMinutes :
               Cardinality(over(OfCrew(plan, w), t)) <= problem.crewCap[w]
          /\ \A x \in DOMAIN problem.toolCap : \A t \in AllMinutes :
               Cardinality(over(OnTool(plan, x), t)) <= problem.toolCap[x]
    <2>1. CapacityEachMinute <=>
            \A t \in AllMinutes :
              /\ \A c \in DOMAIN problem.cap : Cardinality(over(AtPost(plan, c), t)) <= problem.cap[c]
              /\ \A w \in DOMAIN problem.crewCap : Cardinality(over(OfCrew(plan, w), t)) <= problem.crewCap[w]
              /\ \A x \in DOMAIN problem.toolCap : Cardinality(over(OnTool(plan, x), t)) <= problem.toolCap[x]
      BY DEF CapacityEachMinute
    <2>. HIDE DEF over
    <2>. QED
      BY <2>1
  <1>. QED
    <2>. HIDE DEF over, posts, crews, tools
    <2>. QED
      BY <1>3, <1>6, <1>7 DEF OverlapsAreMinutes

\* NamedLanesAreJudgedExactly, in a state.
LEMMA LanesAreJudged ==
  ASSUME Written
  PROVE  NamedLanesAreJudgedExactly
  <1>. SUFFICES ASSUME NEW c \in DOMAIN problem.cap,
                       \A o \in AtPost(plan, c) : plan[o].start < plan[o].end,
                       \/ problem.cap[c] = 1
                       \/ \A o \in AtPost(plan, c) : plan[o].lane \in 0..(problem.cap[c] - 1),
                       ~Excess(plan, AtPost(plan, c), problem.cap[c])
                PROVE  SetupsAt(problem, plan, c) = {} <=>
                         \E lane \in [AtPost(plan, c) -> 0..(problem.cap[c] - 1)] : Explains(c, lane)
    BY DEF NamedLanesAreJudgedExactly
  <1>1. AtPost(plan, c) \in SUBSET DOMAIN plan
    BY DEF AtPost
  <1>2. problem.cap[c] \in Nat \ {0}
    BY WrittenFacts DEF ProblemOk
  <1>3. \A o \in AtPost(plan, c) : plan[o].setup \in Nat
    BY <1>1, WrittenFacts
  <1>4. Visits(plan, AtPost(plan, c))
    <2>1. Timed(plan, AtPost(plan, c))
      BY <1>1, PartsAreTimed
    <2>2. \A o \in AtPost(plan, c) : /\ OccStart(plan[o]) < plan[o].end
                                     /\ OccStart(plan[o]) >= Dawn
                                     /\ plan[o].lane \in Nat \cup {NoLane}
      BY <1>1 DEF Written, WrittenRowOk, OccStart
    <2>. QED
      BY <2>1, <2>2 DEF Visits
  <1>5. ASSUME SetupsAt(problem, plan, c) = {}
        PROVE  \E lane \in [AtPost(plan, c) -> 0..(problem.cap[c] - 1)] : Explains(c, lane)
    BY <1>2, <1>4, <1>5, SetupsAreExplained
  <1>6. ASSUME NEW lane \in [AtPost(plan, c) -> 0..(problem.cap[c] - 1)], Explains(c, lane)
        PROVE  SetupsAt(problem, plan, c) = {}
    BY <1>2, <1>3, <1>4, <1>6, ExplainedSetupsPass
  <1>. QED
    BY <1>5, <1>6

-----------------------------------------------------------------------------
(***************************************************************************)
(* A plan in which the notary finds nothing.                               *)
(***************************************************************************)
Clean == Findings(problem, plan) = {}

\* The links of a plan in which no link is found broken.
LEMMA LinksHold ==
  ASSUME Precedence(problem, plan) = {}, NEW o \in DOMAIN plan, NEW l \in problem.links[o]
  PROVE  LinkHolds(plan, o, l)
  <1>. DEFINE bad == {q \in DOMAIN plan : \E k \in problem.links[q] : ~LinkHolds(plan, q, k)}
  <1>1. Codes("PRECEDENCE_BROKEN", bad) = {}
    BY DEF Precedence
  <1>2. \A code, U : Codes(code, U) = {} <=> U = {}
    BY DEF Codes
  <1>3. o \notin bad
    <2>. HIDE DEF bad
    <2>. QED
      BY <1>1, <1>2
  <1>. QED
    BY <1>3

\* No check finds anything, in the words of each.
LEMMA NothingFound ==
  ASSUME Clean
  PROVE  /\ problem.ops \subseteq DOMAIN plan
         /\ \A o \in DOMAIN plan : plan[o].start < plan[o].end /\ DurationHolds(problem, o, plan[o])
         /\ \A o \in DOMAIN plan : \A l \in problem.links[o] : LinkHolds(plan, o, l)
         /\ Overlaps(problem, plan) = {} /\ Spares(problem, plan) = {}
         /\ \A o \in DOMAIN plan :
              \A cal \in CalendarsOf(plan[o].post, plan[o].crew, plan[o].tools \cup problem.tools[o]) :
                CalendarFits(problem, o, plan[o], cal)
         /\ \A c \in DOMAIN problem.cap : SetupsAt(problem, plan, c) = {}
         /\ \A s \in Rotables(problem) : RotableFindings(problem, plan, s) = {}
  <1>1. \A code, U : Codes(code, U) = {} <=> U = {}
    BY DEF Codes
  <1>2. /\ Durations(problem, plan) = {} /\ Coverage(problem, plan) = {}
        /\ Precedence(problem, plan) = {} /\ Overlaps(problem, plan) = {}
        /\ Windows(problem, plan) = {} /\ Spares(problem, plan) = {}
        /\ Setups(problem, plan) = {} /\ LedgerFindings(problem, plan) = {}
    BY DEF Clean, Findings
  <1>3. problem.ops \subseteq DOMAIN plan
    BY <1>1, <1>2 DEF Coverage
  <1>4. ASSUME NEW o \in DOMAIN plan
        PROVE  plan[o].start < plan[o].end /\ DurationHolds(problem, o, plan[o])
    <2>. DEFINE bad == {q \in DOMAIN plan :
                          ~(plan[q].start < plan[q].end /\ DurationHolds(problem, q, plan[q]))}
    <2>1. Codes("INVALID_DURATION", bad) = {}
      BY <1>2 DEF Durations
    <2>2. o \notin bad
      <3>. HIDE DEF bad
      <3>. QED
        BY <1>1, <2>1
    <2>. QED
      BY <2>2
  <1>5. ASSUME NEW o \in DOMAIN plan, NEW l \in problem.links[o]
        PROVE  LinkHolds(plan, o, l)
    BY <1>2, LinksHold
  <1>6. ASSUME NEW o \in DOMAIN plan,
               NEW cal \in CalendarsOf(plan[o].post, plan[o].crew, plan[o].tools \cup problem.tools[o])
        PROVE  CalendarFits(problem, o, plan[o], cal)
    <2>. DEFINE cals(q) == CalendarsOf(plan[q].post, plan[q].crew, plan[q].tools \cup problem.tools[q])
                closed == {q \in DOMAIN plan : \E k \in cals(q) : ~CalendarFits(problem, q, plan[q], k)}
    <2>1. Codes("CALENDAR_BROKEN", closed) \subseteq Windows(problem, plan)
      BY DEF Windows
    <2>2. closed = {}
      <3>. HIDE DEF closed
      <3>. QED
        BY <1>1, <1>2, <2>1
    <2>3. o \notin closed
      <3>. HIDE DEF closed
      <3>. QED
        BY <2>2
    <2>. QED
      BY <2>3
  <1>7. \A c \in DOMAIN problem.cap : SetupsAt(problem, plan, c) = {}
    BY <1>2 DEF Setups
  <1>8. \A s \in Rotables(problem) : RotableFindings(problem, plan, s) = {}
    BY <1>2 DEF LedgerFindings
  <1>. QED
    BY <1>2, <1>3, <1>4, <1>5, <1>6, <1>7, <1>8

\* And what the check of consumable spares would have found.
LEMMA NothingShort ==
  ASSUME Clean, NEW s \in DOMAIN problem.stock \ Rotables(problem)
  PROVE  LET stock == problem.stock[s]
             D == Drawers(problem, plan, s)
         IN /\ stock.receipts = {} =>
                 /\ \A o \in D : ~(stock.qty <= 0) /\ ~(plan[o].start < stock.from)
                 /\ ~(Cardinality(D) > stock.qty)
            /\ stock.receipts # {} => \A o \in D : ~(StockLeft(problem, plan, s, o) < 0)
  <1>. DEFINE consumed == DOMAIN problem.stock \ Rotables(problem)
              flat(x) == problem.stock[x].receipts = {}
              late(o, x) == problem.stock[x].qty <= 0 \/ plan[o].start < problem.stock[x].from
              short(o, x) == IF flat(x) THEN late(o, x) ELSE StockLeft(problem, plan, x, o) < 0
              dry == {o \in DOMAIN plan : \E x \in problem.needs[o] \cap consumed : short(o, x)}
              over == {x \in consumed :
                         flat(x) /\ Cardinality(Drawers(problem, plan, x)) > problem.stock[x].qty}
              spares == {OfSpare(x) : x \in over}
  <1>1. \A code, U : Codes(code, U) = {} <=> U = {}
    BY DEF Codes
  <1>2. Codes("SPARE_UNAVAILABLE", dry) = {} /\ Codes("SPARE_UNAVAILABLE", spares) = {}
    BY NothingFound DEF Spares
  <1>3. dry = {} /\ spares = {}
    <2>. HIDE DEF dry, spares
    <2>. QED
      BY <1>1, <1>2
  <1>4. s \notin over
    <2>. HIDE DEF over
    <2>. QED
      BY <1>3
  <1>5. ASSUME NEW o \in Drawers(problem, plan, s)
        PROVE  ~short(o, s)
    <2>1. o \in DOMAIN plan /\ s \in problem.needs[o] \cap consumed
      BY DEF Drawers
    <2>2. o \notin dry
      <3>. HIDE DEF dry
      <3>. QED
        BY <1>3
    <2>. HIDE DEF short, consumed
    <2>. QED
      BY <2>1, <2>2
  <1>. QED
    BY <1>4, <1>5

\* The minutes of a visit are open where its calendars say so.
LEMMA CleanIsOpen ==
  ASSUME Written, Clean
  PROVE  OpenEachMinute
  <1>. SUFFICES ASSUME NEW o \in DOMAIN plan
                PROVE  LET r == plan[o]
                           cals == Staffed(problem, CalendarsOf(r.post, r.crew, r.tools \cup problem.tools[o]))
                           opened == {t \in MinutesOf(r) : \A k \in cals : Open(problem, k, t)}
                       IN /\ \A t \in MinutesOf(r) \ WorkOf(r) : t \in opened
                          /\ IF problem.policy[o] = "preemptive"
                             THEN Cardinality(WorkOf(r) \cap opened) = problem.dur[o]
                             ELSE MinutesOf(r) \subseteq opened
    BY DEF OpenEachMinute
  <1>. DEFINE r == plan[o]
              all == CalendarsOf(r.post, r.crew, r.tools \cup problem.tools[o])
              cals == Staffed(problem, all)
              opened == {t \in MinutesOf(r) : \A k \in cals : Open(problem, k, t)}
  <1>1. r.start \in Int /\ r.end \in Int /\ OccStart(r) \in Int /\ OccStart(r) <= r.start
    BY WrittenFacts DEF Timed
  <1>2. \A k \in all : CalendarFits(problem, o, r, k)
    BY NothingFound
  <1>3. \A k \in cals : k \in all /\ k \notin problem.unattended
    BY DEF Staffed
  <1>. HIDE DEF cals, all, r
  <1>4. ASSUME NEW t \in MinutesOf(r), problem.policy[o] = "preemptive" => t \notin WorkOf(r)
        PROVE  t \in opened
    <2>1. t \in Int /\ OccStart(r) <= t /\ t < r.end
      BY <1>1 DEF MinutesOf
    <2>2. problem.policy[o] = "preemptive" => t < r.start
      BY <1>1, <1>4, <2>1 DEF WorkOf
    <2>3. ASSUME NEW k \in cals
          PROVE  Open(problem, k, t)
      <3>. DEFINE to == IF problem.policy[o] = "preemptive" THEN r.start ELSE r.end
      <3>1. InMergedWindows(problem, k, OccStart(r), to)
        BY <1>2, <1>3, <2>3 DEF CalendarFits
      <3>2. t < to /\ to \in Int
        BY <1>1, <2>1, <2>2
      <3>3. t \in OccStart(r)..(to - 1)
        <4>. HIDE DEF to
        <4>. QED
          BY <1>1, <2>1, <3>2
      <3>. QED
        BY <3>1, <3>3 DEF InMergedWindows
    <2>. QED
      BY <2>3
  <1>5. problem.policy[o] = "preemptive" => Cardinality(WorkOf(r) \cap opened) = problem.dur[o]
    <2>. SUFFICES ASSUME problem.policy[o] = "preemptive"
                  PROVE  Cardinality(WorkOf(r) \cap opened) = problem.dur[o]
      OBVIOUS
    <2>1. DurationHolds(problem, o, r)
      BY NothingFound DEF r
    <2>2. OpenMinutes(problem, cals, r.start, r.end) = problem.dur[o]
      BY <2>1 DEF DurationHolds, cals, all
    <2>3. WorkOf(r) \cap opened = {t \in r.start..(r.end - 1) : \A k \in cals : Open(problem, k, t)}
      BY <1>1 DEF WorkOf, MinutesOf
    <2>. HIDE DEF opened
    <2>. QED
      BY <2>2, <2>3 DEF OpenMinutes
  <1>6. \A t \in MinutesOf(r) \ WorkOf(r) : t \in opened
    <2>. HIDE DEF opened
    <2>. QED
      BY <1>4
  <1>7. problem.policy[o] # "preemptive" => MinutesOf(r) \subseteq opened
    <2>. HIDE DEF opened
    <2>. QED
      BY <1>4
  <1>. QED
    BY <1>5, <1>6, <1>7 DEF r, cals, all

\* Every link of the card holds, with its predecessor in the plan.
LEMMA CleanIsOrdered ==
  ASSUME Written, Clean
  PROVE  OrderHolds
  <1>. SUFFICES ASSUME NEW o \in DOMAIN plan, NEW l \in problem.links[o]
                PROVE  /\ l.pred \in DOMAIN plan
                       /\ plan[o].start - plan[l.pred].end >= l.min
                       /\ l.max # NoMax => plan[o].start - plan[l.pred].end <= l.max
    BY DEF OrderHolds
  <1>1. LinkHolds(plan, o, l)
    BY NothingFound
  <1>2. l.min \in Int /\ l.max \in Int
    BY WrittenFacts DEF SupplyOk, NoMax, Written
  <1>3. l.pred \in DOMAIN plan
    BY <1>1 DEF LinkHolds
  <1>4. plan[o].start \in Int /\ plan[l.pred].end \in Int
    BY <1>3, WrittenFacts
  <1>. QED
    BY <1>1, <1>2, <1>3, <1>4 DEF LinkHolds

\* Every post has lanes for its rows.
LEMMA CleanIsColoured ==
  ASSUME Written, Clean
  PROVE  SetupsExplained
  <1>. SUFFICES ASSUME NEW c \in DOMAIN problem.cap
                PROVE  \E lane \in [AtPost(plan, c) -> 0..(problem.cap[c] - 1)] : Explains(c, lane)
    BY DEF SetupsExplained
  <1>1. problem.cap[c] \in Nat
    BY WrittenFacts DEF ProblemOk
  <1>2. ~Excess(plan, AtPost(plan, c), problem.cap[c])
    <2>. DEFINE over == {x \in DOMAIN problem.cap : Excess(plan, AtPost(plan, x), problem.cap[x])}
    <2>1. Codes("CENTER_OVERLAP", over) \subseteq {}
      BY NothingFound DEF Overlaps
    <2>2. \A x \in over : <<"CENTER_OVERLAP", x>> \in Codes("CENTER_OVERLAP", over)
      <3>. HIDE DEF over
      <3>. QED
        BY DEF Codes
    <2>3. c \notin over
      <3>. HIDE DEF over
      <3>. QED
        BY <2>1, <2>2
    <2>. QED
      BY <2>3
  <1>3. Visits(plan, AtPost(plan, c))
    <2>1. AtPost(plan, c) \in SUBSET DOMAIN plan
      BY DEF AtPost
    <2>2. Timed(plan, AtPost(plan, c))
      BY <2>1, PartsAreTimed
    <2>3. \A o \in AtPost(plan, c) : plan[o].start < plan[o].end
      BY <2>1, NothingFound
    <2>4. \A o \in AtPost(plan, c) : /\ OccStart(plan[o]) < plan[o].end
                                     /\ OccStart(plan[o]) >= Dawn
                                     /\ plan[o].lane \in Nat \cup {NoLane}
      BY <2>1, <2>3 DEF Written, WrittenRowOk, OccStart
    <2>. QED
      BY <2>2, <2>4 DEF Visits
  <1>4. SetupsAt(problem, plan, c) = {}
    BY NothingFound
  <1>. QED
    BY <1>1, <1>2, <1>3, <1>4, SetupsAreExplained

\* A part of a finite set of operations has a last one by start and number.
LEMMA LastDrawer ==
  ASSUME Written, NEW G \in SUBSET DOMAIN plan, G # {}
  PROVE  \E o \in G : \A q \in G : plan[q].start < plan[o].start
                                   \/ (plan[q].start = plan[o].start /\ q <= o)
  <1>. DEFINE R == {e \in G \X G : plan[e[1]].start < plan[e[2]].start
                                   \/ (plan[e[1]].start = plan[e[2]].start /\ e[1] <= e[2])}
  <1>1. IsFiniteSet(G) /\ \A q \in G : q \in Int /\ plan[q].start \in Int
    BY WrittenFacts, FS_Subset DEF Timed
  <1>2. Orders(R, G)
    <2>1. \A x \in G : \A y \in G : x # y => <<x, y>> \in R \/ <<y, x>> \in R
      BY <1>1
    <2>2. \A x \in G : \A y \in G : \A z \in G : <<x, y>> \in R /\ <<y, z>> \in R => <<x, z>> \in R
      BY <1>1
    <2>. HIDE DEF R
    <2>. QED
      BY <2>1, <2>2 DEF Orders
  <1>3. PICK o \in G : \A q \in G \ {o} : <<q, o>> \in R
    <2>. HIDE DEF R
    <2>. QED
      BY <1>1, <1>2, LastInOrder
  <1>4. ASSUME NEW q \in G
        PROVE  plan[q].start < plan[o].start \/ (plan[q].start = plan[o].start /\ q <= o)
    <2>1. CASE q = o
      BY <1>1, <2>1
    <2>2. CASE q # o
      BY <1>3, <2>2
    <2>. QED
      BY <2>1, <2>2
  <1>. QED
    BY <1>3, <1>4

\* A consumable spare: nothing is found, so at every moment what was drawn is
\* covered by what had come.
LEMMA ConsumablesLast ==
  ASSUME Written, Clean, NEW s \in DOMAIN problem.stock, ~problem.stock[s].rotable,
         NEW t \in Int, Gone(s, t) # {}
  PROVE  Cardinality(Gone(s, t)) <= Supplied(s, t)
  <1>. DEFINE stock == problem.stock[s]
              D == Drawers(problem, plan, s)
              G == Gone(s, t)
              by(u) == {x \in stock.receipts : x[1] <= u}
  <1>1. /\ stock.qty \in Nat /\ stock.from \in Int
        /\ IsFiniteSet(stock.receipts) /\ stock.receipts \subseteq Int \X Nat
    BY WrittenFacts DEF SupplyOk
  <1>2. /\ D \in SUBSET DOMAIN plan /\ IsFiniteSet(D)
        /\ \A o \in D : o \in Int /\ plan[o].start \in Int /\ s \in problem.needs[o]
    <2>1. D \in SUBSET DOMAIN plan /\ \A o \in D : s \in problem.needs[o]
      BY DEF Drawers
    <2>. HIDE DEF D
    <2>. QED
      BY <2>1, WrittenFacts, FS_Subset DEF Timed
  <1>3. G = {o \in D : plan[o].start <= t}
    BY DEF Gone
  <1>4. s \in DOMAIN problem.stock \ Rotables(problem)
    BY DEF Rotables
  <1>5. Supplied(s, t) = (IF stock.from <= t THEN stock.qty ELSE 0) + SumOf(by(t))
    BY DEF Supplied, SumOf
  <1>6. \A u : Quantities(by(u)) /\ SumOf(by(u)) \in Int
    <2>1. \A u : by(u) \in SUBSET stock.receipts
      OBVIOUS
    <2>2. Quantities(stock.receipts)
      BY <1>1 DEF Quantities
    <2>. HIDE DEF by, stock
    <2>3. \A u : Quantities(by(u))
      BY <2>1, <2>2, FS_Subset DEF Quantities
    <2>. QED
      BY <2>1, <2>2, <2>3, SumTakesOne
  <1>8. CASE stock.receipts = {}
    <2>1. /\ \A o \in D : stock.qty > 0 /\ plan[o].start >= stock.from
          /\ Cardinality(D) <= stock.qty
      <3>1. /\ \A o \in D : ~(stock.qty <= 0) /\ ~(plan[o].start < stock.from)
            /\ ~(Cardinality(D) > stock.qty)
        BY <1>4, <1>8, NothingShort
      <3>2. Cardinality(D) \in Nat
        BY <1>2, FS_CardinalityType
      <3>. HIDE DEF D, stock
      <3>. QED
        BY <1>1, <1>2, <3>1, <3>2
    <2>2. G \in SUBSET D
      BY <1>3
    <2>3. Cardinality(G) <= Cardinality(D) /\ Cardinality(G) \in Nat /\ Cardinality(D) \in Nat
      <3>. HIDE DEF G, D
      <3>. QED
        BY <1>2, <2>2, FewerRows
    <2>4. stock.from <= t
      BY <1>1, <1>2, <1>3, <2>1
    <2>5. SumOf(by(t)) = 0
      <3>1. by(t) = {}
        BY <1>8
      <3>. HIDE DEF by
      <3>. QED
        BY <1>6, <3>1, SumTakesOne
    <2>6. Supplied(s, t) = stock.qty
      <3>. HIDE DEF by, stock
      <3>. QED
        BY <1>1, <1>5, <2>4, <2>5
    <2>. HIDE DEF G, D, stock
    <2>. QED
      BY <1>1, <2>1, <2>3, <2>6 DEF G
  <1>9. CASE stock.receipts # {}
    <2>1. PICK o \in G : \A q \in G : plan[q].start < plan[o].start
                                      \/ (plan[q].start = plan[o].start /\ q <= o)
      <3>1. G \in SUBSET DOMAIN plan
        BY <1>2, <1>3
      <3>. HIDE DEF G
      <3>. QED
        BY <3>1, LastDrawer DEF G
    <2>. DEFINE u == plan[o].start
                drawn == {q \in D : plan[q].start < u \/ (plan[q].start = u /\ q <= o)}
    <2>2. u \in Int /\ u <= t /\ o \in D
      BY <1>2, <1>3
    <2>3. StockLeft(problem, plan, s, o) =
            (IF stock.from <= u THEN stock.qty ELSE 0) + SumOf(by(u)) - Cardinality(drawn)
      BY DEF StockLeft, SumOf
    <2>4. ~(StockLeft(problem, plan, s, o) < 0)
      BY <1>4, <1>9, <2>2, NothingShort
    <2>5. G \in SUBSET drawn /\ IsFiniteSet(drawn)
      <3>1. drawn \in SUBSET D
        OBVIOUS
      <3>2. G \in SUBSET drawn
        BY <1>3, <2>1
      <3>. HIDE DEF drawn, D
      <3>. QED
        BY <1>2, <3>1, <3>2, FS_Subset
    <2>6. Cardinality(G) <= Cardinality(drawn) /\ Cardinality(G) \in Nat /\ Cardinality(drawn) \in Nat
      <3>. HIDE DEF G, drawn
      <3>. QED
        BY <2>5, FewerRows
    <2>7. SumOf(by(u)) <= SumOf(by(t))
      <3>1. by(u) \in SUBSET by(t) /\ \A x \in by(t) : x[2] >= 0
        BY <1>1, <2>2
      <3>. HIDE DEF by, u
      <3>. QED
        BY <1>6, <3>1, SumGrows
    <2>. HIDE DEF by, drawn, u, G, stock
    <2>. QED
      BY <1>1, <1>5, <1>6, <2>2, <2>3, <2>4, <2>6, <2>7 DEF G
  <1>. QED
    BY <1>8, <1>9

\* A rotable spare: its pieces that are out are those of the sweep over the
\* times they are lent for.
LEMMA RotablesSuffice ==
  ASSUME Written, Clean, NEW s \in DOMAIN problem.stock, problem.stock[s].rotable,
         NEW t \in Int, Gone(s, t) # {}
  PROVE  Cardinality(Gone(s, t)) <= Supplied(s, t)
  <1>. DEFINE stock == problem.stock[s]
              D == Drawers(problem, plan, s)
              out == Out(problem, plan, s)
  <1>1. stock.qty \in Nat /\ stock.from \in Int /\ stock.lag \in Nat \cup {NoLag}
    BY WrittenFacts DEF SupplyOk
  <1>2. /\ D \in SUBSET DOMAIN plan /\ IsFiniteSet(D)
        /\ \A o \in D : o \in Int /\ plan[o].start \in Int /\ plan[o].end \in Int
    <2>1. D \in SUBSET DOMAIN plan
      BY DEF Drawers
    <2>. HIDE DEF D
    <2>. QED
      BY <2>1, WrittenFacts, FS_Subset DEF Timed
  <1>3. RotableFindings(problem, plan, s) = {}
    BY NothingFound DEF Rotables
  <1>4. DOMAIN out = D
    BY DEF Out
  <1>5. /\ stock.lag # NoLag
        /\ \A o \in D : ~(out[o].start < stock.from)
        /\ ~Excess(out, D, stock.qty)
    <2>1. stock.lag # NoLag
      BY <1>3 DEF RotableFindings
    <2>2. ~Excess(out, D, stock.qty)
      BY <1>3, <1>4, <2>1 DEF RotableFindings
    <2>3. \A o \in D : ~(out[o].start < stock.from)
      BY <1>3, <1>4, <2>1 DEF RotableFindings
    <2>. QED
      BY <2>1, <2>2, <2>3
  <1>6. \A o \in D : /\ out[o].start = plan[o].start /\ out[o].setup = 0
                     /\ out[o].end = plan[o].end + stock.lag
    <2>. TAKE o \in D
    <2>1. out[o] = [plan[o] EXCEPT !.end = plan[o].end + problem.stock[s].lag, !.setup = 0]
      BY DEF Out
    <2>2. DOMAIN plan[o] = {"post", "crew", "tools", "start", "end", "setup", "lane"}
      BY <1>2 DEF Written, WrittenRowOk
    <2>. HIDE DEF out
    <2>. QED
      BY <2>1, <2>2
  <1>. HIDE DEF out
  <1>7. stock.lag \in Nat
    BY <1>1, <1>5
  <1>8. \A o \in D : OccStart(out[o]) = plan[o].start /\ out[o].end = plan[o].end + stock.lag
    BY <1>2, <1>6 DEF OccStart
  <1>9. Timed(out, D)
    BY <1>2, <1>7, <1>8 DEF Timed
  <1>10. Gone(s, t) = LiveAt(out, D, t)
    BY <1>2, <1>7, <1>8 DEF Gone, LiveAt, Live
  <1>. HIDE DEF D
  <1>11. ~(Cardinality(LiveAt(out, D, t)) > stock.qty)
    BY <1>1, <1>5, <1>9, SweepFindsMinutes
  <1>12. Cardinality(LiveAt(out, D, t)) \in Nat
    <2>1. LiveAt(out, D, t) \in SUBSET D
      BY DEF LiveAt
    <2>. QED
      BY <1>2, <2>1, FewerRows
  <1>13. stock.from <= t
    <2>1. PICK o \in Gone(s, t) : TRUE
      OBVIOUS
    <2>2. o \in D /\ plan[o].start <= t
      BY DEF Gone, D
    <2>. QED
      BY <1>1, <1>2, <1>5, <1>6, <2>2
  <1>14. Supplied(s, t) = stock.qty
    BY <1>1, <1>13 DEF Supplied
  <1>. QED
    BY <1>1, <1>10, <1>11, <1>12, <1>14

\* CleanPlanIsFeasible, in a state.
LEMMA CleanMeansFeasible ==
  ASSUME Written
  PROVE  CleanPlanIsFeasible
  <1>. SUFFICES ASSUME Clean
                PROVE  /\ DOMAIN plan = problem.ops
                       /\ CapacityEachMinute /\ OpenEachMinute /\ SetupsExplained /\ OrderHolds
                       /\ SparesEachMinute
    BY DEF CleanPlanIsFeasible, Clean
  <1>1. DOMAIN plan = problem.ops
    BY NothingFound DEF Written
  <1>2. CapacityEachMinute
    BY OverlapsAreOverfullMinutes, NothingFound DEF OverlapsAreMinutes
  <1>3. SparesEachMinute
    <2>1. ASSUME NEW s \in DOMAIN problem.stock, NEW t \in 0..problem.horizon, Gone(s, t) # {}
          PROVE  Cardinality(Gone(s, t)) <= Supplied(s, t)
      <3>1. t \in Int
        BY <2>1
      <3>. QED
        BY <2>1, <3>1, ConsumablesLast, RotablesSuffice
    <2>. QED
      BY <2>1 DEF SparesEachMinute
  <1>. QED
    BY <1>1, <1>2, <1>3, CleanIsOpen, CleanIsColoured, CleanIsOrdered

-----------------------------------------------------------------------------
(***************************************************************************)
(* Stamping.                                                               *)
(***************************************************************************)
LEMMA StampingIsOfLanes ==
  ASSUME Written
  PROVE  /\ SameButLanes(plan, StampLanes(problem, plan))
         /\ SameButLanes(plan, Bare(plan))
         /\ \A o \in DOMAIN plan : Bare(plan)[o].lane = NoLane
  <1>1. \A o \in DOMAIN plan : DOMAIN plan[o] = RowFields
    BY DEF Written, WrittenRowOk, RowFields
  <1>. DEFINE canon(c) == ColourLanes(problem, c, Bare(plan), AtPost(plan, c)).at
              stamped == StampLanes(problem, plan)
  <1>2. DOMAIN stamped = DOMAIN plan
    BY DEF StampLanes
  <1>3. \A o \in DOMAIN plan : SameWork(plan[o], plan[o])
                               /\ \A l : SameWork(plan[o], [plan[o] EXCEPT !.lane = l])
    BY <1>1 DEF SameWork, RowFields
  <1>4. ASSUME NEW o \in DOMAIN plan
        PROVE  SameWork(plan[o], stamped[o])
    <2>. DEFINE lane == canon(plan[o].post)[o].lane
    <2>1. stamped[o] = IF /\ problem.cap[plan[o].post] > 1
                          /\ plan[o].lane = NoLane
                          /\ o \in DOMAIN canon(plan[o].post)
                       THEN [plan[o] EXCEPT !.lane = lane]
                       ELSE plan[o]
      BY DEF StampLanes
    <2>. HIDE DEF lane, stamped
    <2>2. stamped[o] = [plan[o] EXCEPT !.lane = lane] \/ stamped[o] = plan[o]
      BY <2>1
    <2>3. SameWork(plan[o], [plan[o] EXCEPT !.lane = lane]) /\ SameWork(plan[o], plan[o])
      BY <1>3, Zenon
    <2>. QED
      BY <2>2, <2>3, Zenon
  <1>. HIDE DEF stamped
  <1>5. SameButLanes(plan, stamped)
    BY <1>2, <1>4 DEF SameButLanes
  <1>6. SameButLanes(plan, Bare(plan))
    BY <1>3 DEF SameButLanes, Bare
  <1>7. \A o \in DOMAIN plan : Bare(plan)[o].lane = NoLane
    BY <1>1 DEF Bare, RowFields
  <1>. QED
    BY <1>5, <1>6, <1>7 DEF stamped

\* A post that fits, of rows that end after they start: without the lanes that
\* are named, every row gets one.
LEMMA BareRowsFit ==
  ASSUME Written, NEW c \in DOMAIN problem.cap,
         ~Excess(plan, AtPost(plan, c), problem.cap[c]),
         \A o \in AtPost(plan, c) : plan[o].start < plan[o].end
  PROVE  LET at == ColourLanes(problem, c, Bare(plan), AtPost(plan, c)).at
         IN \A o \in AtPost(plan, c) : o \in DOMAIN at /\ at[o].lane \in Nat
  <1>. DEFINE S == AtPost(plan, c)
              bare == Bare(plan)
              col == ColourLanes(problem, c, bare, S)
  <1>1. S \in SUBSET DOMAIN plan /\ problem.cap[c] \in Nat
    BY WrittenFacts DEF AtPost, ProblemOk
  <1>2. SameButLanes(plan, bare) /\ \A o \in DOMAIN plan : bare[o].lane = NoLane
    BY StampingIsOfLanes
  <1>3. Timed(plan, S)
    BY <1>1, PartsAreTimed
  <1>4. \A o \in S : /\ OccStart(bare[o]) = OccStart(plan[o]) /\ bare[o].end = plan[o].end
                     /\ OccStart(plan[o]) < plan[o].end /\ OccStart(plan[o]) >= Dawn
    <2>1. \A o \in S : SameWork(plan[o], bare[o])
      BY <1>1, <1>2 DEF SameButLanes
    <2>2. \A o \in S : OccStart(bare[o]) = OccStart(plan[o]) /\ bare[o].end = plan[o].end
      BY <2>1, LanesAreNotRead DEF SameWork
    <2>3. \A o \in S : OccStart(plan[o]) < plan[o].end /\ OccStart(plan[o]) >= Dawn
      BY <1>1 DEF Written, WrittenRowOk, OccStart
    <2>. QED
      BY <2>2, <2>3
  <1>. HIDE DEF S, bare, col
  <1>5. Visits(bare, S) /\ Unnamed(bare, S)
    BY <1>1, <1>2, <1>3, <1>4 DEF Visits, Unnamed, Timed, NoLane
  <1>6. ~Excess(bare, S, problem.cap[c])
    BY <1>1, <1>2, ExcessIsSame DEF S
  <1>7. CASE S = {}
    BY <1>7 DEF S
  <1>8. CASE S # {}
    <2>1. ~IsExplicit(problem, c, bare, S)
      BY <1>1, <1>2, <1>8 DEF IsExplicit
    <2>2. col \in Guesses(problem, c, bare, S, S)
      BY <1>1, <1>5, <2>1, ImplicitPass DEF col
    <2>3. ~col.overflow
      BY <1>6, <2>2 DEF Guesses, Tracks
    <2>4. /\ DOMAIN col.at = S
          /\ \A o \in DOMAIN col.at : col.at[o].lane \in 0..(Len(col.lanes) - 1)
      BY <2>2, <2>3 DEF Guesses, Tracks, Colourings
    <2>. QED
      BY <2>4 DEF col, bare, S
  <1>. QED
    BY <1>7, <1>8

\* StampingOnlyNamesLanes, in a state.
LEMMA StampsNameLanes ==
  ASSUME Written
  PROVE  StampingOnlyNamesLanes
  <1>. DEFINE stamped == StampLanes(problem, plan)
              canon(c) == ColourLanes(problem, c, Bare(plan), AtPost(plan, c)).at
  <1>1. Findings(problem, stamped) \ Setups(problem, stamped) = Findings(problem, plan) \ Setups(problem, plan)
    BY StampingIsOfLanes, OthersAreSame, OthersSayNothingOfSetups
  <1>2. ASSUME NEW c \in DOMAIN problem.cap, problem.cap[c] > 1,
               ~Excess(plan, AtPost(plan, c), problem.cap[c]),
               \A o \in AtPost(plan, c) : plan[o].start < plan[o].end,
               NEW o \in AtPost(plan, c)
        PROVE  stamped[o].lane # NoLane
    <2>1. o \in DOMAIN plan /\ plan[o].post = c
      BY DEF AtPost
    <2>2. o \in DOMAIN canon(c) /\ canon(c)[o].lane \in Nat
      BY <1>2, BareRowsFit
    <2>3. stamped[o] = IF plan[o].lane = NoLane THEN [plan[o] EXCEPT !.lane = canon(c)[o].lane] ELSE plan[o]
      BY <1>2, <2>1, <2>2 DEF StampLanes
    <2>4. "lane" \in DOMAIN plan[o]
      BY <2>1 DEF Written, WrittenRowOk
    <2>. HIDE DEF stamped, canon
    <2>. QED
      BY <2>2, <2>3, <2>4 DEF NoLane
  <1>. HIDE DEF stamped
  <1>. QED
    BY <1>1, <1>2 DEF StampingOnlyNamesLanes, stamped

-----------------------------------------------------------------------------
(***************************************************************************)
(* Exchange pools.  What the ledger walks through, from moment to moment,  *)
(* is what the pool has left at the end of each of them.                   *)
(***************************************************************************)
\* What StockoutsAreMinutes asks of a plan.
InOrder ==
  /\ Precedence(problem, plan) = {}
  /\ \A o \in DOMAIN plan : plan[o].start < plan[o].end

LEMMA PredecessorsEndBefore ==
  ASSUME Written, InOrder, NEW o \in DOMAIN plan, NEW q \in Preds(problem, o)
  PROVE  q \in DOMAIN plan /\ plan[q].end < plan[o].end
  <1>1. PICK l \in problem.links[o] : l.pred = q
    BY DEF Preds
  <1>2. LinkHolds(plan, o, l)
    BY LinksHold DEF InOrder
  <1>3. q \in DOMAIN plan
    BY <1>1, <1>2 DEF LinkHolds
  <1>4. l.min \in Nat
    BY WrittenFacts DEF SupplyOk, Written
  <1>5. plan[q].end \in Int /\ plan[o].start \in Int /\ plan[o].end \in Int /\ plan[o].start < plan[o].end
    BY <1>3, WrittenFacts DEF InOrder
  <1>. QED
    BY <1>1, <1>2, <1>3, <1>4, <1>5 DEF LinkHolds

\* The operations of a card are planned when its sinks are.
LEMMA SinksAreEnough ==
  ASSUME Written, InOrder, NEW j, Sinks(problem, j) \subseteq DOMAIN plan
  PROVE  CardOps(problem, j) \subseteq DOMAIN plan
  <1>. DEFINE U == CardOps(problem, j) \ DOMAIN plan
  <1>1. SUFFICES ASSUME U # {} PROVE FALSE
    OBVIOUS
  <1>2. U \in SUBSET problem.ops
    BY DEF CardOps
  <1>3. Acyclic(problem)
    BY WrittenFacts DEF SupplyOk
  <1>4. PICK o \in U : \A q \in U : o \notin Preds(problem, q)
    <2>. HIDE DEF U
    <2>. QED
      BY <1>1, <1>2, <1>3 DEF Acyclic
  <1>5. o \notin Sinks(problem, j)
    OBVIOUS
  <1>6. PICK q \in CardOps(problem, j) : o \in Preds(problem, q)
    BY <1>5 DEF Sinks
  <1>7. q \in DOMAIN plan
    BY <1>4, <1>6
  <1>8. o \in DOMAIN plan
    BY <1>6, <1>7, PredecessorsEndBefore
  <1>. QED
    BY <1>8

\* And one of the sinks ends last.
LEMMA SinksEndLast ==
  ASSUME Written, InOrder, NEW j, CardOps(problem, j) # {}, CardOps(problem, j) \subseteq DOMAIN plan
  PROVE  \E s \in Sinks(problem, j) : \A o \in CardOps(problem, j) : plan[o].end <= plan[s].end
  <1>. DEFINE C == CardOps(problem, j)
              R == {e \in C \X C : plan[e[1]].end <= plan[e[2]].end}
  <1>1. IsFiniteSet(C) /\ \A o \in C : plan[o].end \in Int
    BY WrittenFacts, FS_Subset DEF Timed
  <1>. HIDE DEF C
  <1>2. Orders(R, C)
    BY <1>1 DEF Orders
  <1>3. PICK s \in C : \A q \in C \ {s} : <<q, s>> \in R
    <2>1. C # {}
      BY DEF C
    <2>. HIDE DEF R
    <2>. QED
      BY <1>1, <1>2, <2>1, LastInOrder
  <1>4. ASSUME NEW q \in C PROVE plan[q].end <= plan[s].end
    <2>1. CASE q = s
      BY <1>1, <2>1
    <2>2. CASE q # s
      BY <1>3, <2>2
    <2>. QED
      BY <2>1, <2>2
  <1>5. s \in Sinks(problem, j)
    <2>1. SUFFICES ASSUME NEW q \in C, s \in Preds(problem, q) PROVE FALSE
      BY DEF Sinks, C
    <2>2. plan[s].end < plan[q].end
      BY <2>1, PredecessorsEndBefore DEF C
    <2>. QED
      BY <1>1, <1>4, <2>2
  <1>. QED
    BY <1>4, <1>5 DEF C

\* A unit is back, in the eyes of the ledger, when its whole card is done.
LEMMA BackMeansDone ==
  ASSUME Written, InOrder, NEW j \in DOMAIN problem.unit, NEW t \in Int
  PROVE  /\ j \in Returned(problem, plan) => Completion(problem, plan, j) \in Int
         /\ (j \in Returned(problem, plan) /\ Completion(problem, plan, j) <= t) <=>
              /\ CardOps(problem, j) # {}
              /\ \A o \in CardOps(problem, j) : o \in DOMAIN plan /\ plan[o].end <= t
  <1>. DEFINE C == CardOps(problem, j)
              Z == Sinks(problem, j)
              ends == {plan[o].end : o \in Z}
  <1>1. Z \in SUBSET C
    BY DEF Sinks
  <1>2. j \in Returned(problem, plan) <=> Z # {} /\ Z \subseteq DOMAIN plan
    BY DEF Returned
  <1>3. Completion(problem, plan, j) = Max(ends)
    BY DEF Completion
  <1>4. ASSUME Z \subseteq DOMAIN plan, Z # {}
        PROVE  ends \in SUBSET Int /\ ends # {} /\ IsFiniteSet(ends)
    <2>1. ends \in SUBSET Int /\ ends # {}
      BY <1>4, WrittenFacts
    <2>. DEFINE f == [o \in Z |-> plan[o].end]
    <2>2. ends = {f[o] : o \in Z}
      OBVIOUS
    <2>3. IsFiniteSet(Z)
      BY <1>4, WrittenFacts, FS_Subset DEF Timed
    <2>4. IsFiniteSet({f[o] : o \in Z})
      <3>. HIDE DEF f
      <3>. QED
        BY <2>3, ImageIsFinite
    <2>. QED
      BY <2>1, <2>2, <2>4
  <1>5. ASSUME Z \subseteq DOMAIN plan, Z # {}
        PROVE  /\ Max(ends) \in Int /\ C \subseteq DOMAIN plan /\ C # {}
               /\ \A o \in C : plan[o].end \in Int /\ plan[o].end <= Max(ends)
               /\ \E o \in C : plan[o].end = Max(ends)
    <2>1. Max(ends) \in ends /\ \A x \in ends : x <= Max(ends)
      <3>. HIDE DEF ends
      <3>. QED
        BY <1>4, <1>5, MaxIsGreatest
    <2>2. C \subseteq DOMAIN plan
      BY <1>5, SinksAreEnough
    <2>3. C # {}
      BY <1>1, <1>5
    <2>4. PICK s \in Z : \A o \in C : plan[o].end <= plan[s].end
      BY <2>2, <2>3, SinksEndLast
    <2>5. plan[s].end <= Max(ends)
      BY <2>1
    <2>6. \A o \in C : plan[o].end \in Int
      BY <2>2, WrittenFacts
    <2>7. Max(ends) \in Int
      BY <1>4, <1>5, <2>1
    <2>8. \E o \in C : plan[o].end = Max(ends)
      BY <1>1, <2>1
    <2>. HIDE DEF ends, C, Z
    <2>9. \A o \in C : plan[o].end <= Max(ends)
      <3>1. s \in C
        BY <1>1
      <3>. QED
        BY <2>4, <2>5, <2>6, <2>7, <3>1
    <2>. QED
      BY <2>2, <2>3, <2>6, <2>7, <2>8, <2>9
  <1>6. ASSUME C # {}, C \subseteq DOMAIN plan
        PROVE  Z \subseteq DOMAIN plan /\ Z # {}
    BY <1>1, <1>6, SinksEndLast
  <1>. HIDE DEF C, Z, ends
  <1>7. j \in Returned(problem, plan) => Completion(problem, plan, j) \in Int
    BY <1>2, <1>3, <1>5
  <1>8. ASSUME j \in Returned(problem, plan), Completion(problem, plan, j) <= t
        PROVE  C # {} /\ \A o \in C : o \in DOMAIN plan /\ plan[o].end <= t
    BY <1>2, <1>3, <1>5, <1>8
  <1>9. ASSUME C # {}, \A o \in C : o \in DOMAIN plan /\ plan[o].end <= t
        PROVE  j \in Returned(problem, plan) /\ Completion(problem, plan, j) <= t
    BY <1>2, <1>3, <1>5, <1>6, <1>9
  <1>. QED
    BY <1>7, <1>8, <1>9 DEF C

\* What the pool has left when the moments T are over.
BackIn(pool, T)  == {j \in Returns(problem, plan, pool) : Completion(problem, plan, j) \in T}
AskedIn(pool, T) == {d \in pool.demand : d[1] \in T}

LeftAfter(pool, T) ==
  pool.initial + Cardinality(BackIn(pool, T)) - SumOf(AskedIn(pool, T))

UpTo(M, m) == {x \in M : x <= m}

\* What the ledger reads of a pool is finite, and counts.
LEMMA PoolFacts ==
  ASSUME Written, InOrder, NEW pool \in problem.pools
  PROVE  LET M == Moments(problem, plan, pool)
         IN /\ IsFiniteSet(M) /\ M \in SUBSET Int
            /\ pool.initial \in Nat /\ problem.horizon \in Nat
            /\ IsFiniteSet(Returns(problem, plan, pool))
            /\ \A j \in Returns(problem, plan, pool) : Completion(problem, plan, j) \in M
            /\ \A d \in pool.demand : /\ d[1] \in M /\ d[2] \in Nat
                                      /\ 0 <= d[1] /\ d[1] <= problem.horizon
            /\ Quantities(pool.demand)
  <1>. DEFINE R == Returns(problem, plan, pool)
              back == {Completion(problem, plan, j) : j \in R}
              asked == {d[1] : d \in pool.demand}
              M == Moments(problem, plan, pool)
  <1>1. /\ IsFiniteSet(DOMAIN problem.unit) /\ pool.initial \in Nat /\ IsFiniteSet(pool.demand)
        /\ pool.demand \subseteq (0..problem.horizon) \X Nat
    BY WrittenFacts DEF SupplyOk
  <1>2. problem.horizon \in Nat
    BY WrittenFacts DEF ProblemOk
  <1>3. R \in SUBSET DOMAIN problem.unit /\ R \in SUBSET Returned(problem, plan)
    BY DEF Returns, Returned
  <1>4. IsFiniteSet(R)
    BY <1>1, <1>3, FS_Subset
  <1>5. \A j \in R : Completion(problem, plan, j) \in Int
    <2>1. 0 \in Int
      OBVIOUS
    <2>. HIDE DEF R
    <2>. QED
      BY <1>3, <2>1, BackMeansDone
  <1>6. M = back \cup asked
    BY DEF Moments
  <1>7. \A d \in pool.demand : d[1] \in 0..problem.horizon /\ d[2] \in Nat
    BY <1>1
  <1>8. IsFiniteSet(back)
    <2>. DEFINE f == [j \in R |-> Completion(problem, plan, j)]
    <2>1. back = {f[j] : j \in R}
      OBVIOUS
    <2>. HIDE DEF f, back, R
    <2>. QED
      BY <1>4, <2>1, ImageIsFinite
  <1>9. IsFiniteSet(asked)
    <2>. DEFINE f == [d \in pool.demand |-> d[1]]
    <2>1. asked = {f[d] : d \in pool.demand}
      OBVIOUS
    <2>. HIDE DEF f, asked
    <2>. QED
      BY <1>1, <2>1, ImageIsFinite
  <1>10. IsFiniteSet(M)
    <2>. HIDE DEF back, asked, M
    <2>. QED
      BY <1>6, <1>8, <1>9, FS_Union
  <1>11. M \in SUBSET Int
    BY <1>2, <1>5, <1>6, <1>7
  <1>12. /\ \A j \in R : Completion(problem, plan, j) \in M
         /\ \A d \in pool.demand : d[1] \in M
    BY <1>6
  <1>13. Quantities(pool.demand)
    BY <1>1, <1>7 DEF Quantities
  <1>. QED
    BY <1>1, <1>2, <1>4, <1>7, <1>10, <1>11, <1>12, <1>13

\* Both counts are numbers.
LEMMA LeftIsNumber ==
  ASSUME Written, InOrder, NEW pool \in problem.pools, NEW T
  PROVE  /\ IsFiniteSet(BackIn(pool, T)) /\ Cardinality(BackIn(pool, T)) \in Nat
         /\ Quantities(AskedIn(pool, T)) /\ SumOf(AskedIn(pool, T)) \in Int
         /\ LeftAfter(pool, T) \in Int
  <1>1. BackIn(pool, T) \in SUBSET Returns(problem, plan, pool) /\ AskedIn(pool, T) \in SUBSET pool.demand
    BY DEF BackIn, AskedIn
  <1>2. IsFiniteSet(BackIn(pool, T)) /\ Cardinality(BackIn(pool, T)) \in Nat
    <2>1. IsFiniteSet(Returns(problem, plan, pool))
      BY PoolFacts
    <2>2. IsFiniteSet(BackIn(pool, T))
      BY <1>1, <2>1, FS_Subset
    <2>. QED
      BY <2>2, FS_CardinalityType
  <1>3. Quantities(pool.demand)
    BY PoolFacts
  <1>4. Quantities(AskedIn(pool, T)) /\ SumOf(AskedIn(pool, T)) \in Int
    BY <1>1, <1>3, SumTakesOne, FS_Subset DEF Quantities
  <1>5. pool.initial \in Nat
    BY PoolFacts
  <1>. QED
    BY <1>2, <1>4, <1>5 DEF LeftAfter

\* A moment more: what comes and goes in it.
LEMMA MomentCounts ==
  ASSUME Written, InOrder, NEW pool \in problem.pools, NEW T, NEW m \in T
  PROVE  /\ Delta(problem, plan, pool, m) \in Int
         /\ LeftAfter(pool, T) = LeftAfter(pool, T \ {m}) + Delta(problem, plan, pool, m)
  <1>. DEFINE U == T \ {m}
              back(X) == BackIn(pool, X)
              asked(X) == AskedIn(pool, X)
  <1>1. Delta(problem, plan, pool, m) = Cardinality(back({m})) - SumOf(asked({m}))
    <2>1. {j \in Returns(problem, plan, pool) : Completion(problem, plan, j) = m} = back({m})
      BY DEF BackIn
    <2>2. {d \in pool.demand : d[1] = m} = asked({m})
      BY DEF AskedIn
    <2>. HIDE DEF back, asked
    <2>. QED
      BY <2>1, <2>2 DEF Delta, SumOf
  <1>2. back(T) = back(U) \cup back({m}) /\ back(U) \cap back({m}) = {}
    BY DEF BackIn
  <1>3. asked({m}) \in SUBSET asked(T) /\ asked(T) \ asked({m}) = asked(U)
    BY DEF AskedIn
  <1>4. \A X : /\ IsFiniteSet(back(X)) /\ Cardinality(back(X)) \in Nat
               /\ Quantities(asked(X)) /\ SumOf(asked(X)) \in Int
    BY LeftIsNumber
  <1>5. pool.initial \in Nat
    BY PoolFacts
  <1>6. \A X : LeftAfter(pool, X) = pool.initial + Cardinality(back(X)) - SumOf(asked(X))
    BY DEF LeftAfter
  <1>. HIDE DEF back, asked, U
  <1>7. Cardinality(back(T)) = Cardinality(back(U)) + Cardinality(back({m}))
    <2>1. Cardinality(back(U) \cap back({m})) = 0
      BY <1>2, FS_EmptySet
    <2>2. Cardinality(back(U) \cup back({m}))
            = Cardinality(back(U)) + Cardinality(back({m})) - Cardinality(back(U) \cap back({m}))
      BY <1>4, FS_Union
    <2>. QED
      BY <1>2, <1>4, <2>1, <2>2
  <1>8. SumOf(asked(T)) = SumOf(asked({m})) + SumOf(asked(U))
    BY <1>3, <1>4, SumOfBoth
  <1>. QED
    BY <1>1, <1>4, <1>5, <1>6, <1>7, <1>8 DEF U

\* The walk over the moments T tells what is left, and whether there ever was too
\* little.
WalkedTo(pool, T) ==
  {acc \in [stock : Int, worst : Int] :
     /\ acc.stock = LeftAfter(pool, T)
     /\ acc.worst < 0 <=> \E m \in T : LeftAfter(pool, UpTo(T, m)) < 0}

\* One moment of the walk.
WalkOn(acc, delta) ==
  LET left == acc.stock + delta
  IN [stock |-> left, worst |-> Min({acc.worst, left})]

LEMMA WalkTakesAMoment ==
  ASSUME Written, InOrder, NEW pool \in problem.pools,
         NEW T \in SUBSET Moments(problem, plan, pool), T # {},
         NEW acc \in WalkedTo(pool, T \ {Max(T)})
  PROVE  WalkOn(acc, Delta(problem, plan, pool, Max(T))) \in WalkedTo(pool, T)
  <1>. DEFINE m == Max(T)
              U == T \ {m}
              delta == Delta(problem, plan, pool, m)
              left == acc.stock + delta
              worst == Min({acc.worst, left})
  <1>1. T \in SUBSET Int /\ IsFiniteSet(T)
    BY PoolFacts, FS_Subset
  <1>2. m \in T /\ m \in Int /\ \A x \in T : x \in Int /\ x <= m
    BY <1>1, MaxIsGreatest
  <1>3. /\ acc.stock = LeftAfter(pool, U) /\ acc.stock \in Int /\ acc.worst \in Int
        /\ acc.worst < 0 <=> \E x \in U : LeftAfter(pool, UpTo(U, x)) < 0
    BY DEF WalkedTo
  <1>. HIDE DEF m
  <1>4. delta \in Int /\ LeftAfter(pool, T) = LeftAfter(pool, U) + delta
    BY <1>2, MomentCounts
  <1>5. left \in Int /\ left = LeftAfter(pool, T)
    <2>. HIDE DEF delta, U
    <2>. QED
      BY <1>3, <1>4
  <1>6. worst \in Int /\ (worst < 0 <=> acc.worst < 0 \/ left < 0)
    <2>. HIDE DEF left
    <2>1. \E x \in {acc.worst, left} : \A y \in {acc.worst, left} : x <= y
      BY <1>3, <1>5
    <2>2. worst \in {acc.worst, left} /\ \A y \in {acc.worst, left} : worst <= y
      BY <2>1 DEF Min
    <2>. HIDE DEF worst
    <2>. QED
      BY <1>3, <1>5, <2>2
  <1>7. UpTo(T, m) = T
    BY <1>2 DEF UpTo
  <1>8. \A x \in U : UpTo(T, x) = UpTo(U, x)
    BY <1>2 DEF UpTo
  <1>9. (acc.worst < 0 \/ left < 0) <=> \E x \in T : LeftAfter(pool, UpTo(T, x)) < 0
    <2>1. T = U \cup {m}
      BY <1>2
    <2>. HIDE DEF left, U
    <2>. QED
      BY <1>3, <1>5, <1>7, <1>8, <2>1
  <1>10. WalkOn(acc, delta) = [stock |-> left, worst |-> worst]
    BY DEF WalkOn
  <1>. HIDE DEF left, worst, delta
  <1>11. WalkOn(acc, delta) \in WalkedTo(pool, T)
    BY <1>5, <1>6, <1>9, <1>10 DEF WalkedTo
  <1>. QED
    BY <1>11 DEF delta, m

\* The walk over all moments finds too little just when there is, after one.
LEMMA WalkFindsShortage ==
  ASSUME Written, InOrder, NEW pool \in problem.pools
  PROVE  WorstStock(problem, plan, pool) < 0 <=>
           \E m \in Moments(problem, plan, pool) :
             LeftAfter(pool, UpTo(Moments(problem, plan, pool), m)) < 0
  <1>. DEFINE M == Moments(problem, plan, pool)
              start == [stock |-> pool.initial, worst |-> pool.initial]
              D(x) == Delta(problem, plan, pool, x)
              next == [T \in SUBSET M |-> Max(T)]
              Acc == [stock : Int, worst : Int]
              step == [z \in M \X Acc |-> WalkOn(z[2], D(z[1]))]
              A == [T \in SUBSET M |-> WalkedTo(pool, T)]
              walk(f) == [T \in SUBSET M |-> IF T = {} THEN start
                                             ELSE WalkOn(f[T \ {Max(T)}], D(Max(T)))]
              iter == CHOOSE f : f = walk(f)
  <1>1. IsFiniteSet(M) /\ M \in SUBSET Int /\ pool.initial \in Nat
    BY PoolFacts
  <1>2. WorstStock(problem, plan, pool) = iter[M].worst
    BY DEF WorstStock, MapThenFoldSet, WalkOn
  <1>. HIDE DEF M, D
  <1>3. ASSUME NEW T \in SUBSET M, T # {}
        PROVE  next[T] = Max(T) /\ Max(T) \in T
    <2>1. T \in SUBSET Int /\ IsFiniteSet(T)
      BY <1>1, FS_Subset
    <2>. QED
      BY <1>3, <2>1, MaxIsGreatest
  <1>4. start \in WalkedTo(pool, {})
    <2>1. BackIn(pool, {}) = {} /\ AskedIn(pool, {}) = {}
      BY DEF BackIn, AskedIn
    <2>2. Cardinality({}) = 0 /\ SumOf({}) = 0
      <3>1. Quantities(pool.demand)
        BY PoolFacts
      <3>. QED
        BY <3>1, FS_EmptySet, SumTakesOne
    <2>3. LeftAfter(pool, {}) = pool.initial
      <3>. DEFINE n == Cardinality(BackIn(pool, {}))
                  k == SumOf(AskedIn(pool, {}))
      <3>1. n = 0 /\ k = 0
        BY <2>1, <2>2, Zenon
      <3>2. LeftAfter(pool, {}) = pool.initial + n - k
        BY DEF LeftAfter
      <3>. HIDE DEF n, k
      <3>. QED
        BY <1>1, <3>1, <3>2
    <2>. QED
      BY <1>1, <2>3 DEF WalkedTo
  <1>5. \A T : WalkedTo(pool, T) \subseteq Acc
    BY DEF WalkedTo
  <1>6. ASSUME NEW T \in SUBSET M, T # {}, NEW acc \in WalkedTo(pool, T \ {Max(T)})
        PROVE  WalkOn(acc, D(Max(T))) \in WalkedTo(pool, T)
    BY <1>6, WalkTakesAMoment DEF M, D
  <1>. HIDE DEF start, Acc
  <1>7. PICK f : FoldsTo(M, start, next, step, f) /\ \A T \in SUBSET M : f[T] \in A[T]
    <2>1. Chooses(M, next)
      BY <1>3 DEF Chooses
    <2>2. start \in A[{}]
      BY <1>4
    <2>3. ASSUME NEW T \in SUBSET M, T # {}, NEW a \in A[T \ {next[T]}]
          PROVE  step[<<next[T], a>>] \in A[T]
      <3>1. next[T] = Max(T) /\ Max(T) \in M /\ T \ {Max(T)} \in SUBSET M
        BY <1>3, <2>3
      <3>2. a \in WalkedTo(pool, T \ {Max(T)})
        BY <2>3, <3>1
      <3>3. a \in Acc
        BY <1>5, <3>2
      <3>4. step[<<Max(T), a>>] = WalkOn(a, D(Max(T)))
        BY <3>1, <3>3
      <3>5. WalkOn(a, D(Max(T))) \in WalkedTo(pool, T)
        BY <1>6, <2>3, <3>2
      <3>. QED
        BY <3>1, <3>4, <3>5
    <2>. HIDE DEF A, next, step
    <2>. QED
      BY <1>1, <2>1, <2>2, <2>3, FoldStaysIn
  <1>8. f = walk(f)
    <2>1. f = [T \in SUBSET M |-> IF T = {} THEN start ELSE step[<<next[T], f[T \ {next[T]}]>>]]
      BY <1>7 DEF FoldsTo
    <2>2. ASSUME NEW T \in SUBSET M, T # {}
          PROVE  step[<<next[T], f[T \ {next[T]}]>>] = WalkOn(f[T \ {Max(T)}], D(Max(T)))
      <3>1. next[T] = Max(T) /\ Max(T) \in M /\ T \ {Max(T)} \in SUBSET M
        BY <1>3, <2>2
      <3>2. f[T \ {Max(T)}] \in Acc
        BY <1>5, <1>7, <3>1
      <3>. QED
        BY <3>1, <3>2
    <2>. HIDE DEF next, step
    <2>. QED
      BY <2>1, <2>2
  <1>9. iter = walk(iter)
    <2>. HIDE DEF walk
    <2>. QED
      BY <1>8
  <1>. HIDE DEF iter
  <1>10. \A T \in SUBSET M :
           iter[T] = IF T = {} THEN start ELSE WalkOn(iter[T \ {Max(T)}], D(Max(T)))
    BY <1>9
  <1>. DEFINE Good == {T \in SUBSET M : iter[T] \in WalkedTo(pool, T)}
  <1>11. \A T \in SUBSET M : T \in Good
    <2>1. {} \in Good
      BY <1>4, <1>10
    <2>2. ASSUME NEW T \in SUBSET M, T # {}, T \ {next[T]} \in Good
          PROVE  T \in Good
      <3>1. next[T] = Max(T)
        BY <1>3, <2>2
      <3>2. iter[T \ {Max(T)}] \in WalkedTo(pool, T \ {Max(T)})
        BY <2>2, <3>1
      <3>3. WalkOn(iter[T \ {Max(T)}], D(Max(T))) \in WalkedTo(pool, T)
        BY <1>6, <2>2, <3>2
      <3>. QED
        BY <1>10, <2>2, <3>3
    <2>3. Chooses(M, next)
      BY <1>3 DEF Chooses
    <2>. HIDE DEF Good, next
    <2>4. Inductive(M, next, Good)
      BY <2>1, <2>2 DEF Inductive
    <2>. QED
      BY <1>1, <2>3, <2>4, TakingAway
  <1>12. iter[M] \in WalkedTo(pool, M)
    BY <1>11
  <1>. QED
    BY <1>2, <1>12 DEF WalkedTo, M

\* In the minute t, the oracle counts what the moments up to t have left.
LEMMA UnitsAreCounted ==
  ASSUME Written, InOrder, NEW pool \in problem.pools, NEW t \in Int
  PROVE  UnitsLeft(pool, t) = LeftAfter(pool, UpTo(Moments(problem, plan, pool), t))
  <1>. DEFINE M == Moments(problem, plan, pool)
              done == {j \in DOMAIN problem.unit :
                         /\ problem.unit[j] = pool.unit
                         /\ CardOps(problem, j) # {}
                         /\ \A o \in CardOps(problem, j) : o \in DOMAIN plan /\ plan[o].end <= t}
              asked == {d \in pool.demand : d[1] <= t}
  <1>1. UnitsLeft(pool, t) = pool.initial + Cardinality(done) - SumOf(asked)
    BY DEF UnitsLeft, SumOf
  <1>2. asked = AskedIn(pool, UpTo(M, t))
    <2>1. \A d \in pool.demand : d[1] \in M
      BY PoolFacts
    <2>. QED
      BY <2>1 DEF AskedIn, UpTo
  <1>3. done = BackIn(pool, UpTo(M, t))
    <2>1. \A j \in Returns(problem, plan, pool) : Completion(problem, plan, j) \in M
      BY PoolFacts
    <2>2. BackIn(pool, UpTo(M, t)) =
            {j \in Returns(problem, plan, pool) : Completion(problem, plan, j) <= t}
      BY <2>1 DEF BackIn, UpTo
    <2>3. ASSUME NEW j \in DOMAIN problem.unit
          PROVE  j \in done <=> j \in Returns(problem, plan, pool) /\ Completion(problem, plan, j) <= t
      BY BackMeansDone DEF Returns
    <2>4. Returns(problem, plan, pool) \in SUBSET DOMAIN problem.unit
      BY DEF Returns, Returned
    <2>5. done \in SUBSET DOMAIN problem.unit
      OBVIOUS
    <2>. HIDE DEF done
    <2>. QED
      BY <2>2, <2>3, <2>4, <2>5
  <1>. HIDE DEF done, asked, M
  <1>. QED
    BY <1>1, <1>2, <1>3 DEF LeftAfter, M

\* Later, more is back; without demands, nothing is short.
LEMMA LeftComparesBy ==
  ASSUME Written, InOrder, NEW pool \in problem.pools, NEW T, NEW U \in SUBSET T
  PROVE  /\ AskedIn(pool, T) = AskedIn(pool, U) => LeftAfter(pool, U) <= LeftAfter(pool, T)
         /\ AskedIn(pool, T) = {} => LeftAfter(pool, T) >= 0
  <1>1. BackIn(pool, U) \in SUBSET BackIn(pool, T)
    BY DEF BackIn
  <1>2. \A X : /\ IsFiniteSet(BackIn(pool, X)) /\ Cardinality(BackIn(pool, X)) \in Nat
               /\ SumOf(AskedIn(pool, X)) \in Int
    BY LeftIsNumber
  <1>3. pool.initial \in Nat /\ Quantities(pool.demand)
    BY PoolFacts
  <1>4. Cardinality(BackIn(pool, U)) <= Cardinality(BackIn(pool, T))
    BY <1>1, <1>2, FewerRows
  <1>5. SumOf({}) = 0
    BY <1>3, SumTakesOne
  <1>. DEFINE n(X) == Cardinality(BackIn(pool, X))
              k(X) == SumOf(AskedIn(pool, X))
  <1>6. \A X : LeftAfter(pool, X) = pool.initial + n(X) - k(X)
    BY DEF LeftAfter
  <1>7. AskedIn(pool, T) = AskedIn(pool, U) => k(T) = k(U)
    OBVIOUS
  <1>8. AskedIn(pool, T) = {} => k(T) = 0
    BY <1>5
  <1>9. \A X : n(X) \in Nat /\ k(X) \in Int
    BY <1>2
  <1>10. n(U) <= n(T)
    BY <1>4
  <1>. HIDE DEF n, k
  <1>. QED
    BY <1>3, <1>6, <1>7, <1>8, <1>9, <1>10

\* The walk finds too little just when there is, in some minute of the horizon.
LEMMA ShortageIsMinute ==
  ASSUME Written, InOrder, NEW pool \in problem.pools
  PROVE  WorstStock(problem, plan, pool) < 0 <=> \E t \in 0..problem.horizon : UnitsLeft(pool, t) < 0
  <1>. DEFINE M == Moments(problem, plan, pool)
              left(t) == LeftAfter(pool, UpTo(M, t))
              asked(t) == AskedIn(pool, UpTo(M, t))
  <1>1. /\ IsFiniteSet(M) /\ M \in SUBSET Int /\ problem.horizon \in Nat
        /\ \A d \in pool.demand : d[1] \in M /\ d[1] \in Int /\ 0 <= d[1] /\ d[1] <= problem.horizon
    BY PoolFacts
  <1>2. \A t \in Int : UnitsLeft(pool, t) = left(t)
    BY UnitsAreCounted
  <1>3. \A t \in Int : left(t) \in Int
    BY LeftIsNumber
  <1>4. \A t : asked(t) = {d \in pool.demand : d[1] <= t}
    BY <1>1 DEF AskedIn, UpTo
  <1>5. ASSUME NEW t \in Int, left(t) < 0
        PROVE  asked(t) # {}
    <2>1. asked(t) = {} => left(t) >= 0
      BY LeftComparesBy
    <2>. HIDE DEF left, asked
    <2>. QED
      BY <1>3, <1>5, <2>1
  <1>6. ASSUME NEW m \in M, left(m) < 0
        PROVE  \E t \in 0..problem.horizon : left(t) < 0
    <2>1. m \in Int /\ 0 <= m
      <3>1. m \in Int
        BY <1>1
      <3>2. PICK d \in asked(m) : TRUE
        BY <1>5, <1>6, <3>1
      <3>3. d \in pool.demand /\ d[1] <= m
        BY <1>4
      <3>. QED
        BY <1>1, <3>1, <3>3
    <2>2. CASE m <= problem.horizon
      BY <1>1, <1>6, <2>1, <2>2
    <2>3. CASE m > problem.horizon
      <3>1. asked(m) = asked(problem.horizon)
        <4>1. \A d \in pool.demand : d[1] <= m /\ d[1] <= problem.horizon
          BY <1>1, <2>1, <2>3
        <4>2. asked(m) = pool.demand /\ asked(problem.horizon) = pool.demand
          <5>. HIDE DEF asked
          <5>. QED
            BY <1>4, <4>1
        <4>. QED
          BY <4>2
      <3>2. UpTo(M, problem.horizon) \in SUBSET UpTo(M, m)
        BY <1>1, <2>1, <2>3 DEF UpTo
      <3>3. left(problem.horizon) <= left(m)
        BY <3>1, <3>2, LeftComparesBy
      <3>4. problem.horizon \in 0..problem.horizon /\ problem.horizon \in Int
        BY <1>1
      <3>. HIDE DEF left
      <3>. QED
        BY <1>3, <1>6, <2>1, <3>3, <3>4
    <2>. QED
      BY <1>1, <2>1, <2>2, <2>3
  <1>7. ASSUME NEW t \in 0..problem.horizon, left(t) < 0
        PROVE  \E m \in M : left(m) < 0
    <2>. DEFINE T == UpTo(M, t)
                m == Max(T)
    <2>1. t \in Int
      OBVIOUS
    <2>2. PICK d \in asked(t) : TRUE
      BY <1>5, <1>7, <2>1
    <2>3. T \in SUBSET M /\ T # {}
      BY <2>2 DEF AskedIn, UpTo
    <2>4. T \in SUBSET Int /\ IsFiniteSet(T)
      BY <1>1, <2>3, FS_Subset
    <2>5. m \in T /\ \A x \in T : x <= m
      <3>. HIDE DEF T
      <3>. QED
        BY <2>3, <2>4, MaxIsGreatest
    <2>6. UpTo(M, m) = T
      <3>. HIDE DEF m
      <3>. QED
        BY <1>1, <2>1, <2>5 DEF UpTo
    <2>7. left(m) = left(t)
      BY <2>6
    <2>. HIDE DEF m, T, left
    <2>. QED
      BY <1>7, <2>3, <2>5, <2>7
  <1>8. WorstStock(problem, plan, pool) < 0 <=> \E m \in M : left(m) < 0
    BY WalkFindsShortage
  <1>9. \A t \in 0..problem.horizon : UnitsLeft(pool, t) = left(t)
    BY <1>2
  <1>. HIDE DEF M, left
  <1>. QED
    BY <1>6, <1>7, <1>8, <1>9

\* StockoutsAreMinutes, in a state.
LEMMA StockoutIsMinute ==
  ASSUME Written
  PROVE  StockoutsAreMinutes
  <1>. SUFFICES ASSUME InOrder, NEW pool \in problem.pools
                PROVE  <<"EXCHANGE_POOL_STOCKOUT", pool.unit>> \in Stockouts(problem, plan) <=>
                         pool.hard /\ \E t \in 0..problem.horizon : UnitsLeft(pool, t) < 0
    BY DEF StockoutsAreMinutes, InOrder
  <1>. DEFINE short == {x \in problem.pools : x.hard /\ WorstStock(problem, plan, x) < 0}
  <1>1. \A x, y \in problem.pools : x.unit = y.unit => x = y
    BY WrittenFacts DEF SupplyOk
  <1>2. Stockouts(problem, plan) = {<<"EXCHANGE_POOL_STOCKOUT", x.unit>> : x \in short}
    BY DEF Stockouts
  <1>3. short \in SUBSET problem.pools
    OBVIOUS
  <1>4. <<"EXCHANGE_POOL_STOCKOUT", pool.unit>> \in Stockouts(problem, plan) <=> pool \in short
    <2>. HIDE DEF short
    <2>. QED
      BY <1>1, <1>2, <1>3
  <1>5. pool \in short <=> pool.hard /\ WorstStock(problem, plan, pool) < 0
    OBVIOUS
  <1>. HIDE DEF short
  <1>. QED
    BY <1>4, <1>5, ShortageIsMinute

-----------------------------------------------------------------------------
(***************************************************************************)
(* The theorems.                                                           *)
(***************************************************************************)
\* Every plan that a shop may write is one of rows that the program can read.
THEOREM PlansAreWritten == Spec => []Written
  <1>1. Init => Written
    BY DEF Init, Written
  <1>2. Written /\ [Next]_vars => Written'
    <2>. SUFFICES ASSUME Written, [Next]_vars PROVE Written'
      OBVIOUS
    <2>1. CASE UNCHANGED vars
      BY <2>1 DEF Written, vars
    <2>2. ASSUME NEW o \in problem.ops, Write(o)
          PROVE  Written'
      <3>1. PICK r \in RowsFor(problem, o) : plan' = With(plan, o, r)
        BY <2>2 DEF Write
      <3>2. WrittenRowOk(r)
        BY RowsAssumption DEF Written
      <3>3. DOMAIN plan' = DOMAIN plan \cup {o} /\ \A q \in DOMAIN plan' : plan'[q] = IF q = o THEN r ELSE plan[q]
        BY <3>1 DEF With
      <3>4. problem' = problem
        BY <2>2 DEF Write
      <3>. QED
        BY <3>2, <3>3, <3>4 DEF Written
    <2>. QED
      BY <2>1, <2>2 DEF Next
  <1>. QED
    BY <1>1, <1>2, PTL DEF Spec

\* The sweep of _resource_overlaps finds something just when a post, a crew or a
\* tool holds more rows in some minute than it can.
THEOREM SweepIsExact == Spec => []OverlapsAreMinutes
  <1>1. Written => OverlapsAreMinutes
    BY OverlapsAreOverfullMinutes
  <1>. QED
    BY <1>1, PlansAreWritten, PTL

\* Where lanes are named, or a post has one, the notary finds a fault with the
\* setups just when no assignment of rows to lanes explains them.
THEOREM LanesAreJudgedExactly == Spec => []NamedLanesAreJudgedExactly
  <1>1. Written => NamedLanesAreJudgedExactly
    BY LanesAreJudged
  <1>. QED
    BY <1>1, PlansAreWritten, PTL

\* A plan in which the notary finds nothing is complete; in every minute its
\* posts, crews, tools and spares suffice and are open, its links hold, and some
\* assignment of rows to lanes explains its setups.
THEOREM CleanPlansAreFeasible == Spec => []CleanPlanIsFeasible
  <1>1. Written => CleanPlanIsFeasible
    BY CleanMeansFeasible
  <1>. QED
    BY <1>1, PlansAreWritten, PTL

\* Stamping the canonical lanes neither hides nor makes a finding other than about
\* setups, and every row of a post that fits then has a lane.
THEOREM StampsOnlyNameLanes == Spec => []StampingOnlyNamesLanes
  <1>1. Written => StampingOnlyNamesLanes
    BY StampsNameLanes
  <1>. QED
    BY <1>1, PlansAreWritten, PTL

\* A plan that keeps its links, of rows that end after they start, runs out of a
\* unit in the eyes of the ledger just when in some minute more of them were
\* promised than there were and than cards were done.
THEOREM StockoutsAreReal == Spec => []StockoutsAreMinutes
  <1>1. Written => StockoutsAreMinutes
    BY StockoutIsMinute
  <1>. QED
    BY <1>1, PlansAreWritten, PTL
=============================================================================
