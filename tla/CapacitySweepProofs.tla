------------------------- MODULE CapacitySweepProofs -------------------------
(***************************************************************************)
(* Both walks of capacity.py are exact, for any rows, weights and          *)
(* capacity.                                                               *)
(*                                                                         *)
(* The argument: what is open are the rows that have started and not ended *)
(* among the events seen so far, and the events seen so far come before    *)
(* all that are pending.  When the events up to some minute t have all     *)
(* been seen, the open rows are those that cover t.  If the last event     *)
(* brought a row, an overload at t was reported then; if it took one away, *)
(* there was more in use before it, and it was reported already.  The      *)
(* running sum of the other walk is the weight of its own open rows.       *)
(***************************************************************************)
EXTENDS CapacitySweep, FiniteSetTheorems, TLAPS

\* What was seen comes before what is pending.
SeenFirst(P) == \A e \in P, f \in Events \ P : Precedes(f, e)

\* The open rows have started and not ended, when the events of P are to come.
OpenFor(P) == {r \in Rows : Proper(r) /\ StartOf(r) \notin P /\ EndOf(r) \in P}

\* The minutes of which all events have been seen.
Passed(t, P) == \A e \in P : t < e.at

OpenRows == open = OpenFor(watching)

\* A full resource has been reported.
FullIsReported == Taken(open) > Capacity => witnesses # {}

\* An overload at a minute that has passed has been reported.
PastIsReported ==
  \A t \in Int : Passed(t, watching) /\ Demand(t) > Capacity => witnesses # {}

\* The running sum is what the rows that are open take, and no more than the peak.
SumIsTaken == active = Taken(OpenFor(counting)) /\ active <= peak

\* No minute that has passed takes more than the peak, and some minute as much.
PastIsUnderPeak == \A t \in Int : Passed(t, counting) => Demand(t) <= peak
PeakIsReached   == peak = 0 \/ \E t \in Times : peak <= Demand(t)

SweepInv == /\ TypeOK
            /\ SeenFirst(watching) /\ OpenRows /\ FullIsReported
            /\ PastIsReported /\ WitnessesAreReal
            /\ SeenFirst(counting) /\ SumIsTaken /\ PastIsUnderPeak /\ PeakIsReached

-----------------------------------------------------------------------------
(***************************************************************************)
(* Rows and what they take.                                                *)
(***************************************************************************)
LEMMA UnitsOfRow ==
  ASSUME TypeOK, NEW r \in Rows
  PROVE  /\ IsFiniteSet({r} \X (1..weight[r]))
         /\ Cardinality({r} \X (1..weight[r])) = weight[r]
         /\ weight[r] \in Nat
  <1>1. weight[r] \in Nat
    BY WeightsAssumption DEF TypeOK
  <1>2. IsFiniteSet(1..weight[r]) /\ Cardinality(1..weight[r]) = weight[r]
    BY <1>1, FS_Interval
  <1>3. IsFiniteSet({r}) /\ Cardinality({r}) = 1
    BY FS_Singleton
  <1>4. /\ IsFiniteSet({r} \X (1..weight[r]))
        /\ Cardinality({r} \X (1..weight[r])) = Cardinality({r}) * Cardinality(1..weight[r])
    BY <1>2, <1>3, FS_Product
  <1>. QED
    BY <1>1, <1>2, <1>3, <1>4

\* Rows take finitely many units, and more rows no fewer.
LEMMA RowSets ==
  ASSUME TypeOK, NEW S \in SUBSET Rows, NEW T \in SUBSET S
  PROVE  /\ IsFiniteSet(Units(S)) /\ Taken(S) \in Nat /\ Taken(T) \in Nat
         /\ Taken(T) <= Taken(S)
  <1>1. IsFiniteSet({{r} \X (1..weight[r]) : r \in S})
    <2>. DEFINE f == [r \in S |-> {r} \X (1..weight[r])]
    <2>1. IsFiniteSet(S)
      BY RowsAssumption, FS_Subset
    <2>2. f \in Surjection(S, {f[r] : r \in S})
      BY DEF Surjection
    <2>3. IsFiniteSet({f[r] : r \in S})
      BY <2>1, <2>2, FS_Surjection
    <2>4. {f[r] : r \in S} = {{r} \X (1..weight[r]) : r \in S}
      OBVIOUS
    <2>. QED
      BY <2>3, <2>4
  <1>2. \A U \in {{r} \X (1..weight[r]) : r \in S} : IsFiniteSet(U)
    BY UnitsOfRow
  <1>3. IsFiniteSet(Units(S))
    BY <1>1, <1>2, FS_UNION DEF Units
  <1>4. Units(T) \subseteq Units(S)
    BY DEF Units
  <1>. QED
    BY <1>3, <1>4, FS_Subset, FS_CardinalityType DEF Taken

\* One more row takes its weight more.
LEMMA OneMoreRow ==
  ASSUME TypeOK, NEW S \in SUBSET Rows, NEW r \in Rows, r \notin S
  PROVE  Taken(S \cup {r}) = Taken(S) + weight[r]
  <1>. DEFINE u == {r} \X (1..weight[r])
  <1>1. Units(S \cup {r}) = Units(S) \cup u
    BY DEF Units
  <1>2. Units(S) \cap u = {}
    BY DEF Units
  <1>3. IsFiniteSet(Units(S)) /\ Taken(S) \in Nat
    BY RowSets
  <1>4. IsFiniteSet(u) /\ Cardinality(u) = weight[r] /\ weight[r] \in Nat
    BY UnitsOfRow
  <1>. HIDE DEF u
  <1>5. Cardinality(Units(S) \cup u)
          = Cardinality(Units(S)) + Cardinality(u) - Cardinality(Units(S) \cap u)
    BY <1>3, <1>4, FS_Union
  <1>6. Cardinality(Units(S) \cap u) = 0
    BY <1>2, FS_EmptySet
  <1>7. Taken(S \cup {r}) = Taken(S) + weight[r] - 0
    BY <1>1, <1>4, <1>5, <1>6 DEF Taken
  <1>. QED
    BY <1>3, <1>4, <1>7

LEMMA NoRowsTakeNothing == Taken({}) = 0
  <1>1. Units({}) = {}
    BY DEF Units
  <1>. QED
    BY <1>1, FS_EmptySet DEF Taken

-----------------------------------------------------------------------------
(***************************************************************************)
(* What both walks have in common: the order of the events.                *)
(***************************************************************************)
\* Every event is the start or the end of a proper row.
LEMMA EventForm ==
  ASSUME TypeOK, NEW e \in Events
  PROVE  /\ e.row \in Rows /\ Proper(e.row) /\ e.at \in Int
         /\ e.kind = 1 => e = StartOf(e.row)
         /\ e.kind = 0 => e = EndOf(e.row)
  BY TimesAssumption DEF TypeOK, Events, StartOf, EndOf

\* Once the events up to t have been seen, the open rows are those that cover t.
LEMMA OpenIsLive ==
  ASSUME TypeOK, NEW P, NEW t \in Int, Passed(t, P),
         \A f \in Events \ P : f.at <= t
  PROVE  OpenFor(P) = LiveAt(t)
  <1>1. ASSUME NEW r \in Rows, Proper(r)
        PROVE  /\ StartOf(r) \notin P <=> from[r] <= t
               /\ EndOf(r) \in P <=> t < to[r]
    <2>1. StartOf(r) \in Events /\ EndOf(r) \in Events
      BY <1>1 DEF Events
    <2>2. from[r] \in Int /\ to[r] \in Int
      BY TimesAssumption DEF TypeOK
    <2>. QED
      BY <2>1, <2>2 DEF StartOf, EndOf, Passed
  <1>2. \A r \in Rows : from[r] \in Int /\ to[r] \in Int
    BY TimesAssumption DEF TypeOK
  <1>3. \A r \in Rows : from[r] <= t /\ t < to[r] => Proper(r)
    BY <1>2 DEF Proper
  <1>. QED
    BY <1>1, <1>3 DEF OpenFor, LiveAt

\* The first event to come, whichever kind it is.
LEMMA FirstFacts ==
  ASSUME TypeOK, NEW P \in SUBSET Events, SeenFirst(P), NEW e, First(e, P)
  PROVE  /\ e \in Events /\ e.at \in Int
         /\ SeenFirst(P \ {e})
         /\ \A f \in Events \ (P \ {e}) : f.at <= e.at
         /\ \A t \in Int : Passed(t, P \ {e}) /\ ~Passed(t, P) =>
              \A f \in Events \ (P \ {e}) : f.at <= t
  <1>1. e \in P /\ \A f \in P \ {e} : Precedes(e, f)
    BY DEF First
  <1>2. \A f \in Events : f.at \in Int
    BY EventForm
  <1>3. SeenFirst(P \ {e})
    BY <1>1 DEF SeenFirst
  <1>4. \A f \in Events \ (P \ {e}) : f.at <= e.at
    BY <1>1, <1>2 DEF SeenFirst, Precedes
  <1>5. ASSUME NEW t \in Int, Passed(t, P \ {e}), ~Passed(t, P)
        PROVE  e.at <= t
    BY <1>1, <1>2, <1>5 DEF Passed
  <1>. QED
    BY <1>1, <1>2, <1>3, <1>4, <1>5

\* An end closes a row that was open.
LEMMA EndCloses ==
  ASSUME TypeOK, NEW P \in SUBSET Events, SeenFirst(P), NEW e, First(e, P), e.kind = 0
  PROVE  /\ e.row \in Rows /\ e.row \in OpenFor(P)
         /\ OpenFor(P \ {e}) = OpenFor(P) \ {e.row}
  <1>1. e \in P /\ e \in Events /\ e = EndOf(e.row) /\ e.row \in Rows /\ Proper(e.row)
    BY EventForm DEF First
  <1>2. \A r \in Rows : StartOf(r) # e /\ (EndOf(r) = e <=> r = e.row)
    BY <1>1 DEF StartOf, EndOf
  <1>3. StartOf(e.row) \notin P
    <2>1. from[e.row] \in Int /\ to[e.row] \in Int /\ from[e.row] < to[e.row]
      BY <1>1, TimesAssumption DEF TypeOK, Proper
    <2>2. ~Precedes(e, StartOf(e.row))
      BY <1>1, <2>1 DEF Precedes, StartOf, EndOf
    <2>. QED
      BY <1>1, <1>2, <2>2 DEF First
  <1>. QED
    BY <1>1, <1>2, <1>3 DEF OpenFor

\* A start opens a row that was not open.
LEMMA StartOpens ==
  ASSUME TypeOK, NEW P \in SUBSET Events, SeenFirst(P), NEW e, First(e, P), e.kind = 1
  PROVE  /\ e.row \in Rows /\ e.row \notin OpenFor(P)
         /\ OpenFor(P \ {e}) = OpenFor(P) \cup {e.row}
  <1>1. e \in P /\ e \in Events /\ e = StartOf(e.row) /\ e.row \in Rows /\ Proper(e.row)
    BY EventForm DEF First
  <1>2. \A r \in Rows : EndOf(r) # e /\ (StartOf(r) = e <=> r = e.row)
    BY <1>1 DEF StartOf, EndOf
  <1>3. EndOf(e.row) \in P
    <2>1. from[e.row] \in Int /\ to[e.row] \in Int /\ from[e.row] < to[e.row]
      BY <1>1, TimesAssumption DEF TypeOK, Proper
    <2>2. ~Precedes(EndOf(e.row), e)
      BY <1>1, <2>1 DEF Precedes, StartOf, EndOf
    <2>3. EndOf(e.row) \in Events
      BY <1>1 DEF Events
    <2>. QED
      BY <1>1, <2>2, <2>3 DEF SeenFirst
  <1>. QED
    BY <1>1, <1>2, <1>3 DEF OpenFor

\* The rows open after a start cover the minute in which it comes.
LEMMA OpenCoverArrival ==
  ASSUME TypeOK, NEW P \in SUBSET Events, SeenFirst(P), NEW e, First(e, P), e.kind = 1
  PROVE  /\ OpenFor(P \ {e}) \subseteq LiveAt(from[e.row])
         /\ from[e.row] \in Times
  <1>1. e \in P /\ e \in Events /\ e = StartOf(e.row) /\ e.row \in Rows /\ e.at \in Int
    BY EventForm DEF First
  <1>2. e.at = from[e.row]
    BY <1>1 DEF StartOf
  <1>3. ASSUME NEW r \in OpenFor(P \ {e}) PROVE r \in LiveAt(e.at)
    <2>1. /\ r \in Rows /\ Proper(r) /\ StartOf(r) \in Events \ (P \ {e})
          /\ EndOf(r) \in P \ {e}
      BY <1>3 DEF OpenFor, Events
    <2>2. from[r] <= e.at
      <3>1. \A f \in Events \ (P \ {e}) : f.at <= e.at
        BY FirstFacts
      <3>2. StartOf(r).at <= e.at
        BY <2>1, <3>1
      <3>. QED
        BY <3>2 DEF StartOf
    <2>3. Precedes(e, EndOf(r))
      BY <2>1 DEF First
    <2>4. e.at < to[r]
      BY <1>1, <2>1, <2>3, TimesAssumption DEF Precedes, EndOf, TypeOK
    <2>. QED
      BY <2>1, <2>2, <2>4 DEF LiveAt
  <1>. QED
    BY <1>1, <1>2, <1>3 DEF TypeOK

\* Nothing is asked of the rows but that they stay the same.
LEMMA RowsStay ==
  ASSUME UNCHANGED rowVars
  PROVE  /\ Events' = Events
         /\ \A P : SeenFirst(P)' <=> SeenFirst(P)
         /\ \A P : OpenFor(P)' = OpenFor(P)
         /\ \A S : Taken(S)' = Taken(S)
         /\ \A t : Demand(t)' = Demand(t)
  BY DEF rowVars, Events, SeenFirst, OpenFor, StartOf, EndOf, Proper, Taken, Units, Demand, LiveAt

-----------------------------------------------------------------------------
(***************************************************************************)
(* Each step keeps the invariant.                                          *)
(***************************************************************************)
LEMMA SweepInit == Init => SweepInv
  <1>. SUFFICES ASSUME Init PROVE SweepInv
    OBVIOUS
  <1>1. TypeOK
    BY DEF Init, TypeOK
  <1>2. SeenFirst(Events) /\ OpenFor(Events) = {}
    BY DEF SeenFirst, OpenFor, Events
  <1>3. OpenRows /\ WitnessesAreReal
    BY <1>2 DEF Init, OpenRows, WitnessesAreReal
  <1>4. FullIsReported /\ SumIsTaken /\ PeakIsReached
    BY <1>2, NoRowsTakeNothing, CapacityAssumption
    DEF Init, FullIsReported, SumIsTaken, PeakIsReached
  <1>5. ASSUME NEW t \in Int, Passed(t, Events) PROVE Demand(t) = 0
    <2>1. LiveAt(t) = {}
      BY <1>1, <1>2, <1>5, OpenIsLive
    <2>. QED
      BY <2>1, NoRowsTakeNothing DEF Demand
  <1>6. PastIsReported /\ PastIsUnderPeak
    BY <1>5, CapacityAssumption DEF Init, PastIsReported, PastIsUnderPeak
  <1>. QED
    BY <1>1, <1>2, <1>3, <1>4, <1>6 DEF Init, SweepInv

LEMMA LeaveKeeps ==
  ASSUME SweepInv, NEW e \in watching, Leave(e)
  PROVE  SweepInv'
  <1>1. /\ First(e, watching) /\ e.kind = 0 /\ open' = open \ {e.row}
        /\ witnesses' = witnesses /\ watching' = watching \ {e}
        /\ UNCHANGED rowVars /\ UNCHANGED peakVars
    BY DEF Leave, Watch
  <1>2. /\ TypeOK /\ watching \in SUBSET Events /\ SeenFirst(watching) /\ open \in SUBSET Rows
    BY DEF SweepInv, TypeOK
  <1>3. /\ e.row \in Rows /\ OpenFor(watching \ {e}) = OpenFor(watching) \ {e.row}
        /\ SeenFirst(watching \ {e})
        /\ \A t \in Int : Passed(t, watching \ {e}) /\ ~Passed(t, watching) =>
             \A f \in Events \ (watching \ {e}) : f.at <= t
    BY <1>1, <1>2, EndCloses, FirstFacts
  <1>4. /\ Events' = Events /\ \A P : SeenFirst(P)' <=> SeenFirst(P)
        /\ \A P : OpenFor(P)' = OpenFor(P) /\ \A S : Taken(S)' = Taken(S)
        /\ \A t : Demand(t)' = Demand(t)
    BY <1>1, RowsStay
  <1>5. TypeOK'
    BY <1>1, <1>2, <1>4 DEF TypeOK, rowVars, peakVars
  <1>6. open' = OpenFor(watching \ {e}) /\ OpenRows'
    BY <1>1, <1>3, <1>4 DEF SweepInv, OpenRows
  <1>7. Taken(open \ {e.row}) > Capacity => witnesses # {}
    <2>1. Taken(open \ {e.row}) <= Taken(open) /\ Taken(open) \in Nat /\ Taken(open \ {e.row}) \in Nat
      BY <1>2, RowSets
    <2>. QED
      BY <2>1, CapacityAssumption DEF SweepInv, FullIsReported
  <1>8. FullIsReported'
    BY <1>1, <1>4, <1>7 DEF FullIsReported
  <1>9. ASSUME NEW t \in Int, Passed(t, watching \ {e}), Demand(t) > Capacity
        PROVE  witnesses # {}
    <2>1. CASE Passed(t, watching)
      BY <1>9, <2>1 DEF SweepInv, PastIsReported
    <2>2. CASE ~Passed(t, watching)
      <3>1. OpenFor(watching \ {e}) = LiveAt(t)
        BY <1>2, <1>3, <1>9, <2>2, OpenIsLive
      <3>. QED
        BY <1>1, <1>6, <1>7, <1>9, <3>1 DEF Demand
    <2>. QED
      BY <2>1, <2>2
  <1>10. PastIsReported'
    BY <1>1, <1>4, <1>9 DEF PastIsReported, Passed
  <1>11. WitnessesAreReal'
    BY <1>1, <1>4 DEF SweepInv, WitnessesAreReal, rowVars
  <1>12. (SeenFirst(counting) /\ SumIsTaken /\ PastIsUnderPeak /\ PeakIsReached)'
    BY <1>1, <1>4
    DEF SweepInv, SumIsTaken, PastIsUnderPeak, PeakIsReached, Passed, peakVars
  <1>. QED
    BY <1>1, <1>3, <1>4, <1>5, <1>6, <1>8, <1>10, <1>11, <1>12 DEF SweepInv

LEMMA ArriveKeeps ==
  ASSUME SweepInv, NEW e \in watching, Arrive(e)
  PROVE  SweepInv'
  <1>1. /\ First(e, watching) /\ e.kind = 1 /\ open' = open \cup {e.row}
        /\ witnesses' = IF Taken(open') <= Capacity THEN witnesses ELSE witnesses \cup {e.row}
        /\ watching' = watching \ {e}
        /\ UNCHANGED rowVars /\ UNCHANGED peakVars
    BY DEF Arrive, Watch
  <1>2. /\ TypeOK /\ watching \in SUBSET Events /\ SeenFirst(watching) /\ open \in SUBSET Rows
    BY DEF SweepInv, TypeOK
  <1>3. /\ e.row \in Rows /\ OpenFor(watching \ {e}) = OpenFor(watching) \cup {e.row}
        /\ SeenFirst(watching \ {e})
        /\ \A t \in Int : Passed(t, watching \ {e}) /\ ~Passed(t, watching) =>
             \A f \in Events \ (watching \ {e}) : f.at <= t
    BY <1>1, <1>2, StartOpens, FirstFacts
  <1>4. /\ Events' = Events /\ \A P : SeenFirst(P)' <=> SeenFirst(P)
        /\ \A P : OpenFor(P)' = OpenFor(P) /\ \A S : Taken(S)' = Taken(S)
        /\ \A t : Demand(t)' = Demand(t)
    BY <1>1, RowsStay
  <1>5. TypeOK'
    BY <1>1, <1>2, <1>3, <1>4 DEF TypeOK, rowVars, peakVars
  <1>6. open' = OpenFor(watching \ {e}) /\ OpenRows'
    BY <1>1, <1>3, <1>4 DEF SweepInv, OpenRows
  <1>. DEFINE now == open \cup {e.row}
  <1>7. Taken(now) \in Nat /\ now \in SUBSET Rows
    BY <1>2, <1>3, RowSets
  <1>8. Taken(now) > Capacity => e.row \in witnesses'
    <2>1. open' = now
      BY <1>1
    <2>. HIDE DEF now
    <2>. QED
      BY <1>1, <1>7, <2>1, CapacityAssumption
  <1>9. FullIsReported'
    BY <1>1, <1>4, <1>8 DEF FullIsReported
  <1>10. ASSUME NEW t \in Int, Passed(t, watching \ {e}), Demand(t) > Capacity
         PROVE  witnesses' # {}
    <2>1. CASE Passed(t, watching)
      BY <1>1, <1>10, <2>1 DEF SweepInv, PastIsReported
    <2>2. CASE ~Passed(t, watching)
      <3>1. OpenFor(watching \ {e}) = LiveAt(t)
        BY <1>2, <1>3, <1>10, <2>2, OpenIsLive
      <3>. QED
        BY <1>1, <1>6, <1>8, <1>10, <3>1 DEF Demand
    <2>. QED
      BY <2>1, <2>2
  <1>11. PastIsReported'
    BY <1>1, <1>4, <1>10 DEF PastIsReported, Passed
  <1>12. ASSUME ~(Taken(now) <= Capacity) PROVE Demand(from[e.row]) > Capacity
    <2>1. now \subseteq LiveAt(from[e.row]) /\ LiveAt(from[e.row]) \in SUBSET Rows
      BY <1>1, <1>2, <1>6, OpenCoverArrival DEF LiveAt
    <2>2. Taken(now) <= Demand(from[e.row]) /\ Demand(from[e.row]) \in Nat
      BY <1>2, <2>1, RowSets DEF Demand
    <2>. HIDE DEF now
    <2>. QED
      BY <1>7, <1>12, <2>2, CapacityAssumption
  <1>13. WitnessesAreReal'
    BY <1>1, <1>4, <1>12 DEF SweepInv, WitnessesAreReal, rowVars
  <1>14. (SeenFirst(counting) /\ SumIsTaken /\ PastIsUnderPeak /\ PeakIsReached)'
    BY <1>1, <1>4
    DEF SweepInv, SumIsTaken, PastIsUnderPeak, PeakIsReached, Passed, peakVars
  <1>. QED
    BY <1>1, <1>3, <1>4, <1>5, <1>6, <1>9, <1>11, <1>13, <1>14 DEF SweepInv

\* The running sum after a step of the other walk.
LEMMA CountKeeps ==
  ASSUME SweepInv, NEW e \in counting, CountEnd(e) \/ CountStart(e)
  PROVE  SweepInv'
  <1>. DEFINE rest == counting \ {e}
              now  == Taken(OpenFor(rest))
  <1>1. /\ First(e, counting) /\ e.kind \in {0, 1} /\ counting' = rest
        /\ UNCHANGED rowVars /\ UNCHANGED watchVars
    BY DEF CountEnd, CountStart, Count
  <1>2. /\ TypeOK /\ counting \in SUBSET Events /\ SeenFirst(counting)
        /\ active = Taken(OpenFor(counting)) /\ active <= peak
        /\ active \in Int /\ peak \in Nat
    BY DEF SweepInv, TypeOK, SumIsTaken
  <1>3. /\ SeenFirst(rest) /\ rest \in SUBSET Events
        /\ \A t \in Int : Passed(t, rest) /\ ~Passed(t, counting) =>
             \A f \in Events \ rest : f.at <= t
    BY <1>1, <1>2, FirstFacts
  <1>4. /\ Events' = Events /\ \A P : SeenFirst(P)' <=> SeenFirst(P)
        /\ \A P : OpenFor(P)' = OpenFor(P) /\ \A S : Taken(S)' = Taken(S)
        /\ \A t : Demand(t)' = Demand(t)
    BY <1>1, RowsStay
  <1>5. \A P : OpenFor(P) \in SUBSET Rows
    BY DEF OpenFor
  <1>6. /\ active' = now /\ now \in Nat /\ now <= peak' /\ peak <= peak' /\ peak' \in Nat
        /\ peak' = peak \/ (e.kind = 1 /\ peak' = now)
    <2>1. now \in Nat
      BY <1>2, <1>5, RowSets
    <2>2. CASE e.kind = 0
      <3>1. /\ e.row \in Rows /\ e.row \in OpenFor(counting)
            /\ OpenFor(rest) = OpenFor(counting) \ {e.row}
        BY <1>1, <1>2, <2>2, EndCloses
      <3>2. OpenFor(counting) = OpenFor(rest) \cup {e.row} /\ e.row \notin OpenFor(rest)
        BY <3>1
      <3>3. active = now + weight[e.row] /\ weight[e.row] \in Nat
        BY <1>2, <1>5, <3>1, <3>2, OneMoreRow, UnitsOfRow
      <3>4. active' = active - weight[e.row] /\ peak' = peak
        BY <2>2 DEF CountEnd, CountStart
      <3>. HIDE DEF now
      <3>. QED
        BY <1>2, <2>1, <3>3, <3>4
    <2>3. CASE e.kind = 1
      <3>1. /\ e.row \in Rows /\ e.row \notin OpenFor(counting)
            /\ OpenFor(rest) = OpenFor(counting) \cup {e.row}
        BY <1>1, <1>2, <2>3, StartOpens
      <3>2. now = active + weight[e.row] /\ weight[e.row] \in Nat
        BY <1>2, <1>5, <3>1, OneMoreRow, UnitsOfRow
      <3>3. active' = active + weight[e.row] /\ peak' = IF active' > peak THEN active' ELSE peak
        BY <2>3 DEF CountEnd, CountStart
      <3>. HIDE DEF now
      <3>. QED
        BY <1>2, <2>1, <2>3, <3>2, <3>3
    <2>. QED
      BY <1>1, <2>2, <2>3
  <1>7. TypeOK'
    BY <1>1, <1>2, <1>3, <1>4, <1>6 DEF TypeOK, rowVars, watchVars
  <1>8. SumIsTaken'
    BY <1>1, <1>4, <1>6 DEF SumIsTaken
  <1>9. ASSUME NEW t \in Int, Passed(t, rest) PROVE Demand(t) <= peak'
    <2>1. Demand(t) \in Nat
      BY <1>2, RowSets DEF Demand, LiveAt
    <2>2. CASE Passed(t, counting)
      <3>1. Demand(t) <= peak
        BY <2>2 DEF SweepInv, PastIsUnderPeak
      <3>. QED
        BY <1>2, <1>6, <2>1, <3>1
    <2>3. CASE ~Passed(t, counting)
      <3>1. OpenFor(rest) = LiveAt(t)
        BY <1>2, <1>3, <1>9, <2>3, OpenIsLive
      <3>. QED
        BY <1>6, <3>1 DEF Demand
    <2>. QED
      BY <2>2, <2>3
  <1>10. PastIsUnderPeak'
    BY <1>1, <1>4, <1>9 DEF PastIsUnderPeak, Passed
  <1>11. peak' = 0 \/ \E t \in Times : peak' <= Demand(t)
    <2>1. CASE peak' = peak
      BY <2>1 DEF SweepInv, PeakIsReached
    <2>2. CASE e.kind = 1 /\ peak' = now
      <3>1. OpenFor(rest) \subseteq LiveAt(from[e.row]) /\ from[e.row] \in Times
        BY <1>1, <1>2, <2>2, OpenCoverArrival
      <3>2. now <= Demand(from[e.row])
        BY <1>2, <3>1, RowSets DEF Demand, LiveAt
      <3>. QED
        BY <2>2, <3>1, <3>2
    <2>. QED
      BY <1>6, <2>1, <2>2
  <1>12. PeakIsReached'
    BY <1>4, <1>11 DEF PeakIsReached
  <1>13. (SeenFirst(watching) /\ OpenRows /\ FullIsReported /\ PastIsReported)'
    BY <1>1, <1>4
    DEF SweepInv, OpenRows, FullIsReported, PastIsReported, Passed, watchVars
  <1>14. WitnessesAreReal'
    BY <1>1, <1>4 DEF SweepInv, WitnessesAreReal, watchVars, rowVars
  <1>. QED
    BY <1>1, <1>3, <1>4, <1>7, <1>8, <1>10, <1>12, <1>13, <1>14 DEF SweepInv

LEMMA SweepNext == SweepInv /\ [Next]_vars => SweepInv'
  <1>. SUFFICES ASSUME SweepInv, [Next]_vars PROVE SweepInv'
    OBVIOUS
  <1>1. CASE Next
    BY <1>1, LeaveKeeps, ArriveKeeps, CountKeeps DEF Next
  <1>2. CASE UNCHANGED vars
    BY <1>2, RowsStay
    DEF vars, rowVars, peakVars, watchVars, SweepInv, TypeOK, OpenRows, FullIsReported, Passed,
        PastIsReported, WitnessesAreReal, SumIsTaken, PastIsUnderPeak, PeakIsReached
  <1>. QED
    BY <1>1, <1>2

-----------------------------------------------------------------------------
\* Both walks keep their invariant in every reachable state.
THEOREM SweepKeepsInv == Spec => []SweepInv
  BY SweepInit, SweepNext, PTL DEF Spec

\* Every variable of the walks has its type, for any rows and any capacity.
THEOREM SweepTyped == Spec => []TypeOK
  <1>1. SweepInv => TypeOK
    BY DEF SweepInv
  <1>. QED
    BY <1>1, SweepKeepsInv, PTL

\* excess_arrivals raises no false alarm: the notary's CENTER_, CREW_ and
\* AUX_OVERLAP name an arrival in a minute that really is over capacity.
THEOREM NoFalseAlarm == Spec => []WitnessesAreReal
  <1>1. SweepInv => WitnessesAreReal
    BY DEF SweepInv
  <1>. QED
    BY <1>1, SweepKeepsInv, PTL

\* excess_arrivals misses no overload at any minute.
THEOREM NoMissedOverload == Spec => []NoOverloadMissed
  <1>1. SweepInv => NoOverloadMissed
    BY TimesAssumption DEF SweepInv, PastIsReported, Passed, NoOverloadMissed
  <1>. QED
    BY <1>1, SweepKeepsInv, PTL

\* peak_concurrency returns the greatest demand of any minute, whatever the
\* weights and in whichever order the rows were given.
THEOREM PeakIsGreatest == Spec => []PeakIsExact
  <1>1. SweepInv => PeakIsExact
    <2>. SUFFICES ASSUME SweepInv, counting = {} PROVE PeakIsExact
      BY DEF PeakIsExact
    <2>1. \A t \in Times : Demand(t) <= peak /\ Demand(t) \in Nat /\ peak \in Nat
      BY TimesAssumption, RowSets
      DEF SweepInv, TypeOK, PastIsUnderPeak, Passed, Demand, LiveAt
    <2>2. peak = 0 \/ \E t \in Times : Demand(t) = peak
      BY <2>1 DEF SweepInv, PeakIsReached
    <2>. QED
      BY <2>1, <2>2 DEF PeakIsExact
  <1>. QED
    BY <1>1, SweepKeepsInv, PTL

\* excess_arrivals reports something just when peak_concurrency, which walks and
\* counts on its own, returns more than the capacity.
THEOREM BothSweepsAgree ==
  Spec => [](counting = {} /\ watching = {} => (witnesses # {} <=> peak > Capacity))
  <1>1. SweepInv /\ PeakIsExact /\ NoOverloadMissed =>
          (counting = {} /\ watching = {} => (witnesses # {} <=> peak > Capacity))
    <2>. SUFFICES ASSUME SweepInv, PeakIsExact, NoOverloadMissed, counting = {}, watching = {}
                  PROVE  witnesses # {} <=> peak > Capacity
      OBVIOUS
    <2>1. peak \in Nat /\ witnesses \subseteq Rows /\ from \in [Rows -> Times]
      BY DEF SweepInv, TypeOK
    <2>2. \A t \in Times : Demand(t) <= peak /\ Demand(t) \in Nat
      BY RowSets DEF PeakIsExact, SweepInv, Demand, LiveAt
    <2>3. ASSUME NEW r \in witnesses PROVE peak > Capacity
      BY <2>1, <2>2, CapacityAssumption DEF SweepInv, WitnessesAreReal
    <2>4. ASSUME peak > Capacity PROVE witnesses # {}
      BY <2>1, <2>4, CapacityAssumption DEF PeakIsExact, NoOverloadMissed
    <2>. QED
      BY <2>3, <2>4
  <1>. QED
    BY <1>1, SweepKeepsInv, PeakIsGreatest, NoMissedOverload, PTL
=============================================================================
