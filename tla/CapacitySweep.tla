---------------------------- MODULE CapacitySweep ----------------------------
(***************************************************************************)
(* capacity.py: the walks over start and end events that tell how full a   *)
(* resource gets.  peak_concurrency and excess_arrivals are two walks of   *)
(* their own over the same intervals.  The first keeps a running sum of    *)
(* weights; the second keeps the rows that are open and adds their weights *)
(* up at every arrival.  Only the order of the events is common to them.   *)
(*                                                                         *)
(* Shop!Excess is what excess_arrivals is used for; here are the walks.    *)
(***************************************************************************)
EXTENDS Integers, FiniteSets

CONSTANTS Rows,        \* indices of the intervals: numbers
          Times,       \* the minutes at which intervals may start and end
          Weights,     \* the lanes, or pieces of a spare, that a row may take
          Capacity

ASSUME RowsAssumption == Rows \subseteq Int /\ IsFiniteSet(Rows)
ASSUME TimesAssumption == Times \subseteq Int
ASSUME WeightsAssumption == Weights \subseteq Nat
ASSUME CapacityAssumption == Capacity \in Nat

VARIABLES from, to,    \* the intervals [from[r], to[r])
          weight,
          counting,    \* peak_concurrency: the events that are still to come,
          active,      \*   the sum of the weights that are in use
          peak,        \*   and the greatest it has been
          watching,    \* excess_arrivals: the events that are still to come,
          open,        \*   the rows that are open
          witnesses    \*   and the arrivals that found the resource full

rowVars   == <<from, to, weight>>
peakVars  == <<counting, active, peak>>
watchVars == <<watching, open, witnesses>>
vars == <<rowVars, peakVars, watchVars>>

-----------------------------------------------------------------------------
\* A mutant: an interval of one minute counts as empty.
ProperLong(r) == from[r] + 1 < to[r]

\* _events: an end (kind 0) sorts before a start (kind 1) at the same minute;
\* an interval that is empty or backwards has no events.
Proper(r) == from[r] < to[r]

StartOf(r) == [at |-> from[r], kind |-> 1, row |-> r]
EndOf(r)   == [at |-> to[r],   kind |-> 0, row |-> r]

Events == {StartOf(r) : r \in {x \in Rows : Proper(x)}}
            \cup {EndOf(r) : r \in {x \in Rows : Proper(x)}}

\* A mutant: starts sort before ends.
PrecedesStartsFirst(e, f) ==
  \/ e.at < f.at
  \/ e.at = f.at /\ e.kind > f.kind
  \/ e.at = f.at /\ e.kind = f.kind /\ e.row < f.row

Precedes(e, f) ==
  \/ e.at < f.at
  \/ e.at = f.at /\ e.kind < f.kind
  \/ e.at = f.at /\ e.kind = f.kind /\ e.row < f.row

\* The sum of the weights of the rows of S, as the number of the units they take.
Units(S) == UNION {{r} \X (1..weight[r]) : r \in S}
Taken(S) == Cardinality(Units(S))

Init == /\ from \in [Rows -> Times]
        /\ to \in [Rows -> Times]
        /\ weight \in [Rows -> Weights]
        /\ counting = Events
        /\ active = 0
        /\ peak = 0
        /\ watching = Events
        /\ open = {}
        /\ witnesses = {}

First(e, P) == e \in P /\ \A f \in P \ {e} : Precedes(e, f)

-----------------------------------------------------------------------------
(***************************************************************************)
(* peak_concurrency.                                                       *)
(***************************************************************************)
Count(e) == /\ First(e, counting)
            /\ counting' = counting \ {e}
            /\ UNCHANGED <<rowVars, watchVars>>

\* A mutant: every row is taken to weigh one when it ends.
CountEndByOne(e) ==
  /\ Count(e)
  /\ e.kind = 0
  /\ active' = active - 1
  /\ UNCHANGED peak

CountEnd(e) ==
  /\ Count(e)
  /\ e.kind = 0
  /\ active' = active - weight[e.row]
  /\ UNCHANGED peak

CountStart(e) ==
  /\ Count(e)
  /\ e.kind = 1
  /\ active' = active + weight[e.row]
  /\ peak' = IF active' > peak THEN active' ELSE peak

-----------------------------------------------------------------------------
(***************************************************************************)
(* excess_arrivals.                                                        *)
(***************************************************************************)
Watch(e) == /\ First(e, watching)
            /\ watching' = watching \ {e}
            /\ UNCHANGED <<rowVars, peakVars>>

Leave(e) ==
  /\ Watch(e)
  /\ e.kind = 0
  /\ open' = open \ {e.row}
  /\ UNCHANGED witnesses

Arrive(e) ==
  /\ Watch(e)
  /\ e.kind = 1
  /\ open' = open \cup {e.row}
  /\ witnesses' = IF Taken(open') <= Capacity THEN witnesses ELSE witnesses \cup {e.row}

Next == \/ \E e \in counting : CountEnd(e) \/ CountStart(e)
        \/ \E e \in watching : Leave(e) \/ Arrive(e)

Spec == Init /\ [][Next]_vars

-----------------------------------------------------------------------------
(***************************************************************************)
(* Properties.                                                             *)
(***************************************************************************)
\* What is in use at minute t, told from the intervals alone.
LiveAt(t) == {r \in Rows : from[r] <= t /\ t < to[r]}
Demand(t) == Taken(LiveAt(t))

TypeOK == /\ from \in [Rows -> Times]
          /\ to \in [Rows -> Times]
          /\ weight \in [Rows -> Weights]
          /\ counting \subseteq Events
          /\ active \in Int
          /\ peak \in Nat
          /\ watching \subseteq Events
          /\ open \subseteq Rows
          /\ witnesses \subseteq Rows

\* No false alarm: an arrival that excess_arrivals reports came in a minute in
\* which the rows over it take more than the resource has.
WitnessesAreReal == \A r \in witnesses : Demand(from[r]) > Capacity

\* No overload is missed: once excess_arrivals returns, something was reported if
\* any minute at all is over capacity, in whichever order the rows were given.
NoOverloadMissed == watching = {} /\ (\E t \in Times : Demand(t) > Capacity) => witnesses # {}

\* What peak_concurrency returns is the greatest demand of any minute, neither
\* more nor less, though its running sum passes through the middle of minutes in
\* which some rows have arrived and others have not.
PeakIsExact ==
  counting = {} => /\ \A t \in Times : Demand(t) <= peak
                   /\ peak = 0 \/ \E t \in Times : Demand(t) = peak
=============================================================================
