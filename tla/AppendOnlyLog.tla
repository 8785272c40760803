--------------------------- MODULE AppendOnlyLog ---------------------------
(***************************************************************************)
(* What a log of decisions promises its readers and its callers: what is   *)
(* recorded is never changed or taken away, and a decision is recorded     *)
(* once, unless the answer to its caller was lost.  Such a caller may have *)
(* it recorded again, until it is answered.                                *)
(***************************************************************************)
EXTENDS Naturals, Sequences

CONSTANT Decisions

VARIABLES log,     \* the decisions on record, in order
          unsure   \* those of which no caller was told

vars == <<log, unsure>>

Recorded == {log[i] : i \in 1..Len(log)}

Init == log = <<>> /\ unsure = {}

Record(e) ==
  /\ e \notin Recorded \/ e \in unsure
  /\ log' = Append(log, e)
  /\ UNCHANGED unsure

LoseAnswer(e) ==
  /\ e \in Recorded
  /\ unsure' = unsure \cup {e}
  /\ UNCHANGED log

Answer(e) ==
  /\ unsure' = unsure \ {e}
  /\ UNCHANGED log

Next == \E e \in Decisions : Record(e) \/ LoseAnswer(e) \/ Answer(e)

Spec == Init /\ [][Next]_vars
=============================================================================
