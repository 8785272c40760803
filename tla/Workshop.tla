------------------------------ MODULE Workshop ------------------------------
(***************************************************************************)
(* Small repair shops for model checking.  Every shop has three visits,    *)
(* two posts, two crews and one tool; a family of shops varies one or two  *)
(* of the things that make a schedule hard and keeps the rest plain.       *)
(***************************************************************************)
EXTENDS Notary

Visits == 1..4    \* the card lists 1..3; visit 4 may be added by an event
Posts  == 1..2
Crews  == 1..2
Tools  == {1}
Minutes == 8      \* the horizon of every small shop

OpenAll == [r \in {PostCal(c) : c \in Posts} \cup {CrewCal(w) : w \in Crews}
                    \cup {ToolCal(x) : x \in Tools} |-> {<<0, Minutes>>}]

\* Changing a to b costs 1, b to a costs 2, starting b from idle costs 1.
Matrix ==
  [from \in {Idle, "a", "b"} |-> [to \in {"a", "b"} |->
     CASE from = to              -> 0
       [] from = Idle            -> IF to = "a" THEN 0 ELSE 1
       [] from = "a" /\ to = "b" -> 1
       [] from = "b" /\ to = "a" -> 2]]

AnyPermit == [o \in Visits |-> [w \in Crews |-> Minutes]]

Plain ==
  [horizon |-> Minutes, ops |-> 1..3,
   dur |-> <<2, 2, 1, 1>>, policy |-> [o \in Visits |-> "exact"],
   state |-> <<"a", "b", "a", "a">>, links |-> [o \in Visits |-> {}],
   floor |-> <<0, 0, 0, 0>>, latest |-> [o \in Visits |-> Minutes],
   needs |-> <<{}, {1}, {}, {}>>,
   stock |-> <<[qty |-> 1, from |-> 0, receipts |-> {}, rotable |-> FALSE, lag |-> 0]>>,
   job |-> <<1, 1, 2, 2>>, unit |-> <<"pump", "pump">>, pools |-> {},
   posts |-> <<{1}, {1}, {1, 2}, {1, 2}>>,
   permit |-> AnyPermit, skilled |-> Visits,
   tools |-> [o \in Visits |-> {}],
   cap |-> <<1, 1>>, crewCap |-> <<1, 1>>, toolCap |-> <<1>>,
   cal |-> OpenAll, unattended |-> {},
   setup |-> [c \in Posts |-> Matrix], missing |-> "reject",
   frozen |-> [o \in {} |-> {}], rank |-> <<1, 2, 3, 4>>]

Link(pred, min, max) == [pred |-> pred, min |-> min, max |-> max]

Freeze(p, o, w, s, setup) ==
  [p EXCEPT !.frozen = With(@, o, Row(1, w, {}, s, s + p.dur[o], setup))]

-----------------------------------------------------------------------------
(***************************************************************************)
(* One-step variations: each maps a set of shops to a larger one.          *)
(***************************************************************************)
WithLinks(S) == {[p EXCEPT !.links = k] : p \in S, k \in
  {<<{}, {}, {}, {}>>,
   <<{}, {Link(1, 0, NoMax)}, {Link(2, 1, NoMax)}, {}>>,
   <<{}, {Link(1, 1, 2)}, {Link(1, 0, 1)}, {}>>}}

WithStates(S) == {[p EXCEPT !.state = k] : p \in S, k \in
  {<<"a", "b", "a", "a">>, <<"b", "a", "a", "b">>}}

WithWork(S) == {[p EXCEPT !.dur = d, !.policy = k] : p \in S,
  d \in {<<2, 2, 1, 1>>, <<3, 1, 2, 1>>},
  k \in {<<"exact", "exact", "exact", "exact">>,
         <<"preemptive", "exact", "preemptive", "exact">>}}

\* The post, the crew or the tool has a break; two of its windows touch.
WithBreaks(S) == {[p EXCEPT !.cal = With(@, r, ws)] : p \in S,
  r \in {PostCal(1), CrewCal(1), ToolCal(1)},
  ws \in {{<<0, Minutes>>}, {<<0, 3>>, <<4, Minutes>>}, {<<1, 4>>, <<4, 7>>}}}

WithUnattended(S) == {[p EXCEPT !.unattended = u] : p \in S, u \in {{}, {PostCal(1)}}}

WithTools(S) == {[p EXCEPT !.tools = k] : p \in S, k \in
  {<<{}, {}, {}, {}>>, <<{1}, {}, {1}, {}>>}}

WithBounds(S) == {[p EXCEPT !.floor = f, !.stock[1].from = t] : p \in S,
  f \in {<<0, 0, 0, 0>>, <<2, 0, 1, 0>>}, t \in {0, 3}}

WithCrews(S) == {[p EXCEPT !.permit = k] : p \in S,
                   k \in {AnyPermit, [AnyPermit EXCEPT ![2][1] = NoPermit]}}

\* One or two visits are frozen, early or late.
WithFrozen(S) ==
  LET first(p, o, s) == Freeze(p, o, 1, s, Cell(p, 1, Idle, p.state[o]))
      both(p, s) == Freeze(first(p, 1, 1), 2, 2, s, Cell(p, 1, p.state[1], p.state[2]))
  IN S \cup UNION {{first(p, 1, s), first(p, 2, s), both(p, s)} : p \in S, s \in 1..6}

\* Model validation accepts the frozen rows.
Valid(S) == {p \in S : FrozenFragmentOk(p)}
=============================================================================
