---------------------------- MODULE MCSubmission ----------------------------
EXTENDS Submission, Workshop

OnPost1(p) == [p EXCEPT !.posts = [o \in Visits |-> {1}]]

\* Two lanes, one crew for each visit: only the lanes matter.
LaneProblems ==
  {[OnPost1(p) EXCEPT !.cap = <<2, 1>>, !.crewCap = <<3, 3>>, !.dur = <<1, 2, 1, 1>>] :
     p \in WithStates({Plain, [Plain EXCEPT !.missing = "zero", !.setup[1].b.a = NoCell,
                                            !.setup[1].idle.b = NoCell]})}

LaneRows(p, o) ==
  {[Row(1, 1, {}, s, s + p.dur[o], k) EXCEPT !.lane = l] :
     s \in 1..3, k \in 0..1, l \in -1..1}

\* One lane, two crews, a tool, breaks and precedence.
ResourceProblems ==
  {OnPost1([p EXCEPT !.tools = <<{1}, {}, {1}, {}>>, !.dur = <<2, 1, 1, 1>>, !.policy[1] = k]) :
     p \in WithBreaks({[Plain EXCEPT !.links[2] = {Link(1, 0, 1)}]}), k \in {"min", "preemptive"}}

\* Some rows lack the tool they need, one ends before it starts, and one names a
\* lane that the post does not have.
ResourceRows(p, o) ==
  {[Row(1, w, IF o = 3 THEN x ELSE p.tools[o], t[1], t[2], k)
      EXCEPT !.lane = IF o = 3 /\ x = {1} THEN 1 ELSE NoLane] :
     w \in (IF o = 1 THEN {1} ELSE Crews), x \in {{}, {1}},
     k \in (IF o = 2 THEN {0, 1} ELSE {0}),
     t \in CASE o = 1 -> {<<1, 3>>, <<1, 4>>, <<2, 5>>}
            [] o = 2 -> {<<3, 4>>, <<4, 5>>, <<5, 6>>, <<6, 7>>}
            [] OTHER -> {<<0, 1>>, <<1, 2>>, <<3, 4>>, <<3, 2>>}}

\* Units that must be back in time and spares that are lent: the first card ends
\* in two operations, and the second one waits for one of them.
PoolProblems ==
  {[OnPost1(Plain) EXCEPT !.cap = <<3, 3>>, !.crewCap = <<3, 3>>, !.dur = <<1, 1, 1, 1>>,
      !.setup = [c \in Posts |-> [from \in {Idle, "a", "b"} |-> [to \in {"a", "b"} |-> 0]]],
      !.ops = Visits, !.job = <<1, 1, 1, 2>>, !.needs = n, !.stock = <<[stock EXCEPT !.qty = q]>>,
      !.links = <<{}, {Link(1, 0, NoMax)}, {Link(1, 1, NoMax)}, {Link(2, 0, NoMax)}>>,
      !.pools = {[unit |-> "pump", initial |-> 1, hard |-> h,
                  demand |-> {<<3, 1>>, <<d, 1>>, <<6, 1>>}]}] :
     n \in {<<{1}, {}, {1}, {1}>>, <<{1}, {1}, {}, {}>>}, q \in {1, 2}, h \in BOOLEAN, d \in {4, 5},
     stock \in {[qty |-> 1, from |-> 1, receipts |-> {}, rotable |-> TRUE, lag |-> 1],
                [qty |-> 1, from |-> 2, receipts |-> {<<1, 1>>, <<4, 1>>}, rotable |-> FALSE, lag |-> 0],
                [qty |-> 1, from |-> 1, receipts |-> {}, rotable |-> FALSE, lag |-> 0]}}

PoolRows(p, o) ==
  {[Row(1, 1, {}, s, s + 1, 0) EXCEPT !.lane = (o - 1) % 3] : s \in CASE o = 1 -> {0, 1, 2} [] o = 2 -> 2..4
                                        [] o = 3 -> 3..5 [] o = 4 -> {3, 5}}

SubmittedProblems == LaneProblems \cup ResourceProblems \cup PoolProblems
SubmittedRows(p, o) ==
  CASE p \in LaneProblems     -> LaneRows(p, o)
    [] p \in ResourceProblems -> ResourceRows(p, o)
    [] p \in PoolProblems     -> PoolRows(p, o)
=============================================================================
