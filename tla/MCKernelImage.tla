--------------------------- MODULE MCKernelImage ---------------------------
EXTENDS KernelImage, Workshop

Day == 5    \* the horizon of these cards

States == {Idle, "a", "b"}
NoWait == [x \in Posts |-> [from \in States |-> [to \in States |-> 0]]]

\* The fields that only the compiler reads; a job that is due, and a chain.
Due == <<3, 4>>
SkillNames(p) == [o \in Visits |-> IF o \in p.skilled THEN "fit" ELSE NoSkills]

Compiled(p, strategy) ==
  [o \in {"preds", "lag", "strategy", "seq", "skills", "published", "due", "inside"} |->
     CASE o = "preds"     -> [v \in Visits |-> Preds(p, v)]
       [] o = "lag"       -> [v \in Visits |-> 0]
       [] o = "strategy"  -> strategy
       [] o = "seq"       -> <<1, 2, 3, 4>>
       [] o = "skills"    -> SkillNames(p)
       [] o = "published" -> {r \in DOMAIN p.cal : p.cal[r] # {<<0, Minutes>>}}
       [] o = "due"       -> Due
       [] o = "inside"    -> {}] @@ p

Base == [Plain EXCEPT !.horizon = Day, !.dur = <<1, 2, 1, 1>>, !.latest = [o \in Visits |-> Day],
                      !.needs = <<{}, {}, {}, {}>>, !.setup = NoWait,
                      !.posts = <<{1}, {1}, {2}, {2}>>,
                      !.links = <<{}, {Link(1, 0, NoMax)}, {}, {}>>]

LoneCrew == [o \in Visits |-> [w \in Crews |-> IF w = 1 THEN Minutes ELSE NoPermit]]
NoneFits == [o \in Visits |-> [w \in Crews |-> NoPermit]]

Break == {<<0, 1>>, <<2, Day>>}

Fixpoint(S) == {Compiled(p, "split_release_fixpoint") : p \in S}
Serial(S)   == {Compiled(p, "serialize") : p \in S}

\* One crew for the work, or two; calendars of crews, posts and tools; nobody
\* there to keep the calendar; work that may pause; a card with a frozen row; work
\* without skills in a shop with one crew or none.
CrewCards ==
  Fixpoint({[[Base EXCEPT !.permit = k, !.policy[1] = w, !.unattended = u] EXCEPT !.cal = With(@, r, ws)] :
     k \in {AnyPermit, LoneCrew}, w \in {"exact", "preemptive"},
     u \in {{}, {CrewCal(1)}}, r \in {CrewCal(1), PostCal(1)}, ws \in {Break, {}}}
  \cup {[Base EXCEPT !.cal = With(With(@, CrewCal(1), Break), CrewCal(2), Break)],
        [Base EXCEPT !.tools = <<{1}, {}, {1}, {}>>],
        [Base EXCEPT !.permit = NoneFits],
        [Base EXCEPT !.skilled = {1, 3}],
        [[Base EXCEPT !.tools = <<{1}, {}, {1}, {}>>] EXCEPT !.cal = With(@, ToolCal(1), Break)],
        Freeze(Base, 1, 2, 1, 0),
        [Base EXCEPT !.skilled = {}, !.crewCap = <<1>>],
        [Base EXCEPT !.skilled = {}, !.crewCap = <<>>]})

\* Branches, edges between jobs, starts that are bounded, and setups: what is
\* said of the operations and not of the resources.
ChainCards(permit) ==
  LET p == [Base EXCEPT !.permit = permit]
  IN Fixpoint({[p EXCEPT !.links = <<{}, {}, {Link(1, 0, NoMax), Link(2, 0, NoMax)}, {}>>,
                         !.posts = <<{1}, {1}, {1, 2}, {1}>>, !.job = j, !.crewCap = <<2, 2>>] :
                 j \in {<<1, 1, 1, 1>>, <<1, 1, 2, 2>>}}
     \cup {[p EXCEPT !.floor = <<f, 0, 0, 0>>, !.needs = <<{1}, {}, {}, {}>>, !.stock[1].from = 1] :
             f \in {0, 2}}
     \cup {[p EXCEPT !.missing = k, !.setup[1].b.a = NoCell, !.state = <<"a", "a", "a", "a">>] :
             k \in {"zero", "reject"}}
     \cup {[p EXCEPT !.links = <<{}, {Link(1, 1, 2)}, {}, {}>>]})
     \cup Serial({[p EXCEPT !.links = <<{}, {}, {Link(1, 0, NoMax)}, {}>>, !.job = <<1, 1, 2, 2>>]})
     \cup {[c EXCEPT !.seq = <<2, 1, 1, 2>>] : c \in Fixpoint({p})}

\* The name of the second job begins with that of the first one and a colon.
ColonCards == {[c EXCEPT !.inside = {<<2, 1>>}] :
                 c \in Fixpoint({[Base EXCEPT !.permit = LoneCrew]})}

SomeCards == CrewCards \cup ChainCards(LoneCrew) \cup ChainCards(AnyPermit) \cup ColonCards

\* Repairs of a card where one crew has the skills, and where two have them.
LoneCrewCards == {c \in ChainCards(LoneCrew) : c.missing = "zero" \/ c.links[3] # {}}
TwoCrewCards  == Fixpoint({[Base EXCEPT !.links = <<{}, {}, {}, {}>>]})

ASSUME \A c \in SomeCards : PlainCard(c)
=============================================================================
