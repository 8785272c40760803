---------------------------- MODULE KernelImage ----------------------------
(***************************************************************************)
(* adapter.py, kernel_compat.py, checker.py (_id_map_issues) and the two   *)
(* paths of planner.py that call the kernel: a card is compiled into the   *)
(* problem the kernel knows, its image; the kernel answers the image; the  *)
(* notary, who does not call the compiler, derives again what the image of *)
(* the card must be, and judges the rows against the card.                 *)
(*                                                                         *)
(* A card is a problem of module Shop with the fields the compiler reads   *)
(* besides: preds, strategy and seq (the sequence of an operation), skills *)
(* (the name of its skill set), published (the resources with a calendar   *)
(* of their own), due (of a job) and inside (the pairs of jobs <<j, k>>    *)
(* where the identifier of j begins with that of k and a colon).           *)
(*                                                                         *)
(* Names stand for the identifiers derived from them: the map between the  *)
(* two is complete and injective, as sid makes it.                         *)
(***************************************************************************)
EXTENDS Verdict, DagCompiler

CONSTANTS Cards,     \* the cards a run may be given
          MaxIter,   \* policy.max_fixpoint_iter
          Repaired   \* those whose plan is repaired, once, by the kernel's engine

VARIABLES card,
          windows,   \* the release windows lifted so far
          built,     \* the windows the image was compiled with
          image,     \* what the kernel is given
          rows,      \* its plan, as rows with crews and tools
          passes,    \* how often it was called
          phase      \* "compiling", "judged", "repaired" or "refused"

vars == <<card, windows, built, image, rows, passes, phase>>

NoWindows == [o \in {} |-> 0]
NoRows    == [o \in {} |-> {}]
NoSkills  == "none"
Pool(k)   == <<"pool", k>>

-----------------------------------------------------------------------------
(***************************************************************************)
(* kernel_compat.py.  The kernel's calendar is a set of windows, and the   *)
(* empty one is open all the time.                                         *)
(***************************************************************************)
Attended(c, r) == r \in c.published \ c.unattended

Closed(c, r)    == Attended(c, r) /\ c.cal[r] = {}
KernelCal(c, r) == IF Attended(c, r) THEN c.cal[r] ELSE {}

Matching(c, o) == {w \in DOMAIN c.crewCap : Skilled(c, o, w)}

\* _bound_crew: the only crew that matches, or else the crew of the frozen row.
BoundCrew(c, o) ==
  IF \E w \in Matching(c, o) : Matching(c, o) = {w} THEN CHOOSE w \in Matching(c, o) : TRUE
  ELSE IF o \in DOMAIN c.frozen THEN c.frozen[o].crew ELSE NoCrew

Pooled(c) == {o \in c.ops : BoundCrew(c, o) = NoCrew /\ NeedsCrew(c, o)}

\* The calendars of the crews that may serve operation o from a pool.
PoolCals(c, o) == {KernelCal(c, CrewCal(w)) : w \in Matching(c, o)}

\* _preemptive_published_calendar
Pauses(c, o) ==
  /\ c.policy[o] = "preemptive"
  /\ \/ BoundCrew(c, o) # NoCrew /\ KernelCal(c, CrewCal(BoundCrew(c, o))) # {}
     \/ o \in Pooled(c) /\ PoolCals(c, o) \ {{}} # {}
     \/ \E x \in c.tools[o] : KernelCal(c, ToolCal(x)) # {}

\* A mutant: crews of one pool may have calendars of their own.
UnsupportedButMixed(c) ==
  \/ \E r \in DOMAIN c.cal : Closed(c, r)
  \/ \E o \in c.ops : Pauses(c, o)

\* unsupported_auxiliary_calendars: what the image could not say.
Unsupported(c) ==
  \/ \E r \in DOMAIN c.cal : Closed(c, r)
  \/ \E o \in Pooled(c) : Cardinality(PoolCals(c, o)) > 1
  \/ \E o \in c.ops : Pauses(c, o)

\* unmatched_skill_operations
Unmatched(c) == \E o \in Pooled(c) : Matching(c, o) = {}

-----------------------------------------------------------------------------
(***************************************************************************)
(* adapter.py, to_schedule_problem.                                        *)
(***************************************************************************)
\* What is linked to operation o, one way or the other and by any number of links.
ChainOf(c, o) ==
  LET links == Links(c)
      closed(S) == \A e \in links : e[1] \in S <=> e[2] \in S
  IN {q \in c.ops : \A S \in SUBSET c.ops : o \in S /\ closed(S) => q \in S}

\* The segment of an operation is named by the first operation of its chain.
ChainHead(c) == [o \in c.ops |-> Min(ChainOf(c, o))]

Chain(head, o) == {q \in DOMAIN head : head[q] = head[o]}

\* seq_in_order: the sequence of the card if the chain keeps it, or the place.
SeqInOrder(c, chain, o) ==
  IF \A q, r \in chain : q < r => c.seq[q] < c.seq[r]
  THEN c.seq[o] ELSE Cardinality({q \in chain : q <= o})

\* A mutant: the release windows are not compiled in.
EarliestByCard(c, ws, o) == Max({c.floor[o]} \cup {c.stock[s].from : s \in c.needs[o]})

Earliest(c, ws, o) ==
  Max({c.floor[o]} \cup {c.stock[s].from : s \in c.needs[o]}
        \cup {ws[q] : q \in DOMAIN ws \cap {o}})

\* A job that is one segment is one order; else each of its segments is.
OrderKey(c, head, o) ==
  IF \A q \in c.ops : c.job[q] = c.job[o] => head[q] = head[o]
  THEN <<c.job[o]>> ELSE <<c.job[o], head[o]>>

OrderImage(c, head) ==
  LET segment(k) == Min({head[o] : o \in {q \in c.ops : OrderKey(c, head, q) = k}})
  IN [k \in {OrderKey(c, head, o) : o \in c.ops} |-> [segment |-> segment(k), due |-> c.due[k[1]]]]

Personnel(c, o) ==
  IF BoundCrew(c, o) # NoCrew THEN {CrewCal(BoundCrew(c, o))}
  ELSE IF NeedsCrew(c, o) THEN {Pool(c.skills[o])} ELSE {}

\* _shared_pool_intervals
PoolImage(c, o) ==
  [size |-> IF Matching(c, o) = {} THEN 1 ELSE Cardinality(Matching(c, o)),
   cal  |-> IF \/ \E w \in Matching(c, o) : Closed(c, CrewCal(w))
               \/ ~\E k \in PoolCals(c, o) : PoolCals(c, o) = {k}
            THEN {} ELSE CHOOSE k \in PoolCals(c, o) : TRUE]

AuxImage(c) ==
  LET crews == {CrewCal(w) : w \in DOMAIN c.crewCap}
      tools == {ToolCal(x) : x \in DOMAIN c.toolCap}
      pools == {Pool(c.skills[o]) : o \in Pooled(c)}
  IN [r \in crews \cup tools \cup pools |->
        CASE r \in crews -> [size |-> c.crewCap[r[2]], cal |-> KernelCal(c, r)]
          [] r \in tools -> [size |-> c.toolCap[r[2]], cal |-> KernelCal(c, r)]
          [] r \in pools -> PoolImage(c, CHOOSE o \in Pooled(c) : r = Pool(c.skills[o]))]

\* _compile_setup
SetupImage(c, states) ==
  LET known == {k \in (DOMAIN c.cap) \X states \X states :
                  Cell(c, k[1], k[2], k[3]) # NoCell \/ c.missing = "zero"}
  IN [k \in known |-> Max({0, Cell(c, k[1], k[2], k[3])})]

Compile(c, ws) ==
  LET head   == ChainHead(c)
      states == {Idle} \cup {c.state[o] : o \in c.ops}
      prev(o) == {e[1] : e \in {x \in Links(c) : x[2] = o}}
  IN [ops    |-> [o \in c.ops |->
                   [order |-> OrderKey(c, head, o), job |-> c.job[o], segment |-> head[o],
                    seq |-> SeqInOrder(c, Chain(head, o), o), pred |-> prev(o),
                    earliest |-> Earliest(c, ws, o), latest |-> c.latest[o],
                    dur |-> c.dur[o], state |-> c.state[o], posts |-> c.posts[o]]],
      orders |-> OrderImage(c, head),
      posts  |-> [x \in DOMAIN c.cap |->
                   [size |-> c.cap[x],
                    cal |-> IF PostCal(x) \in c.published THEN c.cal[PostCal(x)] ELSE {}]],
      aux    |-> AuxImage(c),
      needs  |-> UNION {{o} \X (Personnel(c, o) \cup {ToolCal(x) : x \in c.tools[o]}) : o \in c.ops},
      states |-> states,
      setup  |-> SetupImage(c, states),
      horizon |-> c.horizon]

\* The fields of a card that its image is compiled from.
Fields == {"horizon", "ops", "dur", "lag", "policy", "state", "floor", "latest", "needs",
           "stock", "job", "posts", "permit", "skilled", "tools", "cap", "crewCap", "toolCap",
           "cal", "unattended", "setup", "missing", "frozen", "preds", "strategy", "seq",
           "skills", "published", "due", "inside"}

\* What model validation and the names of these models see to.  A job whose name
\* begins with that of another one is a single chain (README, known limits).
Compilable(c) ==
  /\ Fields \subseteq DOMAIN c
  /\ CardOk(c)
  /\ DOMAIN c.crewCap \subseteq Nat \ {NoCrew}
  /\ \A o \in c.ops :
       /\ c.posts[o] # {} /\ c.posts[o] \subseteq DOMAIN c.cap
       /\ c.tools[o] \subseteq DOMAIN c.toolCap
       /\ c.job[o] \in DOMAIN c.due
       /\ c.floor[o] \in 0..c.horizon /\ c.latest[o] \in Nat
       /\ \A s \in c.needs[o] : c.stock[s].from \in 0..c.horizon
       /\ BoundCrew(c, o) \in DOMAIN c.crewCap \cup {NoCrew}
       /\ \A q \in c.ops : c.skills[o] = c.skills[q] => Matching(c, o) = Matching(c, q)
  /\ \A x \in DOMAIN c.cap, from, to \in {Idle} \cup {c.state[o] : o \in c.ops} :
       Cell(c, x, from, to) \in Nat \cup {NoCell}
  /\ \A e \in c.inside, o, q \in c.ops :
       c.job[o] = e[1] /\ c.job[q] = e[1] => ChainHead(c)[o] = ChainHead(c)[q]

ASSUME CardsAssumption == \A c \in Cards : Compilable(c)

-----------------------------------------------------------------------------
(***************************************************************************)
(* checker.py, _id_map_issues: the notary's own derivation.  It shares     *)
(* compile_dag and the reading of calendars with the compiler.             *)
(***************************************************************************)
IdsMatch(c, i) == DOMAIN i.ops = c.ops /\ DOMAIN i.posts = DOMAIN c.cap

\* _kernel_references_closed
ReferencesClosed(i) ==
  /\ \A o \in DOMAIN i.ops :
       /\ i.ops[o].order \in DOMAIN i.orders
       /\ i.ops[o].state \in i.states
       /\ i.ops[o].pred \subseteq DOMAIN i.ops
       /\ i.ops[o].posts # {} /\ i.ops[o].posts \subseteq DOMAIN i.posts
  /\ DOMAIN i.setup \subseteq (DOMAIN i.posts) \X i.states \X i.states
  /\ i.needs \subseteq (DOMAIN i.ops) \X (DOMAIN i.aux)

\* A mutant: a start that is later than it need be is let through.
NotEarlier(c, ws, i, o) ==
  /\ i.ops[o].earliest >= c.floor[o]
  /\ \A s \in c.needs[o] : i.ops[o].earliest >= c.stock[s].from
  /\ o \in DOMAIN ws => i.ops[o].earliest >= ws[o]

\* _compiled_earliest: the least start that no bound of the card forbids.
EarliestMatches(c, ws, i, o) ==
  /\ NotEarlier(c, ws, i, o)
  /\ \/ i.ops[o].earliest = c.floor[o]
     \/ \E s \in c.needs[o] : i.ops[o].earliest = c.stock[s].from
     \/ o \in DOMAIN ws /\ i.ops[o].earliest = ws[o]

\* _compiled_chain_matches
ChainsMatch(c, ws, i) ==
  LET head == ChainHead(c)
  IN /\ DOMAIN ws \subseteq {e[2] : e \in CrossEdges(c)}
     /\ \A o \in c.ops :
          /\ i.ops[o].segment = head[o]
          /\ i.ops[o].job = c.job[o]
          /\ i.ops[o].pred = {q \in c.ops : <<q, o>> \in Links(c)}
          /\ i.ops[o].seq = SeqInOrder(c, Chain(head, o), o)
          /\ EarliestMatches(c, ws, i, o)
          /\ i.orders[i.ops[o].order].segment = head[o]
          /\ \A q \in Chain(head, o) : i.ops[q].order = i.ops[o].order

\* The order key is the identifier of job j, or begins with it and a colon.
Names(c, key, j) == key[1] = j \/ <<key[1], j>> \in c.inside

OperationsMatch(c, i) ==
  \A o \in c.ops :
    /\ i.ops[o].dur = c.dur[o]
    /\ i.ops[o].latest = c.latest[o]
    /\ i.ops[o].state = c.state[o]
    /\ i.ops[o].posts = c.posts[o]
    /\ Names(c, i.ops[o].order, c.job[o])

\* _setup_image_matches: over the states of the map, not those of the card.
SetupsMatch(c, i) ==
  \A x \in DOMAIN c.cap, from, to \in i.states :
    LET minutes == Cell(c, x, from, to)
    IN IF minutes = NoCell /\ c.missing # "zero"
       THEN <<x, from, to>> \notin DOMAIN i.setup
       ELSE /\ <<x, from, to>> \in DOMAIN i.setup
            /\ i.setup[<<x, from, to>>] = (IF minutes = NoCell THEN 0 ELSE minutes)

\* _personnel_resource
ServedBy(c, o) ==
  LET fit == Matching(c, o)
      own == {w \in fit : fit = {w}}
      froze == IF own = {} /\ o \in DOMAIN c.frozen THEN {c.frozen[o].crew} \ {NoCrew} ELSE {}
  IN IF own \cup froze # {} THEN {CrewCal(w) : w \in own \cup froze}
     ELSE IF NeedsCrew(c, o) THEN {Pool(c.skills[o])} ELSE {}

\* A mutant: the tools asked for are not compared.
CrewsMatch(c, i) ==
  \A o \in c.ops, r \in {x \in DOMAIN i.aux : x[1] # "tool"} :
    <<o, r>> \in i.needs <=> r \in ServedBy(c, o)

\* _aux_image_matches: False too when the map cannot name a resource.
NeedsMatch(c, i) ==
  /\ \A o \in c.ops : c.tools[o] \subseteq {r[2] : r \in {x \in DOMAIN i.aux : x[1] = "tool"}}
  /\ \A o \in c.ops : ServedBy(c, o) \subseteq DOMAIN i.aux
  /\ \A o \in c.ops, r \in DOMAIN i.aux :
       <<o, r>> \in i.needs <=> IF r[1] = "tool" THEN r[2] \in c.tools[o] ELSE r \in ServedBy(c, o)

\* _skill_pool_size and _skill_pool_calendar.  The crews of a pool are those that
\* fit the operations of its skill set; the cards of a run know the same sets.
PoolMatches(c, k, a) ==
  LET fit  == {w \in DOMAIN c.crewCap : \A o \in c.ops : c.skills[o] = k => Skilled(c, o, w)}
      open == {w \in fit : KernelCal(c, CrewCal(w)) = a.cal}
  IN /\ a.size = (IF fit = {} THEN 1 ELSE Cardinality(fit))
     /\ \/ a.cal # {} /\ fit # {} /\ open = fit
        \/ /\ a.cal = {}
           /\ \/ open = fit
              \/ \E w, v \in fit : \/ Closed(c, CrewCal(w))
                                   \/ KernelCal(c, CrewCal(w)) # KernelCal(c, CrewCal(v))

\* _resource_image_matches
ResourcesMatch(c, i) ==
  /\ \A x \in DOMAIN c.cap :
       /\ i.posts[x].size = c.cap[x]
       /\ i.posts[x].cal = IF PostCal(x) \in c.published THEN c.cal[PostCal(x)] ELSE {}
  /\ \A r \in DOMAIN i.aux :
       CASE r[1] = "pool" -> PoolMatches(c, r[2], i.aux[r])
         [] r[1] = "crew" -> /\ r[2] \in DOMAIN c.crewCap
                             /\ i.aux[r] = [size |-> c.crewCap[r[2]], cal |-> KernelCal(c, r)]
         [] r[1] = "tool" -> /\ r[2] \in DOMAIN c.toolCap
                             /\ i.aux[r] = [size |-> c.toolCap[r[2]], cal |-> KernelCal(c, r)]

\* A mutant: the identifier of a job is not looked up as a whole first.
JobsByPrefix(c, key) == {j \in DOMAIN c.due : Names(c, key, j)}

\* _job_for_order_key: the job of that name, or else the only one whose name
\* the key begins with.
JobsOf(c, key) == IF Len(key) = 1 THEN {key[1]} \cap DOMAIN c.due
                  ELSE {j \in DOMAIN c.due : Names(c, key, j)}

OrdersMatch(c, i) ==
  \A k \in DOMAIN i.orders :
    \E j \in DOMAIN c.due : JobsOf(c, k) = {j} /\ i.orders[k].due = c.due[j]

ImageMatches(c, ws, i) ==
  /\ IdsMatch(c, i)
  /\ ReferencesClosed(i)
  /\ ChainsMatch(c, ws, i)
  /\ OperationsMatch(c, i)
  /\ SetupsMatch(c, i)
  /\ NeedsMatch(c, i)
  /\ ResourcesMatch(c, i)
  /\ OrdersMatch(c, i)
  /\ i.horizon = c.horizon

-----------------------------------------------------------------------------
(***************************************************************************)
(* The kernel is not under src/.  It is taken to answer the image: chains  *)
(* without lags, posts and resources within their size, every operation in *)
(* one window of whatever it uses.  Setups take no time in these cards.    *)
(***************************************************************************)
InKernelCal(cal, r) == cal = {} \/ \E w \in cal : w[1] <= r.start /\ r.end <= w[2]

AskedOf(i, o, kind) == {n[2] : n \in {x \in i.needs : x[1] = o /\ x[2][1] = kind}}

\* A slot of one operation; a pool does not name a crew.
KernelSlot(i, o, x, s) ==
  LET crews == {r[2] : r \in AskedOf(i, o, "crew")}
      tools == {r[2] : r \in AskedOf(i, o, "tool")}
  IN Row(x, IF crews = {} THEN NoCrew ELSE Min(crews), tools, s, s + i.ops[o].dur, 0)

KernelSlots(i, o) ==
  LET used == {n[2] : n \in {x \in i.needs : x[1] = o}}
  IN {r \in {KernelSlot(i, o, x, s) : x \in i.ops[o].posts, s \in i.ops[o].earliest..i.horizon} :
        /\ r.end <= Min({i.horizon, i.ops[o].latest})
        /\ InKernelCal(i.posts[r.post].cal, r)
        /\ \A a \in used : InKernelCal(i.aux[a].cal, r)}

KernelHolds(i, plan) ==
  /\ \A o \in DOMAIN plan : \A q \in i.ops[o].pred \cap DOMAIN plan : plan[q].end <= plan[o].start
  /\ \A x \in DOMAIN i.posts : ~Excess(plan, AtPost(plan, x), i.posts[x].size)
  /\ \A a \in DOMAIN i.aux :
       ~Excess(plan, {o \in DOMAIN plan : <<o, a>> \in i.needs}, i.aux[a].size)

\* Plans of all operations that keep what is fixed, put together one by one.
Drafts(i, fixed) ==
  LET keeps(o, r) == o \in DOMAIN fixed => <<r.post, r.start>> = <<fixed[o].post, fixed[o].start>>
      slots(o) == {r \in KernelSlots(i, o) : keeps(o, r)}
      add(o, plans) == {g \in {With(f, o, r) : f \in plans, r \in slots(o)} : KernelHolds(i, g)}
  IN FoldSet(add, {NoRows}, DOMAIN i.ops)

\* What is known of a plan of the kernel, however it was found.
KernelPlans(i, fixed) ==
  {plan \in Drafts(i, fixed) : /\ DOMAIN plan = DOMAIN i.ops
                               /\ \A o \in DOMAIN plan : plan[o] \in KernelSlots(i, o)
                               /\ KernelHolds(i, plan)}

\* The kernel may also have no plan, find none in time, or be refused its plan
\* by the portfolio: then there are no rows.
Answers(i) == KernelPlans(i, NoRows) \cup {NoRows}

Starts(plan) == [o \in DOMAIN plan |-> plan[o].start]

-----------------------------------------------------------------------------
Init ==
  /\ card \in Cards
  /\ windows = NoWindows /\ built = NoWindows
  /\ image = Compile(card, NoWindows)
  /\ rows = NoRows
  /\ passes = 0
  /\ phase = "compiling"

\* _kernel_calendar_refusal and _unmatched_skill_refusal: the kernel is not
\* called, and the image is wrapped all the same.
Refuse ==
  /\ phase = "compiling" /\ passes = 0
  /\ Unsupported(card) \/ Unmatched(card)
  /\ phase' = "refused"
  /\ UNCHANGED <<card, windows, built, image, rows, passes>>

\* A mutant: the windows lifted last are handed on with the image before them.
SolveAhead ==
  /\ phase = "compiling"
  /\ ~Unsupported(card) /\ ~Unmatched(card)
  /\ image' = Compile(card, windows)
  /\ \E plan \in Answers(image') :
       /\ windows' = Propagate(card, windows, Starts(plan))
       /\ rows' = BindCrews(card, FillTools(card, plan))
  /\ built' = windows'
  /\ passes' = passes + 1
  /\ phase' = IF windows' = windows \/ passes' = MaxIter THEN "judged" ELSE "compiling"
  /\ UNCHANGED card

\* One pass of _kernel_fixpoint: compile with the windows, solve, and lift the
\* windows.  What is wrapped at the end is the image and the windows it has.
Solve ==
  /\ phase = "compiling"
  /\ ~Unsupported(card) /\ ~Unmatched(card)
  /\ image' = Compile(card, windows)
  /\ built' = windows
  /\ \E plan \in Answers(image') :
       /\ windows' = Propagate(card, windows, Starts(plan))
       /\ rows' = BindCrews(card, FillTools(card, plan))
  /\ passes' = passes + 1
  /\ phase' = IF windows' = windows \/ passes' = MaxIter THEN "judged" ELSE "compiling"
  /\ UNCHANGED card

\* replan_after_disruption with a kernel configuration: the image is compiled
\* before the other visits are frozen, and wrapped with the card that has them.
\* A repair that is refused gives back the rows it began with.
Repair(o) ==
  /\ phase = "judged" /\ card \in Repaired
  /\ ~Unsupported(card) /\ ~Unmatched(card)
  /\ LET kept == DOMAIN card.frozen \cup (DOMAIN rows \ {o})
         rest == [q \in kept |-> IF q \in DOMAIN card.frozen THEN card.frozen[q] ELSE rows[q]]
     IN /\ image' = Compile(card, NoWindows)
        /\ card'  = [card EXCEPT !.frozen = rest]
        /\ \/ rows' = rows
           \/ \E plan \in KernelPlans(image', rest) : rows' = BindCrews(card', FillTools(card', plan))
  /\ windows' = NoWindows /\ built' = NoWindows
  /\ phase' = "repaired"
  /\ UNCHANGED passes

Next == Refuse \/ Solve \/ \E o \in card.ops : Repair(o)

Spec == Init /\ [][Next]_vars

-----------------------------------------------------------------------------
(***************************************************************************)
(* Properties.                                                             *)
(***************************************************************************)
\* What the program compiled itself passes the notary's check: after any number
\* of passes the windows it is checked with are those it was compiled with.
OwnImagesPass == phase # "compiling" => ImageMatches(card, built, image)

\* What the kernel may be asked with an image; crews and pools that serve no
\* operation do not matter.
Asked(i) == LET used == {n[2] : n \in i.needs}
            IN [i EXCEPT !.aux = [r \in used |-> i.aux[r]]]

\* An image of another card, or with other windows, passes only if the kernel
\* would have been asked the same.
StaleImagesFail ==
  phase = "compiling" => \A c \in Cards, ws \in {windows, built, NoWindows} :
    ImageMatches(c, ws, image) => Asked(image) = Asked(Compile(c, ws))

\* Two operations draw on the same crew or pool, or on different crews.
CrewsApart(c) ==
  LET from(o) == IF BoundCrew(c, o) # NoCrew THEN {BoundCrew(c, o)}
                 ELSE IF NeedsCrew(c, o) THEN Matching(c, o) ELSE {}
  IN \A o, q \in c.ops : Personnel(c, o) = Personnel(c, q) \/ from(o) \cap from(q) = {}

\* Nothing the notary knows of calendars, crews, tools and posts is lost on the
\* way to the kernel: a plan of a card that was not refused breaks at worst a
\* frozen row, an edge between chains or a lag, of which the kernel is not told.
KernelPlansAreClean ==
  phase = "judged" /\ DOMAIN rows = card.ops /\ CrewsApart(card)
    => \A v \in Violations(card, rows) :
         \/ v[1] = "FROZEN_MOVED"
         \/ /\ v[1] = "PRECEDENCE_BROKEN"
            /\ \E l \in card.links[v[2]] :
                 <<l.pred, v[2]>> \in CrossEdges(card) \/ l.min > 0 \/ l.max # NoMax

\* Cards without what the kernel is not told of and takes no part in here: posts
\* with more than one lane, setups that take time, permits that run out within the
\* horizon, spares that run out or come back, and pools that must not.  Their
\* frozen rows are a feasible fragment, and a resource that publishes no calendar
\* is there throughout.
PlainCard(c) ==
  /\ IsFiniteSet(c.ops) /\ NoOp \notin c.ops /\ IsFiniteSet(DOMAIN c.crewCap)
  /\ FrozenFragmentOk(c)
  /\ \A o \in c.ops :
       /\ c.dur[o] > 0 /\ c.policy[o] \in {"exact", "min", "preemptive"}
       /\ c.preds[o] = Preds(c, o) /\ c.preds[o] \subseteq c.ops
       /\ \A l \in c.links[o] : l.min \in Nat
       /\ \A w \in Matching(c, o) : c.permit[o][w] \in Int /\ c.permit[o][w] >= c.horizon
  /\ \A x \in DOMAIN c.cap : c.cap[x] = 1
  /\ \A w \in DOMAIN c.crewCap : c.crewCap[w] \in Nat \ {0}
  /\ \A x \in DOMAIN c.cap, from, to \in {Idle} \cup {c.state[o] : o \in c.ops} :
       \/ Cell(c, x, from, to) = 0
       \/ Cell(c, x, from, to) = NoCell /\ c.missing = "zero" /\ from # Idle
  /\ \A s \in DOMAIN c.stock :
       /\ c.stock[s].receipts = {} /\ ~c.stock[s].rotable
       /\ c.stock[s].qty \in Nat
       /\ Cardinality({o \in c.ops : s \in c.needs[o]}) <= c.stock[s].qty
  /\ \A pool \in c.pools : ~pool.hard
  /\ \A r \in {PostCal(x) : x \in DOMAIN c.cap} \cup {CrewCal(w) : w \in DOMAIN c.crewCap}
               \cup {ToolCal(x) : x \in DOMAIN c.toolCap} :
       /\ r \in DOMAIN c.cal /\ c.cal[r] \subseteq Int \X Int
       /\ r \notin c.published => \E w \in c.cal[r] : w[1] <= 0 /\ c.horizon <= w[2]
=============================================================================
