------------------------- MODULE KernelImageProofs -------------------------
(***************************************************************************)
(* The compiler and the notary derive the image of a card apart from each  *)
(* other; for every card that can be compiled, and whatever windows were   *)
(* lifted, they arrive at the same one, and the notary takes no other.     *)
(*                                                                         *)
(* The argument goes conjunct by conjunct through the notary's check.  The *)
(* hard ones: an order of the image is one chain, because a chain does not *)
(* leave its job; the earliest start is the greatest of several bounds and *)
(* so one of them; a pool has one calendar just when its crews do; and the *)
(* windows that are checked are those of the last pass, not those lifted   *)
(* from its answer.  A repair freezes rows after it compiled; that changes *)
(* nothing where every crew is settled, and is an error elsewhere.         *)
(*                                                                         *)
(* The converse: each part of an image that the kernel reads is settled by *)
(* one conjunct of the check, so that two images that pass are equal.      *)
(***************************************************************************)
EXTENDS KernelImage, OperatorProofs

\* Windows that passes over card c may have lifted.
Lifting(c, ws) ==
  /\ DOMAIN ws \subseteq {e[2] : e \in CrossEdges(c)}
  /\ \A o \in DOMAIN ws : ws[o] \in Int

-----------------------------------------------------------------------------
LEMMA MaxOfBounded ==
  ASSUME NEW S \in SUBSET Int, S # {}, NEW b \in Int, \A x \in S : x <= b
  PROVE  Max(S) \in S /\ \A x \in S : x <= Max(S)
  <1>1. PICK m \in S : \A x \in S : x <= m
    BY GreatestInt
  <1>2. \E n \in S : \A x \in S : n >= x
    BY <1>1
  <1>3. Max(S) \in S /\ \A x \in S : Max(S) >= x
    BY <1>2 DEF Max
  <1>. QED
    BY <1>3

LEMMA LeastOfNaturals ==
  ASSUME NEW S \in SUBSET Nat, S # {}
  PROVE  Min(S) \in S /\ \A x \in S : Min(S) <= x
  BY LeastNat DEF Min

-----------------------------------------------------------------------------
(***************************************************************************)
(* Chains and orders.                                                      *)
(***************************************************************************)
LEMMA LinksStayInJob ==
  ASSUME NEW c, NEW e \in Links(c)
  PROVE  e \in c.ops \X c.ops /\ c.job[e[1]] = c.job[e[2]]
  BY DEF Links, SerialLinks, SegmentLinks, Edges, SameJob

\* A chain does not leave its job.
LEMMA HeadIsOfJob ==
  ASSUME NEW c, Compilable(c), NEW o \in c.ops
  PROVE  /\ ChainHead(c)[o] \in c.ops
         /\ c.job[ChainHead(c)[o]] = c.job[o]
         /\ ChainHead(c)[o] \in Nat
  <1>. DEFINE S == {q \in c.ops : c.job[q] = c.job[o]}
              closed(T) == \A e \in Links(c) : e[1] \in T <=> e[2] \in T
              K == {q \in c.ops : \A T \in SUBSET c.ops : o \in T /\ closed(T) => q \in T}
  <1>1. o \in S /\ S \in SUBSET c.ops /\ closed(S)
    BY LinksStayInJob
  <1>2. K \subseteq S /\ o \in K
    <2>. HIDE DEF closed, S
    <2>. QED
      BY <1>1
  <1>3. ChainOf(c, o) = K
    BY DEF ChainOf
  <1>4. K \subseteq Nat
    BY DEF Compilable, CardOk
  <1>5. Min(K) \in K
    BY <1>2, <1>4, LeastOfNaturals
  <1>6. ChainHead(c)[o] = Min(K)
    BY <1>3 DEF ChainHead
  <1>. HIDE DEF K
  <1>. QED
    BY <1>2, <1>4, <1>5, <1>6

LEMMA HeadIsFunction ==
  ASSUME NEW c
  PROVE  DOMAIN ChainHead(c) = c.ops
  BY DEF ChainHead

LEMMA SameHeadSameJob ==
  ASSUME NEW c, Compilable(c), NEW o \in c.ops, NEW q \in c.ops,
         ChainHead(c)[o] = ChainHead(c)[q]
  PROVE  c.job[o] = c.job[q]
  BY HeadIsOfJob

\* Two operations are of one order just when they are of one chain.
LEMMA OrderIsChain ==
  ASSUME NEW c, Compilable(c), NEW head, head = ChainHead(c),
         NEW o \in c.ops, NEW q \in c.ops
  PROVE  OrderKey(c, head, o) = OrderKey(c, head, q) <=> head[o] = head[q]
  <1>. DEFINE sole(x) == \A y \in c.ops : c.job[y] = c.job[x] => head[y] = head[x]
  <1>1. OrderKey(c, head, o) = IF sole(o) THEN <<c.job[o]>> ELSE <<c.job[o], head[o]>>
    BY DEF OrderKey
  <1>2. OrderKey(c, head, q) = IF sole(q) THEN <<c.job[q]>> ELSE <<c.job[q], head[q]>>
    BY DEF OrderKey
  <1>3. head[o] = head[q] => c.job[o] = c.job[q]
    BY SameHeadSameJob
  <1>4. head[o] = head[q] => (sole(o) <=> sole(q))
    BY <1>3
  <1>5. c.job[o] = c.job[q] /\ sole(o) => head[o] = head[q]
    OBVIOUS
  <1>6. \A a, b, d : <<a>> # <<b, d>>
    OBVIOUS
  <1>. HIDE DEF sole
  <1>7. CASE sole(o) /\ sole(q)
    BY <1>1, <1>2, <1>3, <1>5, <1>7
  <1>8. CASE ~sole(o) /\ ~sole(q)
    BY <1>1, <1>2, <1>3, <1>8
  <1>9. CASE (sole(o) /\ ~sole(q)) \/ (~sole(o) /\ sole(q))
    BY <1>1, <1>2, <1>4, <1>6, <1>9
  <1>. QED
    BY <1>7, <1>8, <1>9

-----------------------------------------------------------------------------
(***************************************************************************)
(* What the compiler writes, and what the notary says of it.               *)
(***************************************************************************)
StatesOf(c) == {Idle} \cup {c.state[o] : o \in c.ops}

LEMMA ImageOfOperations ==
  ASSUME NEW c, NEW ws, NEW i, i = Compile(c, ws), NEW head, head = ChainHead(c)
  PROVE  /\ DOMAIN i.ops = c.ops
         /\ \A o \in c.ops :
              /\ i.ops[o].order = OrderKey(c, head, o)
              /\ i.ops[o].job = c.job[o]
              /\ i.ops[o].segment = head[o]
              /\ i.ops[o].seq = SeqInOrder(c, Chain(head, o), o)
              /\ i.ops[o].pred = {e[1] : e \in {x \in Links(c) : x[2] = o}}
              /\ i.ops[o].earliest = Earliest(c, ws, o)
              /\ i.ops[o].latest = c.latest[o]
              /\ i.ops[o].dur = c.dur[o]
              /\ i.ops[o].state = c.state[o]
              /\ i.ops[o].posts = c.posts[o]
  BY DEF Compile

LEMMA ImageOfOrders ==
  ASSUME NEW c, NEW ws
  PROVE  Compile(c, ws).orders = OrderImage(c, ChainHead(c))
  BY DEF Compile

LEMMA ImageOfPosts ==
  ASSUME NEW c, NEW ws
  PROVE  /\ DOMAIN Compile(c, ws).posts = DOMAIN c.cap
         /\ \A x \in DOMAIN c.cap :
              /\ Compile(c, ws).posts[x].size = c.cap[x]
              /\ Compile(c, ws).posts[x].cal =
                   IF PostCal(x) \in c.published THEN c.cal[PostCal(x)] ELSE {}
         /\ Compile(c, ws).horizon = c.horizon
  BY DEF Compile

LEMMA ImageOfResources ==
  ASSUME NEW c, NEW ws
  PROVE  /\ Compile(c, ws).aux = AuxImage(c)
         /\ Compile(c, ws).needs =
              UNION {{o} \X (Personnel(c, o) \cup {ToolCal(x) : x \in c.tools[o]}) : o \in c.ops}
  BY DEF Compile

LEMMA ImageOfSetups ==
  ASSUME NEW c, NEW ws
  PROVE  /\ Compile(c, ws).states = StatesOf(c)
         /\ Compile(c, ws).setup = SetupImage(c, StatesOf(c))
  BY DEF Compile, StatesOf

\* An order of the image carries the name of its one chain.
LEMMA OrderOfChain ==
  ASSUME NEW c, Compilable(c), NEW ws, NEW i, i = Compile(c, ws), NEW head, head = ChainHead(c),
         NEW o \in c.ops
  PROVE  /\ i.ops[o].order \in DOMAIN i.orders
         /\ i.orders[i.ops[o].order].segment = head[o]
  <1>. DEFINE k == OrderKey(c, head, o)
  <1>1. i.ops[o].order = k
    BY ImageOfOperations
  <1>2. \A q \in c.ops : OrderKey(c, head, q) = k <=> head[q] = head[o]
    BY OrderIsChain
  <1>3. {head[x] : x \in {q \in c.ops : OrderKey(c, head, q) = k}} = {head[o]}
    BY <1>2
  <1>4. head[o] \in Nat
    BY HeadIsOfJob
  <1>5. Min({head[o]}) = head[o]
    BY <1>4, LeastOfNaturals
  <1>6. k \in {OrderKey(c, head, q) : q \in c.ops}
    OBVIOUS
  <1>7. k \in DOMAIN i.orders /\ i.orders[k].segment = Min({head[x] : x \in {q \in c.ops : OrderKey(c, head, q) = k}})
    <2>. DEFINE K == {OrderKey(c, head, q) : q \in c.ops}
                seg(n) == Min({head[x] : x \in {q \in c.ops : OrderKey(c, head, q) = n}})
    <2>1. i.orders = [n \in K |-> [segment |-> seg(n), due |-> c.due[n[1]]]]
      <3>1. i.orders = OrderImage(c, head)
        BY ImageOfOrders
      <3>2. OrderImage(c, head) = [n \in K |-> [segment |-> seg(n), due |-> c.due[n[1]]]]
        BY DEF OrderImage
      <3>. QED
        BY <3>1, <3>2
    <2>. HIDE DEF K, seg, k
    <2>2. DOMAIN i.orders = K /\ \A n \in K : i.orders[n].segment = seg(n)
      BY <2>1
    <2>3. k \in DOMAIN i.orders /\ i.orders[k].segment = seg(k)
      BY <1>6, <2>2 DEF K
    <2>. QED
      BY <2>3 DEF seg
  <1>. HIDE DEF k
  <1>. QED
    BY <1>1, <1>3, <1>5, <1>7

\* The earliest start is one of its bounds, and none is later.
LEMMA EarliestIsABound ==
  ASSUME NEW c, Compilable(c), NEW ws, Lifting(c, ws), NEW i, i = Compile(c, ws), NEW o \in c.ops
  PROVE  EarliestMatches(c, ws, i, o) /\ i.ops[o].earliest \in Int
  <1>. DEFINE S == {c.floor[o]} \cup {c.stock[s].from : s \in c.needs[o]}
                     \cup {ws[q] : q \in DOMAIN ws \cap {o}}
  <1>1. c.horizon \in Int /\ c.floor[o] \in Int /\ c.floor[o] <= c.horizon
    BY DEF Compilable, CardOk
  <1>2. \A s \in c.needs[o] : c.stock[s].from \in Int /\ c.stock[s].from <= c.horizon
    BY <1>1 DEF Compilable
  <1>3. \A q \in DOMAIN ws : ws[q] \in Int
    BY DEF Lifting
  <1>4. PICK b \in Int : c.horizon <= b /\ (o \in DOMAIN ws => ws[o] <= b)
    <2>1. CASE o \in DOMAIN ws /\ ws[o] > c.horizon
      BY <1>1, <1>3, <2>1
    <2>2. CASE ~(o \in DOMAIN ws /\ ws[o] > c.horizon)
      BY <1>1, <1>3, <2>2
    <2>. QED
      BY <2>1, <2>2
  <1>5. S \in SUBSET Int /\ S # {}
    BY <1>1, <1>2, <1>3
  <1>6. \A x \in S : x <= b
    BY <1>1, <1>2, <1>3, <1>4
  <1>7. Max(S) \in S /\ \A x \in S : x <= Max(S)
    <2>. HIDE DEF S
    <2>. QED
      BY <1>5, <1>6, MaxOfBounded
  <1>8. i.ops[o].earliest = Max(S)
    <2>1. i.ops[o].earliest = Earliest(c, ws, o)
      BY ImageOfOperations
    <2>2. Earliest(c, ws, o) = Max(S)
      BY DEF Earliest
    <2>. QED
      BY <2>1, <2>2
  <1>9. Max(S) \in Int
    BY <1>5, <1>7
  <1>. DEFINE m == Max(S)
  <1>10. m \in S /\ \A x \in S : x <= m
    BY <1>7
  <1>. HIDE DEF m
  <1>11. NotEarlier(c, ws, i, o)
    BY <1>1, <1>2, <1>3, <1>8, <1>9, <1>10 DEF m, NotEarlier
  <1>12. \/ m = c.floor[o]
         \/ \E s \in c.needs[o] : m = c.stock[s].from
         \/ o \in DOMAIN ws /\ m = ws[o]
    BY <1>10
  <1>. QED
    BY <1>8, <1>9, <1>11, <1>12 DEF m, EarliestMatches

LEMMA ImageKnowsAll ==
  ASSUME NEW c, NEW ws, NEW i, i = Compile(c, ws)
  PROVE  IdsMatch(c, i) /\ i.horizon = c.horizon
  <1>1. DOMAIN i.ops = c.ops
    BY ImageOfOperations
  <1>2. DOMAIN i.posts = DOMAIN c.cap /\ i.horizon = c.horizon
    BY ImageOfPosts
  <1>. QED
    BY <1>1, <1>2 DEF IdsMatch

LEMMA ImageOfChains ==
  ASSUME NEW c, Compilable(c), NEW ws, Lifting(c, ws), NEW i, i = Compile(c, ws)
  PROVE  ChainsMatch(c, ws, i)
  <1>. DEFINE head == ChainHead(c)
  <1>1. DOMAIN ws \subseteq {e[2] : e \in CrossEdges(c)}
    BY DEF Lifting
  <1>2. ASSUME NEW o \in c.ops
        PROVE  /\ i.ops[o].segment = head[o]
               /\ i.ops[o].job = c.job[o]
               /\ i.ops[o].pred = {q \in c.ops : <<q, o>> \in Links(c)}
               /\ i.ops[o].seq = SeqInOrder(c, Chain(head, o), o)
    <2>1. i.ops[o].pred = {e[1] : e \in {x \in Links(c) : x[2] = o}}
      BY ImageOfOperations
    <2>2. \A e \in Links(c) : e = <<e[1], e[2]>> /\ e[1] \in c.ops
      BY LinksStayInJob
    <2>3. {e[1] : e \in {x \in Links(c) : x[2] = o}} = {q \in c.ops : <<q, o>> \in Links(c)}
      BY <2>2
    <2>. QED
      BY <2>1, <2>3, ImageOfOperations
  <1>3. ASSUME NEW o \in c.ops
        PROVE  /\ EarliestMatches(c, ws, i, o)
               /\ i.orders[i.ops[o].order].segment = head[o]
    BY EarliestIsABound, OrderOfChain
  <1>4. ASSUME NEW o \in c.ops, NEW q \in Chain(head, o)
        PROVE  i.ops[q].order = i.ops[o].order
    <2>1. q \in c.ops /\ head[q] = head[o]
      BY HeadIsFunction DEF Chain
    <2>2. OrderKey(c, head, q) = OrderKey(c, head, o)
      BY <2>1, OrderIsChain
    <2>. QED
      BY <2>1, <2>2, ImageOfOperations
  <1>. QED
    BY <1>1, <1>2, <1>3, <1>4 DEF ChainsMatch

LEMMA KeyIsOfJob ==
  ASSUME NEW c, NEW head, NEW o \in c.ops
  PROVE  OrderKey(c, head, o)[1] = c.job[o]
  BY DEF OrderKey

LEMMA ImageOfWork ==
  ASSUME NEW c, NEW ws, NEW i, i = Compile(c, ws)
  PROVE  OperationsMatch(c, i)
  BY ImageOfOperations, KeyIsOfJob DEF OperationsMatch, Names

LEMMA ImageOfChangeovers ==
  ASSUME NEW c, Compilable(c), NEW ws, NEW i, i = Compile(c, ws)
  PROVE  SetupsMatch(c, i)
  <1>. DEFINE T == StatesOf(c)
  <1>1. i.states = T /\ i.setup = SetupImage(c, T)
    BY ImageOfSetups
  <1>2. SUFFICES ASSUME NEW x \in DOMAIN c.cap, NEW from \in T, NEW to \in T
                 PROVE  LET minutes == Cell(c, x, from, to)
                        IN IF minutes = NoCell /\ c.missing # "zero"
                           THEN <<x, from, to>> \notin DOMAIN i.setup
                           ELSE /\ <<x, from, to>> \in DOMAIN i.setup
                                /\ i.setup[<<x, from, to>>] = (IF minutes = NoCell THEN 0 ELSE minutes)
    BY <1>1 DEF SetupsMatch
  <1>. DEFINE k == <<x, from, to>>
              m == Cell(c, x, from, to)
              known == {n \in (DOMAIN c.cap) \X T \X T :
                          Cell(c, n[1], n[2], n[3]) # NoCell \/ c.missing = "zero"}
  <1>3. m \in Nat \cup {NoCell}
    BY DEF Compilable, StatesOf
  <1>4. Max({0, m}) = IF m = NoCell THEN 0 ELSE m
    <2>1. {0, m} \in SUBSET Int /\ \A y \in {0, m} : y <= (IF m = NoCell THEN 0 ELSE m)
      BY <1>3 DEF NoCell
    <2>2. (IF m = NoCell THEN 0 ELSE m) \in Int
      BY <1>3 DEF NoCell
    <2>3. Max({0, m}) \in {0, m} /\ \A y \in {0, m} : y <= Max({0, m})
      BY <2>1, <2>2, MaxOfBounded
    <2>. QED
      BY <1>3, <2>3 DEF NoCell
  <1>5. k \in known <=> (m # NoCell \/ c.missing = "zero")
    OBVIOUS
  <1>6. SetupImage(c, T) = [n \in known |-> Max({0, Cell(c, n[1], n[2], n[3])})]
    BY DEF SetupImage
  <1>7. DOMAIN i.setup = known /\ (k \in known => i.setup[k] = Max({0, m}))
    BY <1>1, <1>6
  <1>. HIDE DEF known, m, k
  <1>8. IF m = NoCell /\ c.missing # "zero"
        THEN k \notin DOMAIN i.setup
        ELSE k \in DOMAIN i.setup /\ i.setup[k] = (IF m = NoCell THEN 0 ELSE m)
    BY <1>4, <1>5, <1>7
  <1>. QED
    BY <1>8 DEF k, m

-----------------------------------------------------------------------------
(***************************************************************************)
(* Crews, pools and tools.                                                 *)
(***************************************************************************)
CrewsOf(c) == {CrewCal(w) : w \in DOMAIN c.crewCap}
ToolsOf(c) == {ToolCal(x) : x \in DOMAIN c.toolCap}
PoolsOf(c) == {Pool(c.skills[o]) : o \in Pooled(c)}

LEMMA ResourcesAre ==
  ASSUME NEW c
  PROVE  DOMAIN AuxImage(c) = CrewsOf(c) \cup ToolsOf(c) \cup PoolsOf(c)
  BY DEF AuxImage, CrewsOf, ToolsOf, PoolsOf

\* The kinds are told apart by their names.
LEMMA KindsDiffer ==
  /\ \A w : CrewCal(w)[1] = "crew" /\ CrewCal(w)[2] = w
  /\ \A x : ToolCal(x)[1] = "tool" /\ ToolCal(x)[2] = x
  /\ \A k : Pool(k)[1] = "pool" /\ Pool(k)[2] = k
  /\ "crew" # "tool" /\ "crew" # "pool" /\ "tool" # "pool"
  BY DEF CrewCal, ToolCal, Pool

LEMMA BoundIsCrew ==
  ASSUME NEW c, Compilable(c), NEW o \in c.ops, BoundCrew(c, o) # NoCrew
  PROVE  BoundCrew(c, o) \in DOMAIN c.crewCap
  BY DEF Compilable

\* The crew that the notary expects is the one that the adapter bound, and else
\* the pool.
LEMMA ServedByPersonnel ==
  ASSUME NEW c, Compilable(c), NEW o \in c.ops
  PROVE  ServedBy(c, o) = Personnel(c, o)
  <1>. DEFINE fit == Matching(c, o)
              own == {w \in fit : fit = {w}}
              froze == IF own = {} /\ o \in DOMAIN c.frozen
                       THEN {c.frozen[o].crew} \ {NoCrew} ELSE {}
              b == BoundCrew(c, o)
  <1>1. own \cup froze = IF b = NoCrew THEN {} ELSE {b}
    <2>1. CASE \E w \in fit : fit = {w}
      <3>1. PICK w \in fit : fit = {w}
        BY <2>1
      <3>2. b = w
        BY <3>1 DEF BoundCrew
      <3>3. own = {w}
        BY <3>1
      <3>4. w # NoCrew
        BY <3>1 DEF Matching, Compilable
      <3>. QED
        BY <3>2, <3>3, <3>4
    <2>2. CASE ~\E w \in fit : fit = {w}
      <3>1. own = {}
        BY <2>2
      <3>2. b = IF o \in DOMAIN c.frozen THEN c.frozen[o].crew ELSE NoCrew
        BY <2>2 DEF BoundCrew
      <3>. QED
        BY <3>1, <3>2
    <2>. QED
      BY <2>1, <2>2
  <1>2. ServedBy(c, o) =
          IF own \cup froze # {} THEN {CrewCal(w) : w \in own \cup froze}
          ELSE IF NeedsCrew(c, o) THEN {Pool(c.skills[o])} ELSE {}
    BY DEF ServedBy
  <1>3. Personnel(c, o) =
          IF b # NoCrew THEN {CrewCal(b)} ELSE IF NeedsCrew(c, o) THEN {Pool(c.skills[o])} ELSE {}
    BY DEF Personnel
  <1>. HIDE DEF own, froze, b
  <1>. QED
    BY <1>1, <1>2, <1>3

LEMMA PersonnelIsThere ==
  ASSUME NEW c, Compilable(c), NEW o \in c.ops
  PROVE  Personnel(c, o) \subseteq CrewsOf(c) \cup PoolsOf(c)
  <1>1. CASE BoundCrew(c, o) # NoCrew
    BY <1>1, BoundIsCrew DEF Personnel, CrewsOf
  <1>2. CASE BoundCrew(c, o) = NoCrew /\ NeedsCrew(c, o)
    BY <1>2 DEF Personnel, PoolsOf, Pooled
  <1>3. CASE BoundCrew(c, o) = NoCrew /\ ~NeedsCrew(c, o)
    BY <1>3 DEF Personnel
  <1>. QED
    BY <1>1, <1>2, <1>3

LEMMA NeedsAre ==
  ASSUME NEW c, NEW ws, NEW i, i = Compile(c, ws)
  PROVE  /\ \A n \in i.needs : \E o \in c.ops : \E r \in Personnel(c, o) \cup {ToolCal(x) : x \in c.tools[o]} :
               n = <<o, r>>
         /\ \A o \in c.ops : \A r : <<o, r>> \in i.needs <=>
               r \in Personnel(c, o) \/ r \in {ToolCal(x) : x \in c.tools[o]}
  <1>. DEFINE uses(o) == Personnel(c, o) \cup {ToolCal(x) : x \in c.tools[o]}
  <1>1. i.needs = UNION {{o} \X uses(o) : o \in c.ops}
    BY ImageOfResources
  <1>2. \A o, r : r \in uses(o) <=> r \in Personnel(c, o) \/ r \in {ToolCal(x) : x \in c.tools[o]}
    OBVIOUS
  <1>. HIDE DEF uses
  <1>3. \A n \in i.needs : \E o \in c.ops : \E r \in uses(o) : n = <<o, r>>
    BY <1>1
  <1>4. \A o \in c.ops : \A r : <<o, r>> \in i.needs <=> r \in uses(o)
    BY <1>1
  <1>5. \A o : uses(o) = Personnel(c, o) \cup {ToolCal(x) : x \in c.tools[o]}
    BY DEF uses
  <1>. QED
    BY <1>2, <1>3, <1>4, <1>5

LEMMA ImageIsClosed ==
  ASSUME NEW c, Compilable(c), NEW ws, NEW i, i = Compile(c, ws)
  PROVE  ReferencesClosed(i)
  <1>1. DOMAIN i.ops = c.ops /\ DOMAIN i.posts = DOMAIN c.cap
    BY ImageKnowsAll DEF IdsMatch
  <1>2. ASSUME NEW o \in c.ops
        PROVE  /\ i.ops[o].order \in DOMAIN i.orders
               /\ i.ops[o].state \in i.states
               /\ i.ops[o].pred \subseteq c.ops
               /\ i.ops[o].posts # {} /\ i.ops[o].posts \subseteq DOMAIN c.cap
    <2>1. i.ops[o].order \in DOMAIN i.orders
      BY OrderOfChain
    <2>2. i.ops[o].state \in i.states
      <3>1. i.ops[o].state = c.state[o]
        BY ImageOfOperations
      <3>2. i.states = StatesOf(c)
        BY ImageOfSetups
      <3>. QED
        BY <3>1, <3>2 DEF StatesOf
    <2>3. i.ops[o].pred = {e[1] : e \in {x \in Links(c) : x[2] = o}}
      BY ImageOfOperations
    <2>4. \A e \in Links(c) : e[1] \in c.ops
      BY LinksStayInJob
    <2>5. i.ops[o].posts = c.posts[o]
      BY ImageOfOperations
    <2>. QED
      BY <2>1, <2>2, <2>3, <2>4, <2>5 DEF Compilable
  <1>3. DOMAIN i.setup \subseteq (DOMAIN i.posts) \X i.states \X i.states
    <2>1. i.states = StatesOf(c) /\ i.setup = SetupImage(c, StatesOf(c))
      BY ImageOfSetups
    <2>2. DOMAIN SetupImage(c, StatesOf(c)) \subseteq (DOMAIN c.cap) \X StatesOf(c) \X StatesOf(c)
      BY DEF SetupImage
    <2>. QED
      BY <1>1, <2>1, <2>2
  <1>4. i.needs \subseteq c.ops \X DOMAIN i.aux
    <2>1. i.aux = AuxImage(c)
      BY ImageOfResources
    <2>2. \A o \in c.ops : {ToolCal(x) : x \in c.tools[o]} \subseteq ToolsOf(c)
      BY DEF Compilable, ToolsOf
    <2>3. \A o \in c.ops : Personnel(c, o) \subseteq CrewsOf(c) \cup PoolsOf(c)
      BY PersonnelIsThere
    <2>4. DOMAIN i.aux = CrewsOf(c) \cup ToolsOf(c) \cup PoolsOf(c)
      BY <2>1, ResourcesAre
    <2>5. ASSUME NEW n \in i.needs
          PROVE  n \in c.ops \X DOMAIN i.aux
      <3>1. PICK o \in c.ops : \E r \in Personnel(c, o) \cup {ToolCal(x) : x \in c.tools[o]} : n = <<o, r>>
        BY NeedsAre
      <3>2. PICK r : n = <<o, r>> /\ (r \in Personnel(c, o) \/ r \in {ToolCal(x) : x \in c.tools[o]})
        BY <3>1
      <3>3. r \in DOMAIN i.aux
        BY <2>2, <2>3, <2>4, <3>2
      <3>. QED
        BY <3>2, <3>3
    <2>. QED
      BY <2>5
  <1>. QED
    BY <1>1, <1>2, <1>3, <1>4 DEF ReferencesClosed

LEMMA ImageOfNeeds ==
  ASSUME NEW c, Compilable(c), NEW ws, NEW i, i = Compile(c, ws)
  PROVE  NeedsMatch(c, i)
  <1>1. DOMAIN i.aux = CrewsOf(c) \cup ToolsOf(c) \cup PoolsOf(c)
    BY ImageOfResources, ResourcesAre
  <1>2. \A o \in c.ops : \A r : <<o, r>> \in i.needs <=>
               r \in Personnel(c, o) \/ r \in {ToolCal(x) : x \in c.tools[o]}
    BY NeedsAre
  <1>3. \A o \in c.ops : Personnel(c, o) \subseteq CrewsOf(c) \cup PoolsOf(c)
    BY PersonnelIsThere
  <1>4. ASSUME NEW o \in c.ops
        PROVE  c.tools[o] \subseteq {r[2] : r \in {x \in DOMAIN i.aux : x[1] = "tool"}}
    <2>1. \A x \in c.tools[o] : ToolCal(x) \in DOMAIN i.aux
      BY <1>1 DEF Compilable, ToolsOf
    <2>. QED
      BY <2>1, KindsDiffer
  <1>5. ASSUME NEW o \in c.ops
        PROVE  ServedBy(c, o) \subseteq DOMAIN i.aux
    BY <1>1, <1>3, ServedByPersonnel
  <1>6. ASSUME NEW o \in c.ops, NEW r \in DOMAIN i.aux
        PROVE  <<o, r>> \in i.needs <=> IF r[1] = "tool" THEN r[2] \in c.tools[o] ELSE r \in ServedBy(c, o)
    <2>1. CASE r \in ToolsOf(c)
      <3>1. PICK x \in DOMAIN c.toolCap : r = ToolCal(x)
        BY <2>1 DEF ToolsOf
      <3>2. r[1] = "tool" /\ r[2] = x
        BY <3>1, KindsDiffer
      <3>3. r \notin Personnel(c, o)
        BY <1>3, <3>2, KindsDiffer DEF CrewsOf, PoolsOf
      <3>4. r \in {ToolCal(y) : y \in c.tools[o]} <=> x \in c.tools[o]
        BY <3>1, <3>2, KindsDiffer
      <3>. QED
        BY <1>2, <3>2, <3>3, <3>4
    <2>2. CASE r \in CrewsOf(c) \cup PoolsOf(c)
      <3>1. r[1] # "tool"
        BY <2>2, KindsDiffer DEF CrewsOf, PoolsOf
      <3>2. r \notin {ToolCal(y) : y \in c.tools[o]}
        BY <3>1, KindsDiffer
      <3>. QED
        BY <1>2, <3>1, <3>2, ServedByPersonnel
    <2>. QED
      BY <1>1, <2>1, <2>2
  <1>. QED
    BY <1>4, <1>5, <1>6 DEF NeedsMatch

\* A pool has one calendar just when its crews do.
LEMMA PoolIsMatched ==
  ASSUME NEW c, Compilable(c), NEW o \in c.ops
  PROVE  PoolMatches(c, c.skills[o], PoolImage(c, o))
  <1>. DEFINE k == c.skills[o]
              M == Matching(c, o)
              fit == {w \in DOMAIN c.crewCap : \A q \in c.ops : c.skills[q] = k => Skilled(c, q, w)}
              a == PoolImage(c, o)
              cal(w) == KernelCal(c, CrewCal(w))
              shut(w) == Closed(c, CrewCal(w))
              open == {w \in fit : cal(w) = a.cal}
              cals == PoolCals(c, o)
  <1>. SUFFICES PoolMatches(c, k, a)
    OBVIOUS
  <1>1. fit = M
    <2>1. \A q \in c.ops : c.skills[q] = k => Matching(c, q) = M
      BY DEF Compilable
    <2>2. \A q \in c.ops : \A w : w \in Matching(c, q) <=> w \in DOMAIN c.crewCap /\ Skilled(c, q, w)
      BY DEF Matching
    <2>. QED
      BY <2>1, <2>2
  <1>2. a.size = IF fit = {} THEN 1 ELSE Cardinality(fit)
    BY <1>1 DEF PoolImage
  <1>3. a.cal = IF (\E w \in M : shut(w)) \/ ~\E x \in cals : cals = {x}
                THEN {} ELSE CHOOSE x \in cals : TRUE
    BY DEF PoolImage
  <1>4. cals = {cal(w) : w \in fit}
    BY <1>1 DEF PoolCals
  <1>5. PoolMatches(c, k, a) <=>
          /\ a.size = IF fit = {} THEN 1 ELSE Cardinality(fit)
          /\ \/ a.cal # {} /\ fit # {} /\ open = fit
             \/ a.cal = {} /\ (open = fit \/ \E w, v \in fit : shut(w) \/ cal(w) # cal(v))
    BY DEF PoolMatches
  <1>6. \A w : w \in open <=> w \in fit /\ cal(w) = a.cal
    OBVIOUS
  <1>. HIDE DEF k, M, fit, a, cal, shut, open, cals
  <1>7. CASE \E w \in fit : shut(w)
    BY <1>1, <1>2, <1>3, <1>5, <1>7
  <1>8. CASE fit # {} /\ ~\E w \in fit : shut(w)
    <2>1. CASE \E x \in cals : cals = {x}
      <3>1. PICK x \in cals : cals = {x}
        BY <2>1
      <3>2. a.cal = x
        BY <1>1, <1>3, <1>8, <3>1
      <3>3. \A w \in fit : cal(w) = x
        BY <1>4, <3>1
      <3>4. open = fit
        BY <1>6, <3>2, <3>3
      <3>. QED
        BY <1>2, <1>5, <1>8, <3>4
    <2>2. CASE ~\E x \in cals : cals = {x}
      <3>1. a.cal = {}
        BY <1>3, <2>2
      <3>2. PICK w \in fit : TRUE
        BY <1>8
      <3>3. cals # {cal(w)} /\ cal(w) \in cals
        BY <1>4, <2>2, <3>2
      <3>4. PICK v \in fit : cal(v) # cal(w)
        BY <1>4, <3>3
      <3>. QED
        BY <1>2, <1>5, <3>1, <3>2, <3>4
    <2>. QED
      BY <2>1, <2>2
  <1>9. CASE fit = {}
    <2>1. a.cal = {} /\ open = fit
      BY <1>3, <1>4, <1>6, <1>9
    <2>. QED
      BY <1>2, <1>5, <2>1
  <1>. QED
    BY <1>7, <1>8, <1>9

\* What is written of each resource.
LEMMA AuxRecords ==
  ASSUME NEW c
  PROVE  /\ \A w \in DOMAIN c.crewCap :
              AuxImage(c)[CrewCal(w)] = [size |-> c.crewCap[w], cal |-> KernelCal(c, CrewCal(w))]
         /\ \A x \in DOMAIN c.toolCap :
              AuxImage(c)[ToolCal(x)] = [size |-> c.toolCap[x], cal |-> KernelCal(c, ToolCal(x))]
         /\ \A r \in PoolsOf(c) : \E o \in Pooled(c) :
              r = Pool(c.skills[o]) /\ AuxImage(c)[r] = PoolImage(c, o)
  <1>. DEFINE rec(r) ==
         CASE r \in CrewsOf(c) -> [size |-> c.crewCap[r[2]], cal |-> KernelCal(c, r)]
           [] r \in ToolsOf(c) -> [size |-> c.toolCap[r[2]], cal |-> KernelCal(c, r)]
           [] r \in PoolsOf(c) -> PoolImage(c, CHOOSE o \in Pooled(c) : r = Pool(c.skills[o]))
  <1>1. AuxImage(c) = [r \in CrewsOf(c) \cup ToolsOf(c) \cup PoolsOf(c) |-> rec(r)]
    BY DEF AuxImage, CrewsOf, ToolsOf, PoolsOf
  <1>2. \A r \in CrewsOf(c) : r[1] = "crew"
    BY KindsDiffer DEF CrewsOf
  <1>3. \A r \in ToolsOf(c) : r[1] = "tool"
    BY KindsDiffer DEF ToolsOf
  <1>4. \A r \in PoolsOf(c) : r[1] = "pool"
    BY KindsDiffer DEF PoolsOf
  <1>5. ASSUME NEW r \in CrewsOf(c)
        PROVE  AuxImage(c)[r] = [size |-> c.crewCap[r[2]], cal |-> KernelCal(c, r)]
    <2>1. r \notin ToolsOf(c) /\ r \notin PoolsOf(c)
      BY <1>2, <1>3, <1>4, KindsDiffer
    <2>2. rec(r) = [size |-> c.crewCap[r[2]], cal |-> KernelCal(c, r)]
      BY <2>1
    <2>. HIDE DEF rec
    <2>. QED
      BY <1>1, <2>2
  <1>6. ASSUME NEW r \in ToolsOf(c)
        PROVE  AuxImage(c)[r] = [size |-> c.toolCap[r[2]], cal |-> KernelCal(c, r)]
    <2>1. r \notin CrewsOf(c) /\ r \notin PoolsOf(c)
      BY <1>2, <1>3, <1>4, KindsDiffer
    <2>2. rec(r) = [size |-> c.toolCap[r[2]], cal |-> KernelCal(c, r)]
      BY <2>1
    <2>. HIDE DEF rec
    <2>. QED
      BY <1>1, <2>2
  <1>7. ASSUME NEW r \in PoolsOf(c)
        PROVE  \E o \in Pooled(c) : r = Pool(c.skills[o]) /\ AuxImage(c)[r] = PoolImage(c, o)
    <2>. DEFINE o == CHOOSE q \in Pooled(c) : r = Pool(c.skills[q])
    <2>1. r \notin CrewsOf(c) /\ r \notin ToolsOf(c)
      BY <1>2, <1>3, <1>4, KindsDiffer
    <2>2. rec(r) = PoolImage(c, o)
      BY <2>1
    <2>3. o \in Pooled(c) /\ r = Pool(c.skills[o])
      BY DEF PoolsOf
    <2>. HIDE DEF rec, o
    <2>4. AuxImage(c)[r] = PoolImage(c, o)
      BY <1>1, <2>2
    <2>. QED
      BY <2>3, <2>4
  <1>8. ASSUME NEW w \in DOMAIN c.crewCap
        PROVE  AuxImage(c)[CrewCal(w)] = [size |-> c.crewCap[w], cal |-> KernelCal(c, CrewCal(w))]
    <2>1. CrewCal(w) \in CrewsOf(c) /\ CrewCal(w)[2] = w
      BY KindsDiffer DEF CrewsOf
    <2>. HIDE DEF rec
    <2>. QED
      BY <1>5, <2>1
  <1>9. ASSUME NEW x \in DOMAIN c.toolCap
        PROVE  AuxImage(c)[ToolCal(x)] = [size |-> c.toolCap[x], cal |-> KernelCal(c, ToolCal(x))]
    <2>1. ToolCal(x) \in ToolsOf(c) /\ ToolCal(x)[2] = x
      BY KindsDiffer DEF ToolsOf
    <2>. HIDE DEF rec
    <2>. QED
      BY <1>6, <2>1
  <1>. QED
    BY <1>7, <1>8, <1>9

LEMMA ImageOfCapacity ==
  ASSUME NEW c, Compilable(c), NEW ws, NEW i, i = Compile(c, ws)
  PROVE  ResourcesMatch(c, i)
  <1>1. \A x \in DOMAIN c.cap :
          /\ i.posts[x].size = c.cap[x]
          /\ i.posts[x].cal = IF PostCal(x) \in c.published THEN c.cal[PostCal(x)] ELSE {}
    BY ImageOfPosts
  <1>2. i.aux = AuxImage(c) /\ DOMAIN AuxImage(c) = CrewsOf(c) \cup ToolsOf(c) \cup PoolsOf(c)
    BY ImageOfResources, ResourcesAre
  <1>. DEFINE good(r) ==
         CASE r[1] = "pool" -> PoolMatches(c, r[2], i.aux[r])
           [] r[1] = "crew" -> /\ r[2] \in DOMAIN c.crewCap
                               /\ i.aux[r] = [size |-> c.crewCap[r[2]], cal |-> KernelCal(c, r)]
           [] r[1] = "tool" -> /\ r[2] \in DOMAIN c.toolCap
                               /\ i.aux[r] = [size |-> c.toolCap[r[2]], cal |-> KernelCal(c, r)]
  <1>3. ASSUME NEW r \in CrewsOf(c)
        PROVE  good(r)
    <2>1. PICK w \in DOMAIN c.crewCap : r = CrewCal(w)
      BY DEF CrewsOf
    <2>2. r[1] = "crew" /\ r[2] = w
      BY <2>1, KindsDiffer
    <2>3. i.aux[r] = [size |-> c.crewCap[w], cal |-> KernelCal(c, r)]
      BY <1>2, <2>1, AuxRecords
    <2>. QED
      BY <2>2, <2>3
  <1>4. ASSUME NEW r \in ToolsOf(c)
        PROVE  good(r)
    <2>1. PICK x \in DOMAIN c.toolCap : r = ToolCal(x)
      BY DEF ToolsOf
    <2>2. r[1] = "tool" /\ r[2] = x
      BY <2>1, KindsDiffer
    <2>3. i.aux[r] = [size |-> c.toolCap[x], cal |-> KernelCal(c, r)]
      BY <1>2, <2>1, AuxRecords
    <2>. QED
      BY <2>2, <2>3
  <1>5. ASSUME NEW r \in PoolsOf(c)
        PROVE  good(r)
    <2>1. PICK o \in Pooled(c) : r = Pool(c.skills[o]) /\ AuxImage(c)[r] = PoolImage(c, o)
      BY AuxRecords
    <2>2. r[1] = "pool" /\ r[2] = c.skills[o]
      BY <2>1, KindsDiffer
    <2>3. o \in c.ops
      BY DEF Pooled
    <2>4. PoolMatches(c, r[2], i.aux[r])
      BY <1>2, <2>1, <2>2, <2>3, PoolIsMatched
    <2>. QED
      BY <2>2, <2>4
  <1>6. \A r \in DOMAIN i.aux : good(r)
    <2>. HIDE DEF good
    <2>. QED
      BY <1>2, <1>3, <1>4, <1>5
  <1>. QED
    BY <1>1, <1>6 DEF ResourcesMatch

\* An order that is one segment of several names its job without doubt.
LEMMA ImageOfDueDates ==
  ASSUME NEW c, Compilable(c), NEW ws, NEW i, i = Compile(c, ws)
  PROVE  OrdersMatch(c, i)
  <1>. DEFINE head == ChainHead(c)
              K == {OrderKey(c, head, o) : o \in c.ops}
  <1>1. DOMAIN i.orders = K /\ \A n \in K : i.orders[n].due = c.due[n[1]]
    <2>1. i.orders = OrderImage(c, head)
      BY ImageOfOrders
    <2>. HIDE DEF head
    <2>2. DOMAIN OrderImage(c, head) = K /\ \A n \in K : OrderImage(c, head)[n].due = c.due[n[1]]
      BY DEF OrderImage
    <2>. QED
      BY <2>1, <2>2
  <1>2. ASSUME NEW o \in c.ops
        PROVE  JobsOf(c, OrderKey(c, head, o)) = {c.job[o]}
    <2>. DEFINE k == OrderKey(c, head, o)
                sole == \A q \in c.ops : c.job[q] = c.job[o] => head[q] = head[o]
    <2>1. c.job[o] \in DOMAIN c.due
      BY DEF Compilable
    <2>2. CASE sole
      <3>1. k = <<c.job[o]>>
        BY <2>2 DEF OrderKey
      <3>2. Len(k) = 1 /\ k[1] = c.job[o]
        BY <3>1
      <3>3. JobsOf(c, k) = {k[1]} \cap DOMAIN c.due
        BY <3>2 DEF JobsOf
      <3>. QED
        BY <2>1, <3>2, <3>3
    <2>3. CASE ~sole
      <3>1. k = <<c.job[o], head[o]>>
        BY <2>3 DEF OrderKey
      <3>2. Len(k) # 1 /\ k[1] = c.job[o]
        BY <3>1
      <3>3. JobsOf(c, k) = {j \in DOMAIN c.due : c.job[o] = j \/ <<c.job[o], j>> \in c.inside}
        BY <3>2 DEF JobsOf, Names
      <3>4. \A j : <<c.job[o], j>> \notin c.inside
        <4>1. PICK q \in c.ops : c.job[q] = c.job[o] /\ head[q] # head[o]
          BY <2>3
        <4>2. \A e \in c.inside : c.job[o] = e[1] /\ c.job[q] = e[1] => head[o] = head[q]
          BY DEF Compilable
        <4>. HIDE DEF head
        <4>. QED
          BY <4>1, <4>2
      <3>. QED
        BY <2>1, <3>3, <3>4
    <2>. QED
      BY <2>2, <2>3
  <1>3. \A o \in c.ops : OrderKey(c, head, o)[1] = c.job[o] /\ c.job[o] \in DOMAIN c.due
    BY KeyIsOfJob DEF Compilable
  <1>. HIDE DEF head
  <1>. QED
    BY <1>1, <1>2, <1>3 DEF OrdersMatch

\* What is compiled from a card and its windows is, to the notary, their image.
THEOREM ImageIsMatched ==
  ASSUME NEW c, Compilable(c), NEW ws, Lifting(c, ws)
  PROVE  ImageMatches(c, ws, Compile(c, ws))
  <1>. DEFINE i == Compile(c, ws)
  <1>1. IdsMatch(c, i) /\ i.horizon = c.horizon
    BY ImageKnowsAll
  <1>2. ReferencesClosed(i)
    BY ImageIsClosed
  <1>3. ChainsMatch(c, ws, i)
    BY ImageOfChains
  <1>4. OperationsMatch(c, i)
    BY ImageOfWork
  <1>5. SetupsMatch(c, i)
    BY ImageOfChangeovers
  <1>6. NeedsMatch(c, i)
    BY ImageOfNeeds
  <1>7. ResourcesMatch(c, i)
    BY ImageOfCapacity
  <1>8. OrdersMatch(c, i)
    BY ImageOfDueDates
  <1>. HIDE DEF i
  <1>9. ImageMatches(c, ws, i)
    BY <1>1, <1>2, <1>3, <1>4, <1>5, <1>6, <1>7, <1>8 DEF ImageMatches
  <1>. QED
    BY <1>9 DEF i

-----------------------------------------------------------------------------
(***************************************************************************)
(* An image that passes is the image of the card, as far as the kernel     *)
(* reads it: whatever another card and other windows were compiled to.     *)
(***************************************************************************)
Visit(c, ws, o) ==
  LET head == ChainHead(c)
  IN [order |-> OrderKey(c, head, o), job |-> c.job[o], segment |-> head[o],
      seq |-> SeqInOrder(c, Chain(head, o), o),
      pred |-> {e[1] : e \in {x \in Links(c) : x[2] = o}},
      earliest |-> Earliest(c, ws, o), latest |-> c.latest[o],
      dur |-> c.dur[o], state |-> c.state[o], posts |-> c.posts[o]]

PostImage(c) == [x \in DOMAIN c.cap |->
                  [size |-> c.cap[x],
                   cal |-> IF PostCal(x) \in c.published THEN c.cal[PostCal(x)] ELSE {}]]

UseImage(c) == UNION {{o} \X (Personnel(c, o) \cup {ToolCal(x) : x \in c.tools[o]}) : o \in c.ops}

LEMMA ImageIs ==
  ASSUME NEW c, NEW ws
  PROVE  Compile(c, ws) =
           [ops |-> [o \in c.ops |-> Visit(c, ws, o)], orders |-> OrderImage(c, ChainHead(c)),
            posts |-> PostImage(c), aux |-> AuxImage(c), needs |-> UseImage(c),
            states |-> StatesOf(c), setup |-> SetupImage(c, StatesOf(c)), horizon |-> c.horizon]
  BY DEF Compile, Visit, PostImage, UseImage, StatesOf

\* The bounds of the earliest start leave one value.
LEMMA OneEarliest ==
  ASSUME NEW c, Compilable(c), NEW ws, \A o \in DOMAIN ws : ws[o] \in Int,
         NEW i, NEW k, NEW o \in c.ops,
         EarliestMatches(c, ws, i, o), EarliestMatches(c, ws, k, o)
  PROVE  i.ops[o].earliest = k.ops[o].earliest
  <1>. DEFINE a == i.ops[o].earliest
              b == k.ops[o].earliest
  <1>1. c.floor[o] \in Int /\ \A s \in c.needs[o] : c.stock[s].from \in Int
    BY DEF Compilable, CardOk
  <1>2. /\ a >= c.floor[o] /\ \A s \in c.needs[o] : a >= c.stock[s].from
        /\ o \in DOMAIN ws => a >= ws[o]
        /\ \/ a = c.floor[o] \/ \E s \in c.needs[o] : a = c.stock[s].from
           \/ o \in DOMAIN ws /\ a = ws[o]
    BY DEF EarliestMatches, NotEarlier
  <1>3. /\ b >= c.floor[o] /\ \A s \in c.needs[o] : b >= c.stock[s].from
        /\ o \in DOMAIN ws => b >= ws[o]
        /\ \/ b = c.floor[o] \/ \E s \in c.needs[o] : b = c.stock[s].from
           \/ o \in DOMAIN ws /\ b = ws[o]
    BY DEF EarliestMatches, NotEarlier
  <1>. HIDE DEF a, b
  <1>4. a \in Int /\ b \in Int
    BY <1>1, <1>2, <1>3
  <1>5. a >= b /\ b >= a
    BY <1>1, <1>2, <1>3, <1>4
  <1>6. a = b
    BY <1>4, <1>5
  <1>. QED
    BY <1>6 DEF a, b

LEMMA ClosedIsOpenToTheKernel ==
  ASSUME NEW c, NEW r, Closed(c, r)
  PROVE  KernelCal(c, r) = {}
  BY DEF Closed, KernelCal

\* Of a pool there is one image that the notary takes.
LEMMA OnePool ==
  ASSUME NEW c, NEW k, NEW a, NEW b, PoolMatches(c, k, a), PoolMatches(c, k, b)
  PROVE  a.size = b.size /\ a.cal = b.cal
  <1>. DEFINE fit == {w \in DOMAIN c.crewCap : \A o \in c.ops : c.skills[o] = k => Skilled(c, o, w)}
              cal(w) == KernelCal(c, CrewCal(w))
              shut(w) == Closed(c, CrewCal(w))
              open(x) == {w \in fit : cal(w) = x.cal}
              ok(x) == /\ x.size = IF fit = {} THEN 1 ELSE Cardinality(fit)
                       /\ \/ x.cal # {} /\ fit # {} /\ open(x) = fit
                          \/ x.cal = {} /\ (open(x) = fit \/ \E w, v \in fit : shut(w) \/ cal(w) # cal(v))
  <1>1. ok(a) /\ ok(b)
    BY DEF PoolMatches
  <1>2. \A w : shut(w) => cal(w) = {}
    BY ClosedIsOpenToTheKernel
  <1>3. ASSUME NEW x, open(x) = fit
        PROVE  \A w \in fit : cal(w) = x.cal
    BY <1>3
  <1>. HIDE DEF fit, cal, shut, open
  <1>4. ASSUME NEW x, NEW y, ok(x), ok(y), x.cal # {}
        PROVE  y.cal = x.cal
    <2>1. fit # {} /\ \A w \in fit : cal(w) = x.cal
      BY <1>3, <1>4
    <2>2. ~\E w, v \in fit : shut(w) \/ cal(w) # cal(v)
      BY <1>2, <1>4, <2>1
    <2>3. open(y) = fit
      BY <1>4, <2>2
    <2>. QED
      BY <1>3, <2>1, <2>3
  <1>. HIDE DEF ok
  <1>5. a.cal = b.cal
    BY <1>1, <1>4
  <1>. QED
    BY <1>1, <1>5 DEF ok

\* What the check says of one operation, one way for any two images that pass.
LEMMA SameVisit ==
  ASSUME NEW c, Compilable(c), NEW ws, \A o \in DOMAIN ws : ws[o] \in Int,
         NEW i, ImageMatches(c, ws, i), NEW k, ImageMatches(c, ws, k), NEW o \in c.ops
  PROVE  /\ i.ops[o].job = k.ops[o].job /\ i.ops[o].segment = k.ops[o].segment
         /\ i.ops[o].seq = k.ops[o].seq /\ i.ops[o].pred = k.ops[o].pred
         /\ i.ops[o].earliest = k.ops[o].earliest /\ i.ops[o].latest = k.ops[o].latest
         /\ i.ops[o].dur = k.ops[o].dur /\ i.ops[o].state = k.ops[o].state
         /\ i.ops[o].posts = k.ops[o].posts
  <1>1. ChainsMatch(c, ws, i) /\ ChainsMatch(c, ws, k) /\ OperationsMatch(c, i) /\ OperationsMatch(c, k)
    BY DEF ImageMatches
  <1>2. i.ops[o].earliest = k.ops[o].earliest
    BY <1>1, OneEarliest DEF ChainsMatch
  <1>3. /\ i.ops[o].job = k.ops[o].job /\ i.ops[o].segment = k.ops[o].segment
        /\ i.ops[o].seq = k.ops[o].seq /\ i.ops[o].pred = k.ops[o].pred
    BY <1>1 DEF ChainsMatch
  <1>4. /\ i.ops[o].latest = k.ops[o].latest
        /\ i.ops[o].dur = k.ops[o].dur /\ i.ops[o].state = k.ops[o].state
        /\ i.ops[o].posts = k.ops[o].posts
    BY <1>1 DEF OperationsMatch
  <1>. QED
    BY <1>2, <1>3, <1>4

\* The key of an order is read from jobs and chains.
LEMMA SameKey ==
  ASSUME NEW c, NEW d, c.ops = d.ops, NEW g, NEW h,
         \A o \in c.ops : c.job[o] = d.job[o] /\ g[o] = h[o]
  PROVE  \A o \in c.ops : OrderKey(c, g, o) = OrderKey(d, h, o)
  BY DEF OrderKey

\* From here on: image i was compiled from card d, and passes as that of card c.
Passes(c, ws, d, vs) ==
  /\ Compilable(c) /\ Compilable(d) /\ Lifting(c, ws)
  /\ ImageMatches(c, ws, Compile(d, vs))

LEMMA VisitsAgree ==
  ASSUME NEW c, NEW ws, NEW d, NEW vs, Passes(c, ws, d, vs)
  PROVE  /\ c.ops = d.ops
         /\ \A o \in c.ops : /\ c.job[o] = d.job[o] /\ ChainHead(c)[o] = ChainHead(d)[o]
                             /\ c.state[o] = d.state[o]
         /\ \A o \in c.ops : OrderKey(c, ChainHead(c), o) = OrderKey(d, ChainHead(d), o)
         /\ [o \in c.ops |-> Visit(c, ws, o)] = [o \in d.ops |-> Visit(d, vs, o)]
  <1>. DEFINE i == Compile(d, vs)
              k == Compile(c, ws)
  <1>1. /\ Compilable(c) /\ Compilable(d) /\ Lifting(c, ws)
        /\ ImageMatches(c, ws, i) /\ ImageMatches(c, ws, k)
    BY ImageIsMatched DEF Passes
  <1>2. c.ops = d.ops
    <2>1. DOMAIN i.ops = d.ops
      BY ImageOfOperations
    <2>. HIDE DEF i
    <2>2. DOMAIN i.ops = c.ops
      BY <1>1 DEF ImageMatches, IdsMatch
    <2>. QED
      BY <2>1, <2>2
  <1>3. ASSUME NEW o \in c.ops
        PROVE  i.ops[o] = Visit(d, vs, o) /\ k.ops[o] = Visit(c, ws, o)
    <2>1. i.ops = [q \in d.ops |-> Visit(d, vs, q)] /\ k.ops = [q \in c.ops |-> Visit(c, ws, q)]
      BY ImageIs
    <2>. HIDE DEF i, k
    <2>. QED
      BY <1>2, <2>1
  <1>4. \A o \in DOMAIN ws : ws[o] \in Int
    BY <1>1 DEF Lifting
  <1>. HIDE DEF i, k
  <1>5. ASSUME NEW o \in c.ops
        PROVE  /\ Visit(c, ws, o).job = Visit(d, vs, o).job
               /\ Visit(c, ws, o).segment = Visit(d, vs, o).segment
               /\ Visit(c, ws, o).seq = Visit(d, vs, o).seq
               /\ Visit(c, ws, o).pred = Visit(d, vs, o).pred
               /\ Visit(c, ws, o).earliest = Visit(d, vs, o).earliest
               /\ Visit(c, ws, o).latest = Visit(d, vs, o).latest
               /\ Visit(c, ws, o).dur = Visit(d, vs, o).dur
               /\ Visit(c, ws, o).state = Visit(d, vs, o).state
               /\ Visit(c, ws, o).posts = Visit(d, vs, o).posts
    BY <1>1, <1>3, <1>4, SameVisit
  <1>6. \A o \in c.ops : c.job[o] = d.job[o] /\ ChainHead(c)[o] = ChainHead(d)[o] /\ c.state[o] = d.state[o]
    BY <1>5 DEF Visit
  <1>7. \A o \in c.ops : OrderKey(c, ChainHead(c), o) = OrderKey(d, ChainHead(d), o)
    BY <1>2, <1>6, SameKey
  <1>8. ASSUME NEW o \in c.ops
        PROVE  Visit(c, ws, o) = Visit(d, vs, o)
    BY <1>5, <1>7 DEF Visit
  <1>. QED
    BY <1>2, <1>6, <1>7, <1>8

LEMMA OrdersAgree ==
  ASSUME NEW c, NEW ws, NEW d, NEW vs, Passes(c, ws, d, vs)
  PROVE  OrderImage(c, ChainHead(c)) = OrderImage(d, ChainHead(d))
  <1>. DEFINE g == ChainHead(c)
              h == ChainHead(d)
              i == Compile(d, vs)
              K == {OrderKey(c, g, o) : o \in c.ops}
              L == {OrderKey(d, h, o) : o \in d.ops}
              first(n) == {g[o] : o \in {q \in c.ops : OrderKey(c, g, q) = n}}
              then(n)  == {h[o] : o \in {q \in d.ops : OrderKey(d, h, q) = n}}
  <1>1. /\ c.ops = d.ops
        /\ \A o \in c.ops : g[o] = h[o] /\ OrderKey(c, g, o) = OrderKey(d, h, o)
    BY VisitsAgree
  <1>2. /\ OrderImage(c, g) = [n \in K |-> [segment |-> Min(first(n)), due |-> c.due[n[1]]]]
        /\ OrderImage(d, h) = [n \in L |-> [segment |-> Min(then(n)), due |-> d.due[n[1]]]]
    BY DEF OrderImage
  <1>3. K = L /\ \A n : first(n) = then(n)
    BY <1>1
  <1>4. ASSUME NEW n \in K
        PROVE  c.due[n[1]] = d.due[n[1]]
    <2>1. PICK o \in c.ops : n = OrderKey(c, g, o)
      OBVIOUS
    <2>2. n[1] = c.job[o] /\ c.job[o] \in DOMAIN c.due
      BY <2>1, KeyIsOfJob DEF Passes, Compilable
    <2>3. i.orders = OrderImage(d, h) /\ OrdersMatch(c, i)
      BY ImageOfOrders DEF Passes, ImageMatches
    <2>. HIDE DEF i, g, h
    <2>4. n \in DOMAIN i.orders /\ i.orders[n].due = d.due[n[1]]
      BY <1>2, <1>3, <2>3
    <2>5. PICK j \in DOMAIN c.due : JobsOf(c, n) = {j} /\ i.orders[n].due = c.due[j]
      BY <2>3, <2>4 DEF OrdersMatch
    <2>6. n[1] \in JobsOf(c, n)
      BY <2>2 DEF JobsOf, Names
    <2>. QED
      BY <2>4, <2>5, <2>6
  <1>. HIDE DEF K, L, first, then, g, h
  <1>5. OrderImage(c, g) = OrderImage(d, h)
    BY <1>2, <1>3, <1>4
  <1>. QED
    BY <1>5 DEF g, h

LEMMA PostsAgree ==
  ASSUME NEW c, NEW ws, NEW d, NEW vs, Passes(c, ws, d, vs)
  PROVE  PostImage(c) = PostImage(d) /\ c.horizon = d.horizon
  <1>. DEFINE i == Compile(d, vs)
              cal(b, x) == IF PostCal(x) \in b.published THEN b.cal[PostCal(x)] ELSE {}
  <1>1. /\ DOMAIN i.posts = DOMAIN d.cap /\ i.horizon = d.horizon
        /\ \A x \in DOMAIN d.cap : i.posts[x].size = d.cap[x] /\ i.posts[x].cal = cal(d, x)
    BY ImageOfPosts
  <1>2. ImageMatches(c, ws, i)
    BY DEF Passes
  <1>. HIDE DEF i
  <1>3. /\ DOMAIN i.posts = DOMAIN c.cap /\ i.horizon = c.horizon
        /\ \A x \in DOMAIN c.cap : i.posts[x].size = c.cap[x] /\ i.posts[x].cal = cal(c, x)
    BY <1>2 DEF ImageMatches, IdsMatch, ResourcesMatch
  <1>4. /\ PostImage(c) = [x \in DOMAIN c.cap |-> [size |-> c.cap[x], cal |-> cal(c, x)]]
        /\ PostImage(d) = [x \in DOMAIN d.cap |-> [size |-> d.cap[x], cal |-> cal(d, x)]]
    BY DEF PostImage
  <1>. HIDE DEF cal
  <1>5. DOMAIN c.cap = DOMAIN d.cap /\ c.horizon = d.horizon
    BY <1>1, <1>3
  <1>6. \A x \in DOMAIN c.cap : c.cap[x] = d.cap[x] /\ cal(c, x) = cal(d, x)
    BY <1>1, <1>3
  <1>. QED
    BY <1>4, <1>5, <1>6

LEMMA SetupsAgree ==
  ASSUME NEW c, NEW ws, NEW d, NEW vs, Passes(c, ws, d, vs)
  PROVE  StatesOf(c) = StatesOf(d) /\ SetupImage(c, StatesOf(c)) = SetupImage(d, StatesOf(d))
  <1>. DEFINE T == StatesOf(c)
              i == Compile(d, vs)
              k == Compile(c, ws)
              U == (DOMAIN c.cap) \X T \X T
  <1>1. T = StatesOf(d)
    BY VisitsAgree DEF StatesOf
  <1>2. /\ i.states = T /\ i.setup = SetupImage(d, T)
        /\ k.states = T /\ k.setup = SetupImage(c, T)
    BY <1>1, ImageOfSetups
  <1>3. ImageMatches(c, ws, i) /\ ImageMatches(c, ws, k)
    BY ImageIsMatched DEF Passes
  <1>4. \E f : i.setup = [n \in DOMAIN i.setup |-> f[n]]
    <2>1. i.setup = [n \in DOMAIN i.setup |-> i.setup[n]]
      BY <1>2 DEF SetupImage
    <2>. QED
      BY <2>1
  <1>5. \E f : k.setup = [n \in DOMAIN k.setup |-> f[n]]
    <2>1. k.setup = [n \in DOMAIN k.setup |-> k.setup[n]]
      BY <1>2 DEF SetupImage
    <2>. QED
      BY <2>1
  <1>. HIDE DEF i, k, T
  <1>. DEFINE sure(m, n) == LET minutes == Cell(c, n[1], n[2], n[3])
                            IN IF minutes = NoCell /\ c.missing # "zero"
                               THEN n \notin DOMAIN m.setup
                               ELSE /\ n \in DOMAIN m.setup
                                    /\ m.setup[n] = (IF minutes = NoCell THEN 0 ELSE minutes)
  <1>6. ASSUME NEW m, m \in {i, k}
        PROVE  /\ DOMAIN m.setup \subseteq U
               /\ \A n \in U : sure(m, n)
    <2>1. /\ DOMAIN m.posts = DOMAIN c.cap /\ m.states = T /\ ReferencesClosed(m) /\ SetupsMatch(c, m)
      BY <1>2, <1>3, <1>6 DEF ImageMatches, IdsMatch
    <2>2. DOMAIN m.setup \subseteq U
      <3>1. DOMAIN m.setup \subseteq (DOMAIN m.posts) \X m.states \X m.states
        BY <2>1 DEF ReferencesClosed
      <3>. QED
        BY <2>1, <3>1
    <2>3. ASSUME NEW x \in DOMAIN c.cap, NEW from \in T, NEW to \in T
          PROVE  sure(m, <<x, from, to>>)
      <3>. DEFINE n == <<x, from, to>>
                  minutes == Cell(c, x, from, to)
      <3>1. IF minutes = NoCell /\ c.missing # "zero"
            THEN n \notin DOMAIN m.setup
            ELSE n \in DOMAIN m.setup /\ m.setup[n] = (IF minutes = NoCell THEN 0 ELSE minutes)
        BY <2>1 DEF SetupsMatch
      <3>2. n[1] = x /\ n[2] = from /\ n[3] = to
        OBVIOUS
      <3>. HIDE DEF n
      <3>3. sure(m, n)
        BY <3>1, <3>2
      <3>. QED
        BY <3>3 DEF n
    <2>4. \A n \in U : \E x \in DOMAIN c.cap, from, to \in T : n = <<x, from, to>>
      OBVIOUS
    <2>. HIDE DEF sure, U
    <2>. QED
      BY <2>2, <2>3, <2>4
  <1>. HIDE DEF U
  <1>7. DOMAIN i.setup = DOMAIN k.setup /\ \A n \in DOMAIN i.setup : i.setup[n] = k.setup[n]
    BY <1>6
  <1>8. i.setup = k.setup
    BY <1>4, <1>5, <1>7
  <1>. QED
    BY <1>1, <1>2, <1>8 DEF T

LEMMA NeedsAgree ==
  ASSUME NEW c, NEW ws, NEW d, NEW vs, Passes(c, ws, d, vs)
  PROVE  UseImage(c) = UseImage(d)
  <1>. DEFINE i == Compile(d, vs)
              k == Compile(c, ws)
  <1>1. i.needs = UseImage(d) /\ i.aux = AuxImage(d) /\ k.needs = UseImage(c) /\ k.aux = AuxImage(c)
    BY ImageIs
  <1>2. ImageMatches(c, ws, i) /\ ImageMatches(c, ws, k)
    BY ImageIsMatched DEF Passes
  <1>. HIDE DEF i, k
  <1>3. DOMAIN i.ops = c.ops /\ DOMAIN k.ops = c.ops
    BY <1>2 DEF ImageMatches, IdsMatch
  <1>4. i.needs \subseteq c.ops \X DOMAIN i.aux /\ k.needs \subseteq c.ops \X DOMAIN k.aux
    BY <1>2, <1>3 DEF ImageMatches, ReferencesClosed
  <1>5. NeedsMatch(c, i) /\ NeedsMatch(c, k)
    BY <1>2 DEF ImageMatches
  <1>. DEFINE asks(o, r) == IF r[1] = "tool" THEN r[2] \in c.tools[o] ELSE r \in ServedBy(c, o)
  <1>6. /\ \A o \in c.ops, r \in DOMAIN i.aux : <<o, r>> \in i.needs <=> asks(o, r)
        /\ \A o \in c.ops, q \in DOMAIN k.aux : <<o, q>> \in k.needs <=> asks(o, q)
    BY <1>5 DEF NeedsMatch
  <1>7. /\ DOMAIN i.aux = CrewsOf(d) \cup ToolsOf(d) \cup PoolsOf(d)
        /\ DOMAIN k.aux = CrewsOf(c) \cup ToolsOf(c) \cup PoolsOf(c)
    BY <1>1, ResourcesAre
  \* A resource that is asked for is in the image.
  <1>8. ASSUME NEW m, NEW l, m \in {i, k}, l \in {i, k}, NEW o \in c.ops, NEW r \in DOMAIN m.aux, asks(o, r)
        PROVE  r \in DOMAIN l.aux
    <2>1. CASE r[1] = "tool"
      <3>1. r[2] \in {q[2] : q \in {x \in DOMAIN l.aux : x[1] = "tool"}}
        BY <1>5, <1>8, <2>1 DEF NeedsMatch
      <3>2. PICK q \in DOMAIN l.aux : q[1] = "tool" /\ q[2] = r[2]
        BY <3>1
      <3>3. \A x \in DOMAIN m.aux \cup DOMAIN l.aux : x[1] = "tool" => x = ToolCal(x[2])
        BY <1>7, <1>8, KindsDiffer DEF CrewsOf, ToolsOf, PoolsOf
      <3>. QED
        BY <2>1, <3>2, <3>3
    <2>2. CASE r[1] # "tool"
      BY <1>5, <1>8, <2>2 DEF NeedsMatch
    <2>. QED
      BY <2>1, <2>2
  <1>. HIDE DEF asks
  <1>9. i.needs = k.needs
    <2>1. ASSUME NEW n \in i.needs PROVE n \in k.needs
      <3>1. PICK o \in c.ops, r \in DOMAIN i.aux : n = <<o, r>>
        BY <1>4
      <3>2. asks(o, r)
        BY <1>6, <3>1
      <3>3. r \in DOMAIN k.aux
        BY <1>8, <3>2
      <3>. QED
        BY <1>6, <3>1, <3>2, <3>3
    <2>2. ASSUME NEW n \in k.needs PROVE n \in i.needs
      <3>1. PICK o \in c.ops, r \in DOMAIN k.aux : n = <<o, r>>
        BY <1>4
      <3>2. asks(o, r)
        BY <1>6, <3>1
      <3>3. r \in DOMAIN i.aux
        BY <1>8, <3>2
      <3>. QED
        BY <1>6, <3>1, <3>2, <3>3
    <2>. QED
      BY <2>1, <2>2
  <1>. QED
    BY <1>1, <1>9

\* Crews, tools and pools that serve an operation.
LEMMA ResourcesAgree ==
  ASSUME NEW c, NEW ws, NEW d, NEW vs, Passes(c, ws, d, vs), NEW n \in UseImage(c)
  PROVE  AuxImage(c)[n[2]] = AuxImage(d)[n[2]]
  <1>. DEFINE i == Compile(d, vs)
              k == Compile(c, ws)
              r == n[2]
  <1>1. i.needs = UseImage(d) /\ i.aux = AuxImage(d) /\ k.needs = UseImage(c) /\ k.aux = AuxImage(c)
    BY ImageIs
  <1>2. ImageMatches(c, ws, i) /\ ImageMatches(c, ws, k)
    BY ImageIsMatched DEF Passes
  <1>. HIDE DEF i, k
  <1>3. r \in DOMAIN i.aux /\ r \in DOMAIN k.aux
    BY <1>1, <1>2, NeedsAgree DEF ImageMatches, ReferencesClosed
  <1>4. ResourcesMatch(c, i) /\ ResourcesMatch(c, k)
    BY <1>2 DEF ImageMatches
  <1>5. DOMAIN k.aux = CrewsOf(c) \cup ToolsOf(c) \cup PoolsOf(c)
    BY <1>1, ResourcesAre
  <1>6. r[1] \in {"crew", "tool", "pool"}
    <2>. HIDE DEF r
    <2>1. CASE r \in CrewsOf(c)
      BY <2>1, KindsDiffer DEF CrewsOf
    <2>2. CASE r \in ToolsOf(c)
      BY <2>2, KindsDiffer DEF ToolsOf
    <2>3. CASE r \in PoolsOf(c)
      BY <2>3, KindsDiffer DEF PoolsOf
    <2>. QED
      BY <1>3, <1>5, <2>1, <2>2, <2>3
  <1>7. CASE r[1] # "pool"
    <2>. HIDE DEF r
    <2>1. CASE r[1] = "crew"
      <3>1. /\ i.aux[r] = [size |-> c.crewCap[r[2]], cal |-> KernelCal(c, r)]
            /\ k.aux[r] = [size |-> c.crewCap[r[2]], cal |-> KernelCal(c, r)]
        BY <1>3, <1>4, <2>1 DEF ResourcesMatch
      <3>. QED
        BY <1>1, <3>1 DEF r
    <2>2. CASE r[1] = "tool"
      <3>1. /\ i.aux[r] = [size |-> c.toolCap[r[2]], cal |-> KernelCal(c, r)]
            /\ k.aux[r] = [size |-> c.toolCap[r[2]], cal |-> KernelCal(c, r)]
        BY <1>3, <1>4, <2>2 DEF ResourcesMatch
      <3>. QED
        BY <1>1, <3>1 DEF r
    <2>. QED
      BY <1>6, <1>7, <2>1, <2>2
  <1>8. CASE r[1] = "pool"
    <2>1. PoolMatches(c, r[2], i.aux[r]) /\ PoolMatches(c, r[2], k.aux[r])
      BY <1>3, <1>4, <1>8 DEF ResourcesMatch
    <2>2. i.aux[r].size = k.aux[r].size /\ i.aux[r].cal = k.aux[r].cal
      BY <2>1, OnePool
    <2>3. r \in PoolsOf(c) /\ r \in PoolsOf(d)
      <3>1. DOMAIN i.aux = CrewsOf(d) \cup ToolsOf(d) \cup PoolsOf(d)
        BY <1>1, ResourcesAre
      <3>. QED
        BY <1>3, <1>5, <1>8, <3>1, KindsDiffer DEF CrewsOf, ToolsOf
    <2>4. \E o, q : AuxImage(c)[r] = PoolImage(c, o) /\ AuxImage(d)[r] = PoolImage(d, q)
      BY <2>3, AuxRecords
    <2>. QED
      BY <1>1, <2>2, <2>4 DEF PoolImage
  <1>. QED
    BY <1>7, <1>8

\* An image passes for one card and one set of windows: what the kernel is asked
\* with it is what it would be asked with theirs.
THEOREM PassingImagesAreAsked ==
  ASSUME NEW c, NEW ws, NEW d, NEW vs, Passes(c, ws, d, vs)
  PROVE  Asked(Compile(d, vs)) = Asked(Compile(c, ws))
  <1>. DEFINE used(b) == {n[2] : n \in UseImage(b)}
              asked(b, us) ==
                [ops |-> [o \in b.ops |-> Visit(b, us, o)], orders |-> OrderImage(b, ChainHead(b)),
                 posts |-> PostImage(b), aux |-> [r \in used(b) |-> AuxImage(b)[r]],
                 needs |-> UseImage(b), states |-> StatesOf(b), setup |-> SetupImage(b, StatesOf(b)),
                 horizon |-> b.horizon]
  <1>1. ASSUME NEW b, NEW us
        PROVE  Asked(Compile(b, us)) = asked(b, us)
    <2>. DEFINE k == Compile(b, us)
    <2>1. k = [ops |-> [o \in b.ops |-> Visit(b, us, o)], orders |-> OrderImage(b, ChainHead(b)),
               posts |-> PostImage(b), aux |-> AuxImage(b), needs |-> UseImage(b),
               states |-> StatesOf(b), setup |-> SetupImage(b, StatesOf(b)), horizon |-> b.horizon]
      BY ImageIs
    <2>. HIDE DEF k
    <2>2. Asked(k) = asked(b, us)
      BY <2>1 DEF Asked
    <2>. QED
      BY <2>2 DEF k
  <1>2. used(c) = used(d) /\ \A r \in used(c) : AuxImage(c)[r] = AuxImage(d)[r]
    BY NeedsAgree, ResourcesAgree
  <1>3. [r \in used(c) |-> AuxImage(c)[r]] = [r \in used(d) |-> AuxImage(d)[r]]
    <2>. HIDE DEF used
    <2>. QED
      BY <1>2
  <1>. HIDE DEF used
  <1>4. asked(c, ws) = asked(d, vs)
    BY <1>3, VisitsAgree, OrdersAgree, PostsAgree, SetupsAgree, NeedsAgree
  <1>. HIDE DEF asked
  <1>. QED
    BY <1>1, <1>4

-----------------------------------------------------------------------------
(***************************************************************************)
(* Repairs.  The image is compiled from the card before its rows are       *)
(* frozen and judged by the card after.                                    *)
(***************************************************************************)
\* No frozen row can change who serves an operation.
Settled(c) == \A o \in c.ops : o \in DOMAIN c.frozen \/ \E w : Matching(c, o) = {w}

\* The card c with more of its rows frozen, as rest.
Freezing(c, rest) == [c EXCEPT !.frozen = rest]

LEMMA FreezingKeeps ==
  ASSUME NEW c, Fields \subseteq DOMAIN c, NEW rest
  PROVE  LET d == Freezing(c, rest)
         IN /\ d.frozen = rest /\ Fields \subseteq DOMAIN d
            /\ d.horizon = c.horizon /\ d.ops = c.ops /\ d.dur = c.dur /\ d.lag = c.lag
            /\ d.policy = c.policy /\ d.state = c.state /\ d.floor = c.floor
            /\ d.latest = c.latest /\ d.needs = c.needs /\ d.stock = c.stock /\ d.job = c.job
            /\ d.posts = c.posts /\ d.permit = c.permit /\ d.skilled = c.skilled
            /\ d.tools = c.tools /\ d.cap = c.cap /\ d.crewCap = c.crewCap
            /\ d.toolCap = c.toolCap /\ d.cal = c.cal /\ d.unattended = c.unattended
            /\ d.setup = c.setup /\ d.missing = c.missing /\ d.preds = c.preds
            /\ d.strategy = c.strategy /\ d.seq = c.seq /\ d.skills = c.skills
            /\ d.published = c.published /\ d.due = c.due /\ d.inside = c.inside
  BY DEF Freezing, Fields

\* Chains, bounds and calendars do not depend on what is frozen.
LEMMA FreezingKeepsChains ==
  ASSUME NEW c, Fields \subseteq DOMAIN c, NEW rest, NEW d, d = Freezing(c, rest)
  PROVE  Links(d) = Links(c) /\ ChainHead(d) = ChainHead(c)
  <1>1. d.ops = c.ops /\ d.preds = c.preds /\ d.job = c.job /\ d.strategy = c.strategy
    BY FreezingKeeps
  <1>2. Edges(d) = Edges(c)
    BY <1>1 DEF Edges
  <1>3. \A e : SameJob(d, e) <=> SameJob(c, e)
    BY <1>1 DEF SameJob
  <1>4. SerialLinks(d) = SerialLinks(c)
    BY <1>1, <1>3 DEF SerialLinks
  <1>5. \A q : Succs(d, q) = Succs(c, q)
    BY <1>1 DEF Succs
  <1>6. SegmentLinks(d) = SegmentLinks(c)
    BY <1>1, <1>2, <1>3, <1>5 DEF SegmentLinks
  <1>7. Links(d) = Links(c)
    BY <1>1, <1>4, <1>6 DEF Links
  <1>8. \A o : ChainOf(d, o) = ChainOf(c, o)
    BY <1>1, <1>7 DEF ChainOf
  <1>9. ChainHead(d) = ChainHead(c)
    BY <1>1, <1>8 DEF ChainHead
  <1>. QED
    BY <1>7, <1>9

\* Where the crews are settled, neither do crews and pools.
LEMMA FreezingKeepsCrews ==
  ASSUME NEW c, Compilable(c), Settled(c),
         NEW rest, DOMAIN c.frozen \subseteq DOMAIN rest,
         \A q \in DOMAIN c.frozen : rest[q] = c.frozen[q],
         NEW d, d = Freezing(c, rest)
  PROVE  /\ \A r : KernelCal(d, r) = KernelCal(c, r) /\ (Closed(d, r) <=> Closed(c, r))
         /\ \A o : Matching(d, o) = Matching(c, o)
         /\ \A o \in c.ops : BoundCrew(d, o) = BoundCrew(c, o)
         /\ Pooled(d) = Pooled(c)
  <1>1. /\ d.ops = c.ops /\ d.published = c.published /\ d.unattended = c.unattended
        /\ d.cal = c.cal /\ d.crewCap = c.crewCap /\ d.permit = c.permit
        /\ d.skilled = c.skilled /\ d.frozen = rest
    BY FreezingKeeps DEF Compilable
  <1>2. \A r : KernelCal(d, r) = KernelCal(c, r) /\ (Closed(d, r) <=> Closed(c, r))
    BY <1>1 DEF KernelCal, Closed, Attended
  <1>3. \A o : Matching(d, o) = Matching(c, o)
    BY <1>1 DEF Matching, Skilled
  <1>4. ASSUME NEW o \in c.ops
        PROVE  BoundCrew(d, o) = BoundCrew(c, o)
    <2>1. CASE \E w : Matching(c, o) = {w}
      BY <1>3, <2>1 DEF BoundCrew
    <2>2. CASE o \in DOMAIN c.frozen
      BY <1>1, <1>3, <2>2 DEF BoundCrew
    <2>. QED
      BY <2>1, <2>2 DEF Settled
  <1>5. Pooled(d) = Pooled(c)
    BY <1>1, <1>4 DEF Pooled, NeedsCrew
  <1>. QED
    BY <1>2, <1>3, <1>4, <1>5

LEMMA FreezingIsCompilable ==
  ASSUME NEW c, Compilable(c), Settled(c),
         NEW rest, DOMAIN c.frozen \subseteq DOMAIN rest,
         \A q \in DOMAIN c.frozen : rest[q] = c.frozen[q]
  PROVE  Compilable(Freezing(c, rest))
  <1>. DEFINE d == Freezing(c, rest)
  <1>1. /\ d.ops = c.ops /\ d.horizon = c.horizon /\ d.dur = c.dur /\ d.lag = c.lag
        /\ d.preds = c.preds /\ d.job = c.job /\ d.crewCap = c.crewCap /\ d.posts = c.posts
        /\ d.cap = c.cap /\ d.tools = c.tools /\ d.toolCap = c.toolCap /\ d.due = c.due
        /\ d.floor = c.floor /\ d.latest = c.latest /\ d.needs = c.needs /\ d.stock = c.stock
        /\ d.skills = c.skills /\ d.state = c.state /\ d.setup = c.setup /\ d.inside = c.inside
        /\ Fields \subseteq DOMAIN d
    BY FreezingKeeps DEF Compilable
  <1>2. ChainHead(d) = ChainHead(c)
    BY FreezingKeepsChains DEF Compilable
  <1>3. /\ \A o : Matching(d, o) = Matching(c, o)
        /\ \A o \in c.ops : BoundCrew(d, o) = BoundCrew(c, o)
    BY FreezingKeepsCrews
  <1>4. \A x, from, to : Cell(d, x, from, to) = Cell(c, x, from, to)
    BY <1>1 DEF Cell
  <1>. HIDE DEF d
  <1>5. CardOk(d)
    BY <1>1 DEF Compilable, CardOk
  <1>6. Compilable(d)
    BY <1>1, <1>2, <1>3, <1>4, <1>5 DEF Compilable
  <1>. QED
    BY <1>6 DEF d

\* Nor does the image as a whole.
LEMMA FreezingKeepsImage ==
  ASSUME NEW c, Compilable(c), Settled(c),
         NEW rest, DOMAIN c.frozen \subseteq DOMAIN rest,
         \A q \in DOMAIN c.frozen : rest[q] = c.frozen[q],
         NEW ws
  PROVE  Compile(Freezing(c, rest), ws) = Compile(c, ws)
  <1>. DEFINE d == Freezing(c, rest)
  <1>1. /\ d.horizon = c.horizon /\ d.ops = c.ops /\ d.dur = c.dur /\ d.state = c.state
        /\ d.floor = c.floor /\ d.latest = c.latest /\ d.needs = c.needs /\ d.stock = c.stock
        /\ d.job = c.job /\ d.posts = c.posts /\ d.skilled = c.skilled /\ d.tools = c.tools
        /\ d.cap = c.cap /\ d.crewCap = c.crewCap /\ d.toolCap = c.toolCap /\ d.cal = c.cal
        /\ d.setup = c.setup /\ d.missing = c.missing /\ d.seq = c.seq
        /\ d.skills = c.skills /\ d.published = c.published /\ d.due = c.due
    BY FreezingKeeps DEF Compilable
  <1>2. Links(d) = Links(c) /\ ChainHead(d) = ChainHead(c)
    BY FreezingKeepsChains DEF Compilable
  <1>3. /\ \A r : KernelCal(d, r) = KernelCal(c, r) /\ (Closed(d, r) <=> Closed(c, r))
        /\ \A o : Matching(d, o) = Matching(c, o)
        /\ \A o \in c.ops : BoundCrew(d, o) = BoundCrew(c, o)
        /\ Pooled(d) = Pooled(c)
    BY FreezingKeepsCrews
  <1>. HIDE DEF d
  <1>4. \A head, o : OrderKey(d, head, o) = OrderKey(c, head, o)
    BY <1>1 DEF OrderKey
  <1>5. \A head : OrderImage(d, head) = OrderImage(c, head)
    BY <1>1, <1>4 DEF OrderImage
  <1>6. \A S, o : SeqInOrder(d, S, o) = SeqInOrder(c, S, o)
    BY <1>1 DEF SeqInOrder
  <1>7. \A o : Earliest(d, ws, o) = Earliest(c, ws, o)
    BY <1>1 DEF Earliest
  <1>8. \A o \in c.ops : Personnel(d, o) = Personnel(c, o)
    BY <1>1, <1>3 DEF Personnel, NeedsCrew
  <1>9. \A o : PoolCals(d, o) = PoolCals(c, o)
    BY <1>3 DEF PoolCals
  <1>10. \A o : PoolImage(d, o) = PoolImage(c, o)
    BY <1>3, <1>9 DEF PoolImage
  <1>11. AuxImage(d) = AuxImage(c)
    BY <1>1, <1>3, <1>10 DEF AuxImage
  <1>12. \A S : SetupImage(d, S) = SetupImage(c, S)
    BY <1>1 DEF SetupImage, Cell
  <1>. DEFINE head == ChainHead(c)
              visits(x) == [o \in c.ops |->
                 [order |-> OrderKey(x, head, o), job |-> c.job[o], segment |-> head[o],
                  seq |-> SeqInOrder(x, Chain(head, o), o),
                  pred |-> {e[1] : e \in {l \in Links(c) : l[2] = o}},
                  earliest |-> Earliest(x, ws, o), latest |-> c.latest[o],
                  dur |-> c.dur[o], state |-> c.state[o], posts |-> c.posts[o]]]
              uses(x) == UNION {{o} \X (Personnel(x, o) \cup {ToolCal(t) : t \in c.tools[o]}) : o \in c.ops}
              made(x) ==
                [ops |-> visits(x), orders |-> OrderImage(x, head),
                 posts |-> [p \in DOMAIN c.cap |->
                              [size |-> c.cap[p],
                               cal |-> IF PostCal(p) \in c.published THEN c.cal[PostCal(p)] ELSE {}]],
                 aux |-> AuxImage(x), needs |-> uses(x), states |-> StatesOf(c),
                 setup |-> SetupImage(x, StatesOf(c)), horizon |-> c.horizon]
  <1>13. Compile(c, ws) = made(c)
    BY DEF Compile, StatesOf
  <1>14. Compile(d, ws) = made(d)
    BY <1>1, <1>2 DEF Compile, StatesOf
  <1>. HIDE DEF head
  <1>15. visits(d) = visits(c)
    BY <1>4, <1>6, <1>7
  <1>16. uses(d) = uses(c)
    BY <1>8
  <1>. HIDE DEF visits, uses
  <1>17. made(d) = made(c)
    BY <1>5, <1>11, <1>12, <1>15, <1>16
  <1>. QED
    BY <1>13, <1>14, <1>17 DEF d

\* So what is compiled before the freezing matches the card after it.
LEMMA FrozenImageIsMatched ==
  ASSUME NEW c, Compilable(c), Settled(c),
         NEW rest, DOMAIN c.frozen \subseteq DOMAIN rest,
         \A q \in DOMAIN c.frozen : rest[q] = c.frozen[q]
  PROVE  ImageMatches([c EXCEPT !.frozen = rest], NoWindows, Compile(c, NoWindows))
  <1>. DEFINE d == Freezing(c, rest)
  <1>1. Compilable(d) /\ Compile(d, NoWindows) = Compile(c, NoWindows)
    BY FreezingIsCompilable, FreezingKeepsImage
  <1>2. Lifting(d, NoWindows)
    BY DEF Lifting, NoWindows
  <1>. HIDE DEF d
  <1>3. ImageMatches(d, NoWindows, Compile(d, NoWindows))
    BY <1>1, <1>2, ImageIsMatched
  <1>. QED
    BY <1>1, <1>3 DEF d, Freezing

-----------------------------------------------------------------------------
(***************************************************************************)
(* Every pass: the windows that are checked are those of the last image.   *)
(***************************************************************************)
CompiledInv ==
  /\ phase \in {"compiling", "judged", "refused", "repaired"}
  /\ phase # "repaired" => /\ card \in Cards
                           /\ Lifting(card, windows) /\ Lifting(card, built)
                           /\ image = Compile(card, built)

\* What a repair leaves.
RepairedInv == phase = "repaired" => ImageMatches(card, built, image)

\* An operation of the kernel's plan is done within the horizon.
LEMMA SlotsEnd ==
  ASSUME NEW c, Compilable(c), NEW ws, NEW o \in c.ops, NEW r \in KernelSlots(Compile(c, ws), o)
  PROVE  r.start \in Int /\ r.start + c.dur[o] <= c.horizon
  <1>. DEFINE i == Compile(c, ws)
  <1>1. i.ops[o].dur = c.dur[o] /\ i.ops[o].latest = c.latest[o] /\ i.horizon = c.horizon
    BY ImageOfOperations, ImageOfPosts
  <1>2. c.dur[o] \in Nat /\ c.latest[o] \in Nat /\ c.horizon \in Nat
    BY DEF Compilable, CardOk
  <1>. HIDE DEF i
  <1>3. r \in KernelSlots(i, o)
    BY DEF i
  <1>4. PICK x \in i.ops[o].posts, s \in i.ops[o].earliest..i.horizon : r = KernelSlot(i, o, x, s)
    BY <1>3 DEF KernelSlots
  <1>5. r.start = s /\ r.end = s + c.dur[o] /\ s \in Int
    <2>1. r.start = s /\ r.end = s + i.ops[o].dur
      BY <1>4 DEF KernelSlot, Row
    <2>. QED
      BY <1>1, <2>1
  <1>6. r.end <= Min({i.horizon, i.ops[o].latest})
    BY <1>3 DEF KernelSlots
  <1>7. Min({c.horizon, c.latest[o]}) \in Nat /\ Min({c.horizon, c.latest[o]}) <= c.horizon
    <2>1. {c.horizon, c.latest[o]} \in SUBSET Nat
      BY <1>2
    <2>2. /\ Min({c.horizon, c.latest[o]}) \in {c.horizon, c.latest[o]}
          /\ Min({c.horizon, c.latest[o]}) <= c.horizon
      BY <2>1, LeastOfNaturals
    <2>. QED
      BY <2>1, <2>2
  <1>. QED
    BY <1>1, <1>2, <1>5, <1>6, <1>7

\* Whatever the kernel answers, windows are lifted to minutes, and for the
\* destinations of cross edges only.
LEMMA PassesLift ==
  ASSUME NEW c, Compilable(c), NEW ws, Lifting(c, ws), NEW plan \in Answers(Compile(c, ws))
  PROVE  Lifting(c, Propagate(c, ws, Starts(plan)))
  <1>. DEFINE i == Compile(c, ws)
              s == Starts(plan)
  <1>1. plan \in KernelPlans(i, NoRows) \/ plan = NoRows
    BY DEF Answers
  <1>2. DOMAIN s = DOMAIN plan /\ \A o \in DOMAIN plan : s[o] = plan[o].start
    BY DEF Starts
  <1>3. ASSUME NEW o \in DOMAIN plan
        PROVE  s[o] \in Int /\ End(c, s, o) \in Int /\ End(c, s, o) <= c.horizon
    <2>1. plan # NoRows
      BY DEF NoRows
    <2>2. plan \in KernelPlans(i, NoRows)
      BY <1>1, <2>1
    <2>3. DOMAIN plan = DOMAIN i.ops /\ plan[o] \in KernelSlots(i, o)
      <3>. HIDE DEF i
      <3>. QED
        BY <2>2 DEF KernelPlans
    <2>4. o \in c.ops
      BY <2>3, ImageOfOperations
    <2>5. plan[o].start \in Int /\ plan[o].start + c.dur[o] <= c.horizon
      BY <2>3, <2>4, SlotsEnd
    <2>6. c.dur[o] \in Nat
      BY <2>4 DEF Compilable, CardOk
    <2>. HIDE DEF s
    <2>. QED
      BY <1>2, <2>5, <2>6 DEF End
  <1>. HIDE DEF s
  <1>4. EndsBy(c, s, c.horizon)
    BY <1>2, <1>3 DEF EndsBy
  <1>5. c.horizon \in Int
    BY DEF Compilable, CardOk
  <1>6. /\ DOMAIN ws \subseteq {e[2] : e \in CrossEdges(c)}
        /\ \A o \in DOMAIN ws : ws[o] \in Int
    BY DEF Lifting
  <1>7. /\ DOMAIN Propagate(c, ws, s) \subseteq DOMAIN ws \cup {e[2] : e \in CrossEdges(c)}
        /\ \A o \in DOMAIN Propagate(c, ws, s) : Propagate(c, ws, s)[o] \in Int
    BY <1>4, <1>5, <1>6, WindowsOnlyLift
  <1>8. Lifting(c, Propagate(c, ws, s))
    BY <1>6, <1>7 DEF Lifting
  <1>. QED
    BY <1>8 DEF s

LEMMA CompiledInvStarts == Init => CompiledInv /\ RepairedInv
  <1>. SUFFICES ASSUME Init PROVE CompiledInv /\ RepairedInv
    OBVIOUS
  <1>1. Lifting(card, NoWindows)
    BY DEF Lifting, NoWindows
  <1>. QED
    BY <1>1 DEF Init, CompiledInv, RepairedInv

\* Until the repair every step leaves the image that of its card.
LEMMA CompiledInvStays == CompiledInv /\ [Next]_vars => CompiledInv'
  <1>. SUFFICES ASSUME CompiledInv, [Next]_vars PROVE CompiledInv'
    OBVIOUS
  <1>1. CASE Solve
    <2>1. /\ phase = "compiling" /\ phase' \in {"judged", "compiling"}
          /\ image' = Compile(card, windows) /\ built' = windows /\ card' = card
          /\ \E plan \in Answers(image') : windows' = Propagate(card, windows, Starts(plan))
      BY <1>1 DEF Solve
    <2>2. PICK plan \in Answers(Compile(card, windows)) :
            windows' = Propagate(card, windows, Starts(plan))
      BY <2>1
    <2>3. card \in Cards /\ Compilable(card) /\ Lifting(card, windows)
      BY <2>1, CardsAssumption DEF CompiledInv
    <2>4. Lifting(card, windows')
      BY <2>2, <2>3, PassesLift
    <2>. QED
      BY <2>1, <2>3, <2>4 DEF CompiledInv
  <1>2. CASE Refuse
    BY <1>2 DEF Refuse, CompiledInv
  <1>3. ASSUME NEW o \in card.ops, Repair(o)
        PROVE  CompiledInv'
    BY <1>3 DEF Repair, CompiledInv
  <1>4. CASE UNCHANGED vars
    BY <1>4 DEF vars, CompiledInv
  <1>. QED
    BY <1>1, <1>2, <1>3, <1>4 DEF Next

\* And the repair, where the crews are settled.
LEMMA RepairedInvStays ==
  ASSUME \A c \in Repaired : Settled(c), CompiledInv, RepairedInv, [Next]_vars
  PROVE  RepairedInv'
  <1>1. CASE Solve
    BY <1>1 DEF Solve, RepairedInv
  <1>2. CASE Refuse
    BY <1>2 DEF Refuse, RepairedInv
  <1>3. ASSUME NEW o \in card.ops, Repair(o)
        PROVE  RepairedInv'
    <2>. DEFINE kept == DOMAIN card.frozen \cup (DOMAIN rows \ {o})
                rest == [q \in kept |-> IF q \in DOMAIN card.frozen THEN card.frozen[q] ELSE rows[q]]
    <2>1. /\ phase = "judged" /\ card \in Repaired
          /\ image' = Compile(card, NoWindows)
          /\ card' = [card EXCEPT !.frozen = rest]
          /\ built' = NoWindows /\ phase' = "repaired"
      BY <1>3 DEF Repair
    <2>2. Compilable(card) /\ Settled(card)
      BY <2>1, CardsAssumption DEF CompiledInv
    <2>3. DOMAIN card.frozen \subseteq DOMAIN rest /\ \A q \in DOMAIN card.frozen : rest[q] = card.frozen[q]
      OBVIOUS
    <2>. HIDE DEF rest
    <2>4. ImageMatches(card', NoWindows, image')
      BY <2>1, <2>2, <2>3, FrozenImageIsMatched
    <2>. QED
      BY <2>1, <2>4 DEF RepairedInv
  <1>4. CASE UNCHANGED vars
    BY <1>4 DEF vars, RepairedInv
  <1>. QED
    BY <1>1, <1>2, <1>3, <1>4 DEF Next

LEMMA InvSuffices == CompiledInv /\ RepairedInv => OwnImagesPass
  BY ImageIsMatched, CardsAssumption DEF CompiledInv, RepairedInv, OwnImagesPass

\* Compiler and notary agree on every image that is published: after any number
\* of passes over the kernel, of any card, whatever the kernel answered, and after
\* a repair of any card whose crews are settled.
THEOREM ImagesAgree ==
  ASSUME \A c \in Repaired : Settled(c)
  PROVE  Spec => []OwnImagesPass
  <1>1. CompiledInv /\ RepairedInv /\ [Next]_vars => RepairedInv'
    BY RepairedInvStays
  <1>. QED
    BY <1>1, CompiledInvStarts, CompiledInvStays, InvSuffices, PTL DEF Spec

\* The windows of one card as those of another: a check that they pass says that
\* they are windows of cross edges there too.
LEMMA StalePasses ==
  ASSUME CompiledInv, phase = "compiling", NEW c \in Cards, NEW ws \in {windows, built, NoWindows},
         ImageMatches(c, ws, image)
  PROVE  Passes(c, ws, card, built)
  <1>1. card \in Cards /\ image = Compile(card, built) /\ Compilable(card) /\ Compilable(c)
    BY CardsAssumption DEF CompiledInv
  <1>2. \A o \in DOMAIN ws : ws[o] \in Int
    BY DEF CompiledInv, Lifting, NoWindows
  <1>3. DOMAIN ws \subseteq {e[2] : e \in CrossEdges(c)}
    BY DEF ImageMatches, ChainsMatch
  <1>. QED
    BY <1>1, <1>2, <1>3 DEF Passes, Lifting

\* The check is not only passed by the right image but by nothing else: at any
\* pass over any card, an image that passes as that of another card, or with other
\* windows, asks the kernel what the image of those would ask.
THEOREM StaleImagesAreRefused == Spec => []StaleImagesFail
  <1>1. CompiledInv => StaleImagesFail
    <2>. SUFFICES ASSUME CompiledInv, phase = "compiling",
                         NEW c \in Cards, NEW ws \in {windows, built, NoWindows},
                         ImageMatches(c, ws, image)
                  PROVE  Asked(image) = Asked(Compile(c, ws))
      BY DEF StaleImagesFail
    <2>1. Passes(c, ws, card, built) /\ image = Compile(card, built)
      BY StalePasses DEF CompiledInv
    <2>. QED
      BY <2>1, PassingImagesAreAsked
  <1>2. Init => CompiledInv
    BY CompiledInvStarts
  <1>. QED
    BY <1>1, <1>2, CompiledInvStays, PTL DEF Spec

-----------------------------------------------------------------------------
(***************************************************************************)
(* What is published of a plan of the kernel, read by the notary.          *)
(***************************************************************************)
\* A plan of all operations that the kernel may give for the image i.
KernelPlan(c, i, plan) ==
  /\ DOMAIN plan = c.ops
  /\ \A o \in c.ops : plan[o] \in KernelSlots(i, o)
  /\ KernelHolds(i, plan)

\* The plan of no operations counts where there are none.
LEMMA AnswersArePlans ==
  ASSUME NEW c, NEW ws, NEW i, i = Compile(c, ws), NEW plan \in Answers(i), DOMAIN plan = c.ops
  PROVE  KernelPlan(c, i, plan)
  <1>1. DOMAIN i.ops = c.ops
    BY ImageOfOperations
  <1>2. CASE plan \in KernelPlans(i, NoRows)
    BY <1>1, <1>2 DEF KernelPlans, KernelPlan
  <1>3. CASE plan = NoRows
    <2>1. DOMAIN plan = {}
      BY <1>3 DEF NoRows
    <2>2. KernelHolds(i, plan)
      BY <2>1 DEF KernelHolds, Excess, AtPost
    <2>. QED
      BY <2>1, <2>2 DEF KernelPlan
  <1>. QED
    BY <1>2, <1>3 DEF Answers

\* What a slot of the kernel is to the card.
SlotOf(c, i, o, r) ==
  /\ r = Row(r.post, r.crew, r.tools, r.start, r.end, 0)
  /\ r.lane = NoLane /\ r.setup = 0 /\ r.post \in c.posts[o]
  /\ r.crew = BoundCrew(c, o) /\ r.tools = c.tools[o]
  /\ r.start \in Int /\ r.end \in Int /\ r.end = r.start + c.dur[o]
  /\ r.end <= c.horizon /\ r.end <= c.latest[o]
  /\ r.start >= c.floor[o] /\ \A s \in c.needs[o] : r.start >= c.stock[s].from
  /\ InKernelCal(i.posts[r.post].cal, r)
  /\ \A a : <<o, a>> \in i.needs => InKernelCal(i.aux[a].cal, r)

\* The image asks for the tools and for the crew that is bound to an operation.
LEMMA AskedAre ==
  ASSUME NEW c, Compilable(c), NEW ws, NEW i, i = Compile(c, ws), NEW o \in c.ops
  PROVE  /\ {r[2] : r \in AskedOf(i, o, "tool")} = c.tools[o]
         /\ {r[2] : r \in AskedOf(i, o, "crew")} =
              IF BoundCrew(c, o) = NoCrew THEN {} ELSE {BoundCrew(c, o)}
  <1>1. \A n \in i.needs : n = <<n[1], n[2]>>
    BY NeedsAre
  <1>2. \A r : <<o, r>> \in i.needs <=>
          r \in Personnel(c, o) \/ r \in {ToolCal(x) : x \in c.tools[o]}
    BY NeedsAre
  <1>3. \A kind : AskedOf(i, o, kind) =
          {r \in Personnel(c, o) \cup {ToolCal(x) : x \in c.tools[o]} : r[1] = kind}
    <2>1. SUFFICES ASSUME NEW kind, NEW r
                   PROVE  r \in AskedOf(i, o, kind) <=>
                            /\ r \in Personnel(c, o) \/ r \in {ToolCal(x) : x \in c.tools[o]}
                            /\ r[1] = kind
      OBVIOUS
    <2>2. r \in AskedOf(i, o, kind) <=> <<o, r>> \in i.needs /\ r[1] = kind
      BY <1>1 DEF AskedOf
    <2>. QED
      BY <1>2, <2>2
  <1>4. \A r \in Personnel(c, o) : r[1] # "tool"
    BY KindsDiffer DEF Personnel
  <1>5. AskedOf(i, o, "tool") = {ToolCal(x) : x \in c.tools[o]}
    BY <1>3, <1>4, KindsDiffer
  <1>6. AskedOf(i, o, "crew") = IF BoundCrew(c, o) = NoCrew THEN {} ELSE {CrewCal(BoundCrew(c, o))}
    <2>1. AskedOf(i, o, "crew") = {r \in Personnel(c, o) : r[1] = "crew"}
      BY <1>3, KindsDiffer
    <2>. QED
      BY <2>1, KindsDiffer DEF Personnel
  <1>. QED
    BY <1>5, <1>6, KindsDiffer

LEMMA SlotsAre ==
  ASSUME NEW c, Compilable(c), NEW ws, Lifting(c, ws), NEW i, i = Compile(c, ws),
         NEW o \in c.ops, NEW r \in KernelSlots(i, o)
  PROVE  SlotOf(c, i, o, r)
  <1>1. /\ i.ops[o].dur = c.dur[o] /\ i.ops[o].latest = c.latest[o] /\ i.horizon = c.horizon
        /\ i.ops[o].posts = c.posts[o]
    BY ImageOfOperations, ImageOfPosts
  <1>2. c.dur[o] \in Nat /\ c.latest[o] \in Nat /\ c.horizon \in Nat /\ c.floor[o] \in Int
    BY DEF Compilable, CardOk
  <1>3. PICK x \in c.posts[o], s \in i.ops[o].earliest..c.horizon : r = KernelSlot(i, o, x, s)
    BY <1>1 DEF KernelSlots
  <1>4. /\ r = Row(r.post, r.crew, r.tools, r.start, r.end, 0) /\ r.lane = NoLane /\ r.setup = 0 /\ r.post = x
        /\ r.start = s /\ r.end = s + c.dur[o] /\ r.tools = c.tools[o]
    BY <1>1, <1>3, AskedAre DEF KernelSlot, Row
  <1>5. r.crew = BoundCrew(c, o)
    <2>1. CASE BoundCrew(c, o) = NoCrew
      BY <1>3, <2>1, AskedAre DEF KernelSlot, Row
    <2>2. CASE BoundCrew(c, o) # NoCrew
      <3>1. BoundCrew(c, o) \in Nat
        BY <2>2 DEF Compilable
      <3>2. Min({BoundCrew(c, o)}) = BoundCrew(c, o)
        BY <3>1, LeastOfNaturals
      <3>. DEFINE crews == {a[2] : a \in AskedOf(i, o, "crew")}
      <3>3. r.crew = IF crews = {} THEN NoCrew ELSE Min(crews)
        BY <1>3 DEF KernelSlot, Row
      <3>4. crews = {BoundCrew(c, o)}
        BY <2>2, AskedAre
      <3>. HIDE DEF crews
      <3>. QED
        BY <3>2, <3>3, <3>4
    <2>. QED
      BY <2>1, <2>2
  <1>6. r.end <= c.horizon /\ r.end <= c.latest[o]
    <2>1. r.end <= Min({c.horizon, c.latest[o]})
      BY <1>1 DEF KernelSlots
    <2>2. /\ Min({c.horizon, c.latest[o]}) \in Nat
          /\ Min({c.horizon, c.latest[o]}) <= c.horizon /\ Min({c.horizon, c.latest[o]}) <= c.latest[o]
      <3>1. {c.horizon, c.latest[o]} \in SUBSET Nat
        BY <1>2
      <3>2. /\ Min({c.horizon, c.latest[o]}) \in {c.horizon, c.latest[o]}
            /\ Min({c.horizon, c.latest[o]}) <= c.horizon /\ Min({c.horizon, c.latest[o]}) <= c.latest[o]
        BY <3>1, LeastOfNaturals
      <3>. QED
        BY <1>2, <3>2
    <2>. QED
      BY <1>2, <1>3, <1>4, <2>1, <2>2
  <1>7. EarliestMatches(c, ws, i, o) /\ i.ops[o].earliest \in Int
    BY EarliestIsABound
  <1>8. r.start >= c.floor[o] /\ \A k \in c.needs[o] : r.start >= c.stock[k].from
    <2>1. \A k \in c.needs[o] : c.stock[k].from \in Int
      BY DEF Compilable
    <2>. QED
      BY <1>2, <1>3, <1>4, <1>7, <2>1 DEF EarliestMatches, NotEarlier
  <1>9. InKernelCal(i.posts[r.post].cal, r) /\ \A a : <<o, a>> \in i.needs => InKernelCal(i.aux[a].cal, r)
    BY DEF KernelSlots
  <1>. QED
    BY <1>2, <1>3, <1>4, <1>5, <1>6, <1>8, <1>9 DEF SlotOf

\* A card that the kernel is asked about, its image, the plan of the kernel and
\* what is published of it.
Solved(c, i, plan, out) ==
  /\ Compilable(c) /\ PlainCard(c) /\ CrewsApart(c)
  /\ ~Unsupported(c) /\ ~Unmatched(c)
  /\ \E ws : Lifting(c, ws) /\ i = Compile(c, ws)
  /\ KernelPlan(c, i, plan)
  /\ out = BindCrews(c, FillTools(c, plan))

LEMMA PlansAreSlots ==
  ASSUME NEW c, NEW i, NEW plan, NEW out, Solved(c, i, plan, out)
  PROVE  \A o \in c.ops : SlotOf(c, i, o, plan[o])
  BY SlotsAre DEF Solved, KernelPlan

\* The tools were there already.
LEMMA FillingChangesNothing ==
  ASSUME NEW c, NEW i, NEW plan, NEW out, Solved(c, i, plan, out)
  PROVE  /\ DOMAIN FillTools(c, plan) = c.ops
         /\ \A o \in c.ops : FillTools(c, plan)[o] = plan[o]
  <1>1. DOMAIN plan = c.ops
    BY DEF Solved, KernelPlan
  <1>2. ASSUME NEW o \in c.ops
        PROVE  FillTools(c, plan)[o] = plan[o]
    <2>1. plan[o] = Row(plan[o].post, plan[o].crew, plan[o].tools, plan[o].start, plan[o].end, 0)
      BY PlansAreSlots DEF SlotOf
    <2>2. [plan[o] EXCEPT !.tools = plan[o].tools] = plan[o]
      BY <2>1 DEF Row
    <2>3. plan[o].tools = c.tools[o]
      BY PlansAreSlots DEF SlotOf
    <2>4. FillTools(c, plan)[o] = [plan[o] EXCEPT !.tools = IF plan[o].tools = {} THEN c.tools[o] ELSE plan[o].tools]
      BY <1>1 DEF FillTools
    <2>. QED
      BY <2>2, <2>3, <2>4
  <1>. QED
    BY <1>1, <1>2 DEF FillTools

\* The rows are those of the plan but for the crews of operations from a pool.
RowsOf(c, i, plan, out) ==
  /\ DOMAIN out = c.ops
  /\ \A o \in c.ops :
       /\ SlotOf(c, i, o, plan[o])
       /\ out[o].post = plan[o].post /\ out[o].start = plan[o].start
       /\ out[o].end = plan[o].end /\ out[o].setup = 0
       /\ out[o].tools = c.tools[o] /\ out[o].lane = NoLane
       /\ out[o].start \in Int /\ out[o].end \in Int /\ out[o].start < out[o].end
       /\ o \notin Pooled(c) => out[o].crew = BoundCrew(c, o)
       /\ o \in Pooled(c) => out[o].crew \in Matching(c, o) \cup {NoCrew}

LEMMA RowsAreBound ==
  ASSUME NEW c, NEW i, NEW plan, NEW out, Solved(c, i, plan, out)
  PROVE  BoundRows(c, FillTools(c, plan), out) /\ RowsOf(c, i, plan, out)
  <1>. DEFINE f == FillTools(c, plan)
  <1>1. DOMAIN f = c.ops /\ \A o \in c.ops : f[o] = plan[o] /\ SlotOf(c, i, o, plan[o])
    BY FillingChangesNothing, PlansAreSlots
  <1>2. IsFiniteSet(c.ops) /\ c.ops \subseteq Int /\ DOMAIN c.crewCap \subseteq Nat
    BY DEF Solved, PlainCard, Compilable, CardOk
  <1>3. out = BindCrews(c, f)
    BY DEF Solved
  <1>4. \A o \in c.ops : c.dur[o] \in Nat /\ c.dur[o] > 0
    BY DEF Solved, PlainCard, Compilable, CardOk
  <1>. HIDE DEF f
  <1>5. \A o \in c.ops : f[o].start \in Int
    BY <1>1 DEF SlotOf
  <1>6. DOMAIN out = c.ops /\ \A o \in c.ops : BoundInTurn(c, f, out, DOMAIN f, o)
    BY <1>1, <1>2, <1>3, <1>5, CrewsAreBoundInTurn
  <1>7. ASSUME NEW o \in c.ops
        PROVE  /\ out[o].post = plan[o].post /\ out[o].start = plan[o].start
               /\ out[o].end = plan[o].end /\ out[o].setup = 0
               /\ out[o].tools = c.tools[o] /\ out[o].lane = NoLane
               /\ o \notin Pooled(c) => out[o].crew = BoundCrew(c, o)
               /\ o \in Pooled(c) => out[o].crew \in Matching(c, o) \cup {NoCrew}
    <2>1. /\ plan[o] = Row(plan[o].post, plan[o].crew, plan[o].tools, plan[o].start, plan[o].end, 0)
          /\ plan[o].setup = 0 /\ plan[o].tools = c.tools[o] /\ plan[o].lane = NoLane
          /\ plan[o].crew = BoundCrew(c, o)
      BY <1>1 DEF SlotOf
    <2>2. \/ out[o] = plan[o] /\ (o \in Pooled(c) => plan[o].crew = NoCrew)
          \/ o \in Pooled(c) /\ \E w \in Matching(c, o) : out[o] = [plan[o] EXCEPT !.crew = w]
      <3>1. \A seen : FreeCrews(c, seen, o) \subseteq Matching(c, o)
        BY DEF FreeCrews, Matching
      <3>2. BoundInTurn(c, f, out, DOMAIN f, o) /\ f[o] = plan[o]
        BY <1>1, <1>6
      <3>3. o \in Pooled(c) <=> plan[o].crew = NoCrew /\ NeedsCrew(c, o)
        BY <2>1 DEF Pooled
      <3>. QED
        BY <3>1, <3>2, <3>3 DEF BoundInTurn
    <2>3. CASE out[o] = plan[o] /\ (o \in Pooled(c) => plan[o].crew = NoCrew)
      BY <2>1, <2>3
    <2>4. CASE o \in Pooled(c) /\ \E w \in Matching(c, o) : out[o] = [plan[o] EXCEPT !.crew = w]
      <3>1. PICK w \in Matching(c, o) : out[o] = [plan[o] EXCEPT !.crew = w]
        BY <2>4
      <3>2. out[o] = Row(plan[o].post, w, plan[o].tools, plan[o].start, plan[o].end, 0)
        BY <2>1, <3>1 DEF Row
      <3>3. /\ out[o].post = plan[o].post /\ out[o].start = plan[o].start /\ out[o].crew = w
            /\ out[o].end = plan[o].end /\ out[o].setup = 0
            /\ out[o].tools = plan[o].tools /\ out[o].lane = NoLane
        BY <3>2 DEF Row
      <3>. QED
        BY <2>1, <2>4, <3>3
    <2>. QED
      BY <2>2, <2>3, <2>4
  <1>8. \A o \in c.ops : /\ plan[o].start \in Int /\ plan[o].end \in Int /\ plan[o].start < plan[o].end
                         /\ plan[o].setup = 0 /\ "crew" \in DOMAIN plan[o]
    <2>1. SUFFICES ASSUME NEW o \in c.ops
                   PROVE  /\ plan[o].start \in Int /\ plan[o].end \in Int /\ plan[o].start < plan[o].end
                          /\ plan[o].setup = 0 /\ "crew" \in DOMAIN plan[o]
      OBVIOUS
    <2>2. plan[o] = Row(plan[o].post, plan[o].crew, plan[o].tools, plan[o].start, plan[o].end, 0)
      BY <1>1 DEF SlotOf
    <2>3. "crew" \in DOMAIN plan[o]
      BY <2>2 DEF Row
    <2>. QED
      BY <1>1, <1>4, <2>3 DEF SlotOf
  <1>9. RowsOf(c, i, plan, out)
    BY <1>1, <1>6, <1>7, <1>8 DEF RowsOf
  <1>10. BoundRows(c, f, out)
    BY <1>1, <1>2, <1>6, <1>7, <1>8 DEF BoundRows
  <1>. QED
    BY <1>9, <1>10 DEF f

\* Excess reads nothing but times and setups.
LEMMA ExcessReadsTimes ==
  ASSUME NEW a, NEW b, NEW S, NEW cap,
         \A o \in S : /\ a[o].start = b[o].start /\ a[o].end = b[o].end /\ a[o].setup = b[o].setup
  PROVE  Excess(a, S, cap) <=> Excess(b, S, cap)
  <1>1. \A o \in S : OccStart(a[o]) = OccStart(b[o]) /\ \A t : Live(a[o], t) <=> Live(b[o], t)
    BY DEF OccStart, Live
  <1>2. \A t : LiveAt(a, S, t) = LiveAt(b, S, t)
    BY <1>1 DEF LiveAt
  <1>. QED
    BY <1>1, <1>2 DEF Excess

\* The operations that draw on a resource of the image are never too many.
LEMMA AskedOnceAtATime ==
  ASSUME NEW c, NEW i, NEW plan, NEW out, Solved(c, i, plan, out),
         NEW f, f = out \/ f = FillTools(c, plan)
  PROVE  /\ \A x \in DOMAIN c.cap : ~Excess(f, AtPost(out, x), c.cap[x])
         /\ \A a \in DOMAIN i.aux : ~Excess(f, {o \in c.ops : <<o, a>> \in i.needs}, i.aux[a].size)
  <1>1. RowsOf(c, i, plan, out) /\ KernelHolds(i, plan) /\ DOMAIN plan = c.ops
    BY RowsAreBound DEF Solved, KernelPlan
  <1>2. \A o \in c.ops : f[o].start = plan[o].start /\ f[o].end = plan[o].end /\ f[o].setup = plan[o].setup
    BY <1>1, FillingChangesNothing DEF RowsOf, SlotOf
  <1>3. \A S \in SUBSET c.ops : \A cap : Excess(f, S, cap) <=> Excess(plan, S, cap)
    BY <1>2, ExcessReadsTimes
  <1>4. \A x : AtPost(out, x) = AtPost(plan, x) /\ AtPost(plan, x) \in SUBSET c.ops
    BY <1>1 DEF AtPost, RowsOf
  <1>5. DOMAIN i.posts = DOMAIN c.cap /\ \A x \in DOMAIN c.cap : i.posts[x].size = c.cap[x]
    BY ImageOfPosts DEF Solved
  <1>. QED
    BY <1>1, <1>3, <1>4, <1>5 DEF KernelHolds

\* The crews and tools of the image.
LEMMA CrewsAndToolsAre ==
  ASSUME NEW c
  PROVE  /\ \A w \in DOMAIN c.crewCap :
              /\ CrewCal(w) \in DOMAIN AuxImage(c) /\ AuxImage(c)[CrewCal(w)].size = c.crewCap[w]
              /\ AuxImage(c)[CrewCal(w)].cal = KernelCal(c, CrewCal(w))
         /\ \A x \in DOMAIN c.toolCap :
              /\ ToolCal(x) \in DOMAIN AuxImage(c) /\ AuxImage(c)[ToolCal(x)].size = c.toolCap[x]
              /\ AuxImage(c)[ToolCal(x)].cal = KernelCal(c, ToolCal(x))
  <1>1. /\ \A w \in DOMAIN c.crewCap : CrewCal(w) \in DOMAIN AuxImage(c)
        /\ \A x \in DOMAIN c.toolCap : ToolCal(x) \in DOMAIN AuxImage(c)
    BY ResourcesAre DEF CrewsOf, ToolsOf
  <1>. DEFINE aux == AuxImage(c)
  <1>2. ASSUME NEW w \in DOMAIN c.crewCap
        PROVE  aux[CrewCal(w)].size = c.crewCap[w] /\ aux[CrewCal(w)].cal = KernelCal(c, CrewCal(w))
    <2>1. aux[CrewCal(w)] = [size |-> c.crewCap[w], cal |-> KernelCal(c, CrewCal(w))]
      BY AuxRecords
    <2>. HIDE DEF aux
    <2>. QED
      BY <2>1
  <1>3. ASSUME NEW x \in DOMAIN c.toolCap
        PROVE  aux[ToolCal(x)].size = c.toolCap[x] /\ aux[ToolCal(x)].cal = KernelCal(c, ToolCal(x))
    <2>1. aux[ToolCal(x)] = [size |-> c.toolCap[x], cal |-> KernelCal(c, ToolCal(x))]
      BY AuxRecords
    <2>. HIDE DEF aux
    <2>. QED
      BY <2>1
  <1>. QED
    BY <1>1, <1>2, <1>3

\* A pool of the image.
LEMMA PoolIs ==
  ASSUME NEW c, Compilable(c), PlainCard(c), ~Unsupported(c), ~Unmatched(c), NEW o \in Pooled(c)
  PROVE  LET a == AuxImage(c)[Pool(c.skills[o])]
         IN /\ Pool(c.skills[o]) \in DOMAIN AuxImage(c)
            /\ a.size = Cardinality(Matching(c, o))
            /\ \A w \in Matching(c, o) : CrewCal(w) \in DOMAIN c.cal /\ a.cal = KernelCal(c, CrewCal(w))
  <1>. DEFINE r == Pool(c.skills[o])
  <1>1. r \in PoolsOf(c) /\ r \in DOMAIN AuxImage(c)
    BY ResourcesAre DEF PoolsOf
  <1>2. PICK q \in Pooled(c) : r = Pool(c.skills[q]) /\ AuxImage(c)[r] = PoolImage(c, q)
    BY <1>1, AuxRecords
  <1>3. o \in c.ops /\ q \in c.ops /\ Matching(c, q) = Matching(c, o) /\ Matching(c, o) # {}
    BY <1>2, KindsDiffer DEF Compilable, Pooled, Unmatched
  <1>4. \A w \in Matching(c, o) : CrewCal(w) \in DOMAIN c.cal /\ ~Closed(c, CrewCal(w))
    BY DEF Matching, PlainCard, Unsupported
  <1>5. PoolCals(c, q) = PoolCals(c, o)
    BY <1>3 DEF PoolCals
  <1>6. PICK k : PoolCals(c, o) = {k}
    <2>1. IsFiniteSet(Matching(c, o))
      BY FS_Subset DEF PlainCard, Matching
    <2>2. IsFiniteSet(PoolCals(c, o))
      <3>. DEFINE M == Matching(c, o)
                  g == [w \in M |-> KernelCal(c, CrewCal(w))]
      <3>1. PoolCals(c, o) = {g[w] : w \in M}
        BY DEF PoolCals
      <3>. HIDE DEF M
      <3>2. g \in Surjection(M, PoolCals(c, o))
        BY <3>1 DEF Surjection
      <3>. HIDE DEF g
      <3>. QED
        BY <2>1, <3>2, FS_Surjection DEF M
    <2>3. PICK w \in Matching(c, o) : TRUE
      BY <1>3
    <2>. DEFINE k == KernelCal(c, CrewCal(w))
    <2>4. {k} \in SUBSET PoolCals(c, o)
      BY DEF PoolCals
    <2>5. ~(Cardinality(PoolCals(c, o)) > 1) /\ Cardinality({k}) = 1
      BY <1>3, FS_Singleton DEF Unsupported
    <2>6. Cardinality(PoolCals(c, o)) \in Nat
      BY <2>2, FS_CardinalityType
    <2>7. PoolCals(c, o) = {k}
      <3>1. Cardinality({k}) = Cardinality(PoolCals(c, o))
        BY <2>2, <2>4, <2>5, <2>6, FewerRows
      <3>. QED
        BY <2>2, <2>4, <3>1, FS_Subset
    <2>. QED
      BY <2>7
  <1>7. \A w \in Matching(c, o) : KernelCal(c, CrewCal(w)) = k
    BY <1>6 DEF PoolCals
  <1>8. PoolImage(c, q).size = Cardinality(Matching(c, o)) /\ PoolImage(c, q).cal = k
    BY <1>3, <1>4, <1>5, <1>6 DEF PoolImage
  <1>. QED
    BY <1>1, <1>2, <1>4, <1>7, <1>8

\* The crews that may come to serve an operation.
MayServe(c, o) ==
  IF BoundCrew(c, o) # NoCrew THEN {BoundCrew(c, o)}
  ELSE IF NeedsCrew(c, o) THEN Matching(c, o) ELSE {}

LEMMA ServedApart ==
  ASSUME NEW c, CrewsApart(c), NEW o \in c.ops, NEW q \in c.ops,
         MayServe(c, o) \cap MayServe(c, q) # {}
  PROVE  Personnel(c, o) = Personnel(c, q)
  BY DEF CrewsApart, MayServe

\* A crew in the rows is one that may serve the operation.
LEMMA CrewsMayServe ==
  ASSUME NEW c, NEW i, NEW plan, NEW out, RowsOf(c, i, plan, out), NEW o \in c.ops, out[o].crew # NoCrew
  PROVE  out[o].crew \in MayServe(c, o)
  BY DEF RowsOf, MayServe, Pooled

\* The pools of the image are as large as they must be.
LEMMA PoolRowsGetCrews ==
  ASSUME NEW c, NEW i, NEW plan, NEW out, Solved(c, i, plan, out), NEW o \in Pooled(c)
  PROVE  out[o].crew \in Matching(c, o)
  <1>. DEFINE f == FillTools(c, plan)
              r == Pool(c.skills[o])
              S == {q \in c.ops : <<q, r>> \in i.needs}
              fit == Matching(c, o)
  <1>1. /\ BoundRows(c, f, out) /\ RowsOf(c, i, plan, out)
        /\ DOMAIN f = c.ops /\ \A q \in c.ops : f[q] = plan[q]
    BY RowsAreBound, FillingChangesNothing
  <1>2. /\ o \in c.ops /\ BoundCrew(c, o) = NoCrew /\ NeedsCrew(c, o)
        /\ Compilable(c) /\ PlainCard(c) /\ CrewsApart(c) /\ ~Unsupported(c) /\ ~Unmatched(c)
        /\ i.aux = AuxImage(c)
        /\ \A q \in c.ops : \A a : <<q, a>> \in i.needs <=>
             a \in Personnel(c, q) \/ a \in {ToolCal(x) : x \in c.tools[q]}
    BY ImageOfResources, NeedsAre DEF Solved, Pooled
  <1>3. r \in DOMAIN i.aux /\ i.aux[r].size = Cardinality(fit)
    BY <1>2, PoolIs
  <1>4. ~Excess(f, S, Cardinality(fit))
    BY <1>3, AskedOnceAtATime
  <1>5. Personnel(c, o) = {r} /\ o \in S
    BY <1>2 DEF Personnel
  <1>6. ASSUME NEW q \in c.ops, out[q].crew \in fit
        PROVE  q \in S
    <2>1. out[q].crew # NoCrew
      BY <1>2, <1>6 DEF Matching, Compilable
    <2>2. out[q].crew \in MayServe(c, q) /\ out[q].crew \in MayServe(c, o)
      BY <1>1, <1>2, <1>6, <2>1, CrewsMayServe DEF MayServe
    <2>3. Personnel(c, q) = Personnel(c, o)
      BY <1>2, <2>2, ServedApart
    <2>. QED
      BY <1>2, <1>5, <2>3
  <1>7. /\ fit = {w \in DOMAIN c.crewCap : Skilled(c, o, w)} /\ IsFiniteSet(fit)
        /\ \A w \in fit : c.crewCap[w] \in Nat \ {0}
        /\ DOMAIN c.crewCap \subseteq Nat \ {NoCrew}
    <2>1. IsFiniteSet(DOMAIN c.crewCap) /\ fit \in SUBSET DOMAIN c.crewCap
      BY <1>2 DEF PlainCard, Matching
    <2>2. IsFiniteSet(fit)
      BY <2>1, FS_Subset
    <2>. QED
      BY <1>2, <2>1, <2>2 DEF PlainCard, Matching, Compilable
  <1>8. f[o].crew = NoCrew /\ f[o] = plan[o]
    BY <1>1, <1>2 DEF RowsOf, SlotOf
  <1>9. S \in SUBSET DOMAIN f /\ o \in DOMAIN f /\ \A q \in DOMAIN f : out[q].crew \in fit => q \in S
    <2>. HIDE DEF f, fit
    <2>. QED
      BY <1>1, <1>2, <1>6
  <1>. HIDE DEF f, S, fit
  <1>10. FreeCrews(c, SeenBy(f, out, DOMAIN f, o), o) # {}
    BY <1>1, <1>4, <1>5, <1>7, <1>8, <1>9, SomeCrewIsFree
  <1>11. BoundInTurn(c, f, out, DOMAIN f, o)
    BY <1>1, <1>2 DEF BoundRows
  <1>12. PICK w \in FreeCrews(c, SeenBy(f, out, DOMAIN f, o), o) : out[o] = [f[o] EXCEPT !.crew = w]
    BY <1>2, <1>8, <1>10, <1>11 DEF BoundInTurn
  <1>13. w \in Matching(c, o)
    BY DEF FreeCrews, Matching
  <1>14. out[o].crew = w
    <2>1. "crew" \in DOMAIN f[o]
      BY <1>9, <1>1 DEF BoundRows
    <2>. QED
      BY <1>12, <2>1
  <1>. QED
    BY <1>13, <1>14

\* Nor are the crews overbooked, whether the kernel has booked them or not.
LEMMA CrewRowsAreNotOver ==
  ASSUME NEW c, NEW i, NEW plan, NEW out, Solved(c, i, plan, out), NEW w \in DOMAIN c.crewCap
  PROVE  ~Excess(out, OfCrew(out, w), c.crewCap[w])
  <1>. DEFINE f == FillTools(c, plan)
  <1>1. /\ BoundRows(c, f, out) /\ RowsOf(c, i, plan, out)
        /\ DOMAIN f = c.ops /\ \A q \in c.ops : f[q] = plan[q]
    BY RowsAreBound, FillingChangesNothing
  <1>2. /\ Compilable(c) /\ CrewsApart(c) /\ i.aux = AuxImage(c)
        /\ \A q \in c.ops : \A a : <<q, a>> \in i.needs <=>
             a \in Personnel(c, q) \/ a \in {ToolCal(x) : x \in c.tools[q]}
    BY ImageOfResources, NeedsAre DEF Solved
  <1>3. w # NoCrew /\ c.crewCap[w] \in Nat
    BY DEF Solved, PlainCard, Compilable
  <1>. HIDE DEF f
  <1>4. CASE \E o \in c.ops : BoundCrew(c, o) = w
    <2>1. PICK o \in c.ops : BoundCrew(c, o) = w
      BY <1>4
    <2>2. Personnel(c, o) = {CrewCal(w)} /\ w \in MayServe(c, o)
      BY <1>3, <2>1 DEF Personnel, MayServe
    <2>3. ASSUME NEW q \in c.ops
          PROVE  out[q].crew = w <=> <<q, CrewCal(w)>> \in i.needs
      <3>1. ASSUME out[q].crew = w
            PROVE  <<q, CrewCal(w)>> \in i.needs
        <4>1. w \in MayServe(c, q)
          BY <1>1, <1>3, <3>1, CrewsMayServe
        <4>2. Personnel(c, q) = Personnel(c, o)
          BY <1>2, <2>2, <4>1, ServedApart
        <4>. QED
          BY <1>2, <2>2, <4>2
      <3>2. ASSUME <<q, CrewCal(w)>> \in i.needs
            PROVE  out[q].crew = w
        <4>1. CrewCal(w) \in Personnel(c, q)
          BY <1>2, <3>2, KindsDiffer
        <4>2. BoundCrew(c, q) = w
          BY <4>1, KindsDiffer DEF Personnel
        <4>3. q \notin Pooled(c)
          BY <1>3, <4>2 DEF Pooled
        <4>. QED
          BY <1>1, <4>2, <4>3 DEF RowsOf
      <3>. QED
        BY <3>1, <3>2
    <2>4. OfCrew(out, w) = {q \in c.ops : <<q, CrewCal(w)>> \in i.needs}
      BY <1>1, <2>3 DEF OfCrew, RowsOf
    <2>5. CrewCal(w) \in DOMAIN i.aux /\ i.aux[CrewCal(w)].size = c.crewCap[w]
      BY <1>2, CrewsAndToolsAre
    <2>. QED
      BY <2>4, <2>5, AskedOnceAtATime
  <1>5. CASE ~\E o \in c.ops : BoundCrew(c, o) = w
    <2>1. \A o \in OfCrew(out, w) : f[o].crew = NoCrew
      <3>1. SUFFICES ASSUME NEW o \in c.ops, out[o].crew = w PROVE f[o].crew = NoCrew
        BY <1>1 DEF OfCrew, RowsOf
      <3>2. o \in Pooled(c)
        BY <1>1, <1>5, <3>1 DEF RowsOf
      <3>. QED
        BY <1>1, <3>2 DEF Pooled, RowsOf, SlotOf
    <2>. QED
      BY <1>1, <1>3, <2>1, BoundCrewsAreNotOver
  <1>. QED
    BY <1>4, <1>5

\* Post, crew and tools of a row are there all the time, as far as the notary asks.
LEMMA RowsAreInWindows ==
  ASSUME NEW c, NEW i, NEW plan, NEW out, Solved(c, i, plan, out), NEW o \in c.ops,
         NEW r \in CalendarsOf(out[o].post, out[o].crew, out[o].tools \cup c.tools[o]),
         r \notin c.unattended
  PROVE  \E w \in c.cal[r] : /\ w[1] \in Int /\ w[2] \in Int
                             /\ w[1] <= out[o].start /\ out[o].end <= w[2]
  <1>. DEFINE inside == \E w \in c.cal[r] : w[1] <= out[o].start /\ out[o].end <= w[2]
  <1>1. /\ RowsOf(c, i, plan, out) /\ SlotOf(c, i, o, plan[o])
        /\ Compilable(c) /\ PlainCard(c) /\ ~Unsupported(c) /\ ~Unmatched(c)
    BY RowsAreBound DEF Solved, RowsOf
  <1>2. /\ i.aux = AuxImage(c)
        /\ \A a : <<o, a>> \in i.needs <=> a \in Personnel(c, o) \/ a \in {ToolCal(x) : x \in c.tools[o]}
    BY ImageOfResources, NeedsAre DEF Solved
  <1>3. /\ c.horizon \in Int /\ out[o].start \in Int /\ out[o].end \in Int
        /\ 0 <= out[o].start /\ out[o].end <= c.horizon
    <2>1. c.floor[o] \in 0..c.horizon /\ c.horizon \in Int
      BY <1>1 DEF Compilable, CardOk
    <2>. QED
      BY <1>1, <2>1 DEF RowsOf, SlotOf
  <1>4. ASSUME r \in DOMAIN c.cal, c.cal[r] \subseteq Int \X Int,
               r \notin c.published => \E w \in c.cal[r] : w[1] <= 0 /\ c.horizon <= w[2],
               r \in c.published => InKernelCal(c.cal[r], plan[o])
        PROVE  inside
    <2>1. CASE r \in c.published
      <3>1. c.cal[r] # {}
        BY <1>1, <1>4, <2>1 DEF Unsupported, Closed, Attended
      <3>. QED
        BY <1>1, <1>4, <2>1, <3>1 DEF InKernelCal, RowsOf
    <2>2. CASE r \notin c.published
      BY <1>3, <1>4, <2>2
    <2>. QED
      BY <2>1, <2>2
  <1>5. /\ r \in DOMAIN c.cal /\ c.cal[r] \subseteq Int \X Int
        /\ r \notin c.published => \E w \in c.cal[r] : w[1] <= 0 /\ c.horizon <= w[2]
        /\ r \in c.published => InKernelCal(c.cal[r], plan[o])
    <2>1. CASE r = PostCal(out[o].post)
      <3>1. out[o].post = plan[o].post /\ plan[o].post \in DOMAIN c.cap
        BY <1>1 DEF RowsOf, SlotOf, Compilable
      <3>2. r \in c.published => i.posts[plan[o].post].cal = c.cal[r]
        BY <2>1, <3>1, ImageOfPosts DEF Solved
      <3>. QED
        BY <1>1, <2>1, <3>1, <3>2 DEF PlainCard, SlotOf
    <2>2. CASE out[o].crew # NoCrew /\ r = CrewCal(out[o].crew)
      <3>1. CASE o \in Pooled(c)
        <4>1. out[o].crew \in Matching(c, o)
          BY <3>1, PoolRowsGetCrews
        <4>2. /\ Pool(c.skills[o]) \in DOMAIN i.aux
              /\ i.aux[Pool(c.skills[o])].cal = KernelCal(c, r)
          BY <1>1, <1>2, <2>2, <3>1, <4>1, PoolIs
        <4>3. <<o, Pool(c.skills[o])>> \in i.needs
          BY <1>2, <3>1 DEF Personnel, Pooled
        <4>4. r \in c.published => InKernelCal(c.cal[r], plan[o])
          BY <1>1, <4>2, <4>3 DEF SlotOf, KernelCal, Attended
        <4>. QED
          BY <1>1, <2>2, <4>1, <4>4 DEF PlainCard, Matching
      <3>2. CASE o \notin Pooled(c)
        <4>1. out[o].crew = BoundCrew(c, o) /\ BoundCrew(c, o) \in DOMAIN c.crewCap
          BY <1>1, <2>2, <3>2 DEF RowsOf, Compilable
        <4>2. <<o, r>> \in i.needs /\ i.aux[r].cal = KernelCal(c, r)
          BY <1>2, <2>2, <4>1, CrewsAndToolsAre DEF Personnel
        <4>3. r \in c.published => InKernelCal(c.cal[r], plan[o])
          BY <1>1, <4>2 DEF SlotOf, KernelCal, Attended
        <4>. QED
          BY <1>1, <2>2, <4>1, <4>3 DEF PlainCard
      <3>. QED
        BY <3>1, <3>2
    <2>3. CASE r \in {ToolCal(x) : x \in out[o].tools \cup c.tools[o]}
      <3>1. PICK x \in c.tools[o] : r = ToolCal(x)
        BY <1>1, <2>3 DEF RowsOf
      <3>2. x \in DOMAIN c.toolCap
        BY <1>1 DEF Compilable
      <3>3. <<o, r>> \in i.needs /\ i.aux[r].cal = KernelCal(c, r)
        BY <1>2, <3>1, <3>2, CrewsAndToolsAre
      <3>4. r \in c.published => InKernelCal(c.cal[r], plan[o])
        BY <1>1, <3>3 DEF SlotOf, KernelCal, Attended
      <3>. QED
        BY <1>1, <3>1, <3>2, <3>4 DEF PlainCard
    <2>. QED
      BY <2>1, <2>2, <2>3 DEF CalendarsOf
  <1>6. inside
    <2>. HIDE DEF inside
    <2>. QED
      BY <1>4, <1>5
  <1>. QED
    BY <1>5, <1>6

-----------------------------------------------------------------------------
(***************************************************************************)
(* The notary, check by check.                                             *)
(***************************************************************************)
\* A visit that is attended throughout is open for all its minutes.
LEMMA AttendedThroughout ==
  ASSUME NEW p, NEW cals, NEW a \in Int, NEW b \in Int, a < b,
         \A r \in cals : \E w \in p.cal[r] : w[1] \in Int /\ w[2] \in Int /\ w[1] <= a /\ b <= w[2]
  PROVE  /\ OpenMinutes(p, cals, a, b) = b - a
         /\ \A r \in cals : p.cal[r] # {} /\ InMergedWindows(p, r, a, b)
  <1>1. \A r \in cals : \A t \in a..(b - 1) : Open(p, r, t)
    BY DEF Open
  <1>2. {t \in a..(b - 1) : \A r \in cals : Open(p, r, t)} = a..(b - 1)
    BY <1>1
  <1>3. Cardinality(a..(b - 1)) = b - a
    <2>1. Cardinality(a..(b - 1)) = IF a > b - 1 THEN 0 ELSE (b - 1) - a + 1
      BY FS_Interval
    <2>. QED
      BY <2>1
  <1>. QED
    BY <1>1, <1>2, <1>3 DEF OpenMinutes, InMergedWindows

LEMMA KernelRowsFindNothing ==
  ASSUME NEW c, NEW i, NEW plan, NEW out, Solved(c, i, plan, out)
  PROVE  /\ Durations(c, out) = {} /\ Coverage(c, out) = {}
         /\ Eligibility(c, out) = {} /\ Windows(c, out) = {}
  <1>1. /\ RowsOf(c, i, plan, out) /\ DOMAIN out = c.ops
        /\ \A o \in c.ops : SlotOf(c, i, o, plan[o])
    BY RowsAreBound DEF RowsOf
  <1>2. \A o \in c.ops : /\ OccStart(out[o]) = out[o].start
                         /\ out[o].start \in Int /\ out[o].end \in Int /\ out[o].start < out[o].end
                         /\ out[o].end - out[o].start = c.dur[o]
    <2>1. \A o \in c.ops : c.dur[o] \in Nat
      BY DEF Solved, Compilable, CardOk
    <2>. QED
      BY <1>1, <2>1 DEF RowsOf, SlotOf, OccStart
  <1>. DEFINE cals(o) == CalendarsOf(out[o].post, out[o].crew, out[o].tools \cup c.tools[o])
  <1>3. ASSUME NEW o \in c.ops
        PROVE  /\ OpenMinutes(c, Staffed(c, cals(o)), out[o].start, out[o].end) = c.dur[o]
               /\ \A r \in cals(o) : CalendarFits(c, o, out[o], r)
    <2>1. \A r \in Staffed(c, cals(o)) :
            \E w \in c.cal[r] : /\ w[1] \in Int /\ w[2] \in Int
                                /\ w[1] <= out[o].start /\ out[o].end <= w[2]
      BY RowsAreInWindows DEF Staffed
    <2>2. /\ OpenMinutes(c, Staffed(c, cals(o)), out[o].start, out[o].end) = out[o].end - out[o].start
          /\ \A r \in Staffed(c, cals(o)) : c.cal[r] # {} /\ InMergedWindows(c, r, out[o].start, out[o].end)
      <3>. DEFINE S == Staffed(c, cals(o))
                  a == out[o].start
                  b == out[o].end
      <3>1. a \in Int /\ b \in Int /\ a < b
        BY <1>2
      <3>2. \A r \in S : \E w \in c.cal[r] : w[1] \in Int /\ w[2] \in Int /\ w[1] <= a /\ b <= w[2]
        BY <2>1
      <3>. HIDE DEF S, a, b
      <3>3. OpenMinutes(c, S, a, b) = b - a /\ \A r \in S : c.cal[r] # {} /\ InMergedWindows(c, r, a, b)
        BY <3>1, <3>2, AttendedThroughout
      <3>. QED
        BY <3>3 DEF S, a, b
    <2>3. ASSUME NEW r \in Staffed(c, cals(o))
          PROVE  InMergedWindows(c, r, out[o].start, out[o].start)
      BY <1>2 DEF InMergedWindows
    <2>4. \A r \in cals(o) : r \in c.unattended \/ r \in Staffed(c, cals(o))
      BY DEF Staffed
    <2>. HIDE DEF cals
    <2>. QED
      BY <1>2, <2>2, <2>3, <2>4 DEF CalendarFits
  <1>4. ASSUME NEW o \in c.ops
        PROVE  DurationHolds(c, o, out[o])
    <2>1. c.policy[o] \in {"exact", "min", "preemptive"} /\ c.dur[o] \in Nat
      BY DEF Solved, PlainCard, Compilable, CardOk
    <2>2. DurationHolds(c, o, out[o]) <=>
            CASE c.policy[o] = "exact"      -> out[o].end - out[o].start = c.dur[o]
              [] c.policy[o] = "min"        -> out[o].end - out[o].start >= c.dur[o]
              [] c.policy[o] = "preemptive" ->
                   OpenMinutes(c, Staffed(c, cals(o)), out[o].start, out[o].end) = c.dur[o]
      BY DEF DurationHolds
    <2>3. /\ out[o].end - out[o].start = c.dur[o] /\ out[o].end - out[o].start >= c.dur[o]
          /\ OpenMinutes(c, Staffed(c, cals(o)), out[o].start, out[o].end) = c.dur[o]
      <3>. HIDE DEF cals
      <3>. QED
        BY <1>2, <1>3, <2>1
    <2>. HIDE DEF cals
    <2>4. CASE c.policy[o] = "exact"
      BY <2>2, <2>3, <2>4
    <2>5. CASE c.policy[o] = "min"
      BY <2>2, <2>3, <2>5
    <2>6. CASE c.policy[o] = "preemptive"
      BY <2>2, <2>3, <2>6
    <2>. QED
      BY <2>1, <2>4, <2>5, <2>6
  <1>5. Durations(c, out) = {}
    BY <1>1, <1>2, <1>4 DEF Durations, Codes
  <1>6. Coverage(c, out) = {}
    BY <1>1 DEF Coverage, Codes
  <1>7. ASSUME NEW o \in c.ops
        PROVE  /\ Eligible(c, o, out[o].post) /\ CrewFits(c, o, out[o])
               /\ c.tools[o] \subseteq out[o].tools
    <2>1. Eligible(c, o, out[o].post) /\ c.tools[o] \subseteq out[o].tools
      BY <1>1 DEF RowsOf, SlotOf, Eligible
    <2>2. ASSUME NeedsCrew(c, o)
          PROVE  out[o].crew # NoCrew /\ out[o].crew \in Matching(c, o)
      <3>1. CASE o \in Pooled(c)
        BY <3>1, PoolRowsGetCrews DEF Solved, Compilable, Matching
      <3>2. CASE o \notin Pooled(c)
        <4>1. out[o].crew = BoundCrew(c, o) /\ BoundCrew(c, o) # NoCrew
          BY <1>1, <2>2, <3>2 DEF RowsOf, Pooled
        <4>2. BoundCrew(c, o) \in DOMAIN c.crewCap
          BY <4>1 DEF Solved, Compilable
        <4>3. BoundCrew(c, o) \in Matching(c, o)
          <5>1. CASE \E w \in Matching(c, o) : Matching(c, o) = {w}
            BY <5>1 DEF BoundCrew
          <5>2. CASE ~\E w \in Matching(c, o) : Matching(c, o) = {w}
            <6>1. o \in DOMAIN c.frozen /\ BoundCrew(c, o) = c.frozen[o].crew
              BY <4>1, <5>2 DEF BoundCrew
            <6>2. FrozenTools(c)[o].crew = c.frozen[o].crew /\ DOMAIN FrozenTools(c) = DOMAIN c.frozen
              BY <6>1 DEF FrozenTools
            <6>3. Skilled(c, o, c.frozen[o].crew)
              BY <2>2, <4>1, <6>1, <6>2 DEF Solved, PlainCard, FrozenFragmentOk
            <6>. QED
              BY <4>2, <6>1, <6>3 DEF Matching
          <5>. QED
            BY <5>1, <5>2
        <4>. QED
          BY <4>1, <4>3
      <3>. QED
        BY <3>1, <3>2
    <2>3. CrewFits(c, o, out[o])
      <3>1. SUFFICES ASSUME NeedsCrew(c, o) PROVE out[o].crew # NoCrew
                       /\ Skilled(c, o, out[o].crew) /\ out[o].end <= c.permit[o][out[o].crew]
        BY DEF CrewFits
      <3>2. out[o].end <= c.horizon /\ c.horizon \in Int
        BY <1>1 DEF RowsOf, SlotOf, Solved, Compilable, CardOk
      <3>3. c.permit[o][out[o].crew] \in Int /\ c.permit[o][out[o].crew] >= c.horizon
        BY <2>2, <3>1 DEF Solved, PlainCard
      <3>. QED
        BY <1>2, <2>2, <3>1, <3>2, <3>3 DEF Matching
    <2>. QED
      BY <2>1, <2>3
  <1>8. Eligibility(c, out) = {}
    BY <1>1, <1>7 DEF Eligibility, Codes
  <1>9. ASSUME NEW o \in c.ops
        PROVE  /\ ~(OccStart(out[o]) < 0 \/ out[o].end > c.horizon)
               /\ ~(out[o].end > c.latest[o] \/ OccStart(out[o]) < c.floor[o])
    <2>1. /\ c.floor[o] \in Int /\ c.floor[o] >= 0 /\ c.latest[o] \in Int /\ c.horizon \in Int
      BY DEF Solved, Compilable, CardOk
    <2>. QED
      BY <1>1, <1>2, <2>1 DEF RowsOf, SlotOf
  <1>10. Windows(c, out) = {}
    BY <1>1, <1>3, <1>9 DEF Windows, Codes
  <1>. QED
    BY <1>5, <1>6, <1>8, <1>10

LEMMA KernelOverlapsNothing ==
  ASSUME NEW c, NEW i, NEW plan, NEW out, Solved(c, i, plan, out)
  PROVE  Overlaps(c, out) = {}
  <1>1. \A x \in DOMAIN c.cap : ~Excess(out, AtPost(out, x), c.cap[x])
    BY AskedOnceAtATime
  <1>2. \A w \in DOMAIN c.crewCap : ~Excess(out, OfCrew(out, w), c.crewCap[w])
    BY CrewRowsAreNotOver
  <1>3. ASSUME NEW x \in DOMAIN c.toolCap
        PROVE  ~Excess(out, OnTool(out, x), c.toolCap[x])
    <2>1. RowsOf(c, i, plan, out) /\ Compilable(c)
      BY RowsAreBound DEF Solved
    <2>2. i.aux = AuxImage(c)
      BY ImageOfResources DEF Solved
    <2>3. \A o \in c.ops : <<o, ToolCal(x)>> \in i.needs <=> x \in c.tools[o]
      <3>1. \A o \in c.ops : ToolCal(x) \notin Personnel(c, o)
        BY KindsDiffer DEF Personnel
      <3>2. \A o \in c.ops : <<o, ToolCal(x)>> \in i.needs <=>
              ToolCal(x) \in Personnel(c, o) \/ ToolCal(x) \in {ToolCal(y) : y \in c.tools[o]}
        BY NeedsAre DEF Solved
      <3>. QED
        BY <3>1, <3>2, KindsDiffer
    <2>4. OnTool(out, x) = {o \in c.ops : <<o, ToolCal(x)>> \in i.needs}
      BY <2>1, <2>3 DEF OnTool, RowsOf
    <2>5. ToolCal(x) \in DOMAIN i.aux /\ i.aux[ToolCal(x)].size = c.toolCap[x]
      BY <2>2, CrewsAndToolsAre
    <2>. QED
      BY <2>4, <2>5, AskedOnceAtATime
  <1>. QED
    BY <1>1, <1>2, <1>3 DEF Overlaps, Codes

\* The kernel keeps the chains one after another, and a serialized job is one chain.
LEMMA ChainsAreKept ==
  ASSUME NEW c, NEW i, NEW plan, NEW out, Solved(c, i, plan, out), NEW e \in Links(c)
  PROVE  out[e[1]].end <= out[e[2]].start
  <1>1. e[1] \in c.ops /\ e[2] \in c.ops
    BY LinksStayInJob
  <1>2. i.ops[e[2]].pred = {x[1] : x \in {y \in Links(c) : y[2] = e[2]}}
    BY <1>1, ImageOfOperations DEF Solved
  <1>3. plan[e[1]].end <= plan[e[2]].start
    BY <1>1, <1>2 DEF Solved, KernelPlan, KernelHolds
  <1>. QED
    BY <1>1, <1>3, RowsAreBound DEF RowsOf

LEMMA SerialJobsAreKept ==
  ASSUME NEW c, NEW i, NEW plan, NEW out, Solved(c, i, plan, out), c.strategy = "serialize",
         NEW q \in c.ops, NEW o \in c.ops, q < o, c.job[q] = c.job[o]
  PROVE  out[q].end <= out[o].start
  <1>. DEFINE late == {x \in c.ops : q < x /\ c.job[x] = c.job[q] /\ ~(out[q].end <= out[x].start)}
  <1>1. SUFFICES ASSUME late # {} PROVE FALSE
    OBVIOUS
  <1>2. c.ops \in SUBSET Nat
    BY DEF Solved, Compilable, CardOk
  <1>3. PICK x \in late : \A y \in late : x <= y
    <2>1. late \in SUBSET Nat
      BY <1>2
    <2>. HIDE DEF late
    <2>. QED
      BY <1>1, <2>1, LeastNat
  <1>. DEFINE before == {y \in c.ops : y < x /\ c.job[y] = c.job[q]}
  <1>4. before \in SUBSET Int /\ before # {} /\ x \in Int /\ \A y \in before : y <= x
    BY <1>2, <1>3
  <1>5. PICK z \in before : \A y \in before : y <= z
    <2>. HIDE DEF before
    <2>. QED
      BY <1>4, GreatestInt
  <1>6. <<z, x>> \in Links(c)
    <2>1. \A y \in c.ops : z < y /\ y < x => c.job[y] # c.job[z]
      BY <1>2, <1>5
    <2>. QED
      BY <1>2, <1>3, <1>5, <2>1 DEF Links, SerialLinks, SameJob
  <1>7. out[z].end <= out[x].start
    <2>1. out[<<z, x>>[1]].end <= out[<<z, x>>[2]].start
      BY <1>6, ChainsAreKept
    <2>. QED
      BY <2>1
  <1>8. CASE z = q
    BY <1>3, <1>7, <1>8
  <1>9. CASE z # q
    <2>1. q < z /\ z < x /\ z \in c.ops /\ c.job[z] = c.job[q]
      BY <1>2, <1>3, <1>5, <1>9
    <2>2. out[q].end <= out[z].start
      BY <1>2, <1>3, <2>1
    <2>3. /\ out[q].end \in Int /\ out[z].start \in Int /\ out[z].end \in Int /\ out[x].start \in Int
          /\ out[z].start < out[z].end
      BY <1>3, <2>1, RowsAreBound DEF RowsOf
    <2>. QED
      BY <1>3, <1>7, <2>2, <2>3
  <1>. QED
    BY <1>8, <1>9

\* An edge that is broken is one the kernel is not told of, or one with a lag.
LEMMA KernelKeepsWhatItIsTold ==
  ASSUME NEW c, NEW i, NEW plan, NEW out, Solved(c, i, plan, out), NEW o \in c.ops,
         NEW l \in c.links[o], ~LinkHolds(out, o, l)
  PROVE  <<l.pred, o>> \in CrossEdges(c) \/ l.min > 0 \/ l.max # NoMax
  <1>. SUFFICES ASSUME <<l.pred, o>> \notin CrossEdges(c), ~(l.min > 0), l.max = NoMax
                PROVE  LinkHolds(out, o, l)
    OBVIOUS
  <1>1. l.min \in Nat /\ l.min = 0
    BY DEF Solved, PlainCard
  <1>2. /\ l.pred \in c.ops /\ l.pred \in c.preds[o] /\ DOMAIN out = c.ops
        /\ \A q \in c.ops : out[q].start \in Int /\ out[q].end \in Int
    <2>1. l.pred \in c.preds[o] /\ c.preds[o] \subseteq c.ops
      BY DEF Solved, PlainCard, Preds
    <2>. QED
      BY <2>1, RowsAreBound DEF RowsOf
  <1>3. <<l.pred, o>> \in Edges(c)
    BY <1>2 DEF Edges
  <1>4. out[l.pred].end <= out[o].start
    <2>1. CASE c.strategy = "serialize"
      <3>1. c.job[l.pred] = c.job[o]
        BY <1>3, <2>1 DEF CrossEdges, SameJob
      <3>2. l.pred < o
        BY <1>2, <3>1 DEF Solved, Compilable, CardOk
      <3>. QED
        BY <1>2, <2>1, <3>1, <3>2, SerialJobsAreKept
    <2>2. CASE c.strategy # "serialize"
      <3>1. <<l.pred, o>> \in Links(c)
        BY <1>3, <2>2 DEF CrossEdges
      <3>2. out[<<l.pred, o>>[1]].end <= out[<<l.pred, o>>[2]].start
        BY <3>1, ChainsAreKept
      <3>. QED
        BY <3>2
    <2>. QED
      BY <2>1, <2>2
  <1>. QED
    BY <1>1, <1>2, <1>4 DEF LinkHolds

LEMMA KernelRunsOutOfNothing ==
  ASSUME NEW c, NEW i, NEW plan, NEW out, Solved(c, i, plan, out)
  PROVE  Spares(c, out) = {} /\ LedgerFindings(c, out) = {}
  <1>. DEFINE users(s) == {o \in c.ops : s \in c.needs[o]}
  <1>1. \A s \in DOMAIN c.stock : /\ c.stock[s].receipts = {} /\ ~c.stock[s].rotable
                                  /\ c.stock[s].qty \in Nat
                                  /\ Cardinality(users(s)) <= c.stock[s].qty
    BY DEF Solved, PlainCard
  <1>2. IsFiniteSet(c.ops) /\ DOMAIN out = c.ops
    <2>1. DOMAIN out = c.ops
      BY RowsAreBound DEF RowsOf
    <2>. QED
      BY <2>1 DEF Solved, PlainCard
  <1>3. ASSUME NEW s \in DOMAIN c.stock
        PROVE  /\ ~(Cardinality(Drawers(c, out, s)) > c.stock[s].qty)
               /\ \A o \in users(s) : ~(c.stock[s].qty <= 0)
    <2>1. Drawers(c, out, s) = users(s) /\ IsFiniteSet(users(s))
      BY <1>2, FS_Subset DEF Drawers
    <2>2. Cardinality(users(s)) \in Nat
      BY <2>1, FS_CardinalityType
    <2>3. ASSUME NEW o \in users(s)
          PROVE  Cardinality(users(s)) >= 1
      <3>1. {o} \in SUBSET users(s) /\ Cardinality({o}) = 1
        BY FS_Singleton
      <3>. HIDE DEF users
      <3>. QED
        BY <2>1, <3>1, FewerRows
    <2>. HIDE DEF users
    <2>. QED
      BY <1>1, <1>3, <2>1, <2>2, <2>3
  <1>4. ASSUME NEW o \in c.ops, NEW s \in c.needs[o], s \in DOMAIN c.stock
        PROVE  ~(c.stock[s].qty <= 0 \/ out[o].start < c.stock[s].from)
    <2>1. out[o].start >= c.stock[s].from /\ out[o].start \in Int
      BY RowsAreBound DEF RowsOf, SlotOf
    <2>2. c.stock[s].from \in Int
      BY DEF Solved, Compilable
    <2>. QED
      BY <1>3, <1>4, <2>1, <2>2
  <1>5. Spares(c, out) = {}
    <2>. HIDE DEF users
    <2>. QED
      BY <1>1, <1>2, <1>3, <1>4 DEF Spares, Codes
  <1>6. LedgerFindings(c, out) = {}
    <2>1. Stockouts(c, out) = {}
      BY DEF Stockouts, Solved, PlainCard
    <2>2. Rotables(c) = {}
      BY <1>1 DEF Rotables
    <2>. QED
      BY <2>1, <2>2 DEF LedgerFindings
  <1>. QED
    BY <1>5, <1>6

\* The rows of a post with one lane follow one another, and no change of state
\* takes time.
LEMMA KernelRowsAreSetUp ==
  ASSUME NEW c, NEW i, NEW plan, NEW out, Solved(c, i, plan, out)
  PROVE  Setups(c, out) = {}
  <1>. SUFFICES ASSUME NEW x \in DOMAIN c.cap PROVE SetupsAt(c, out, x) = {}
    BY DEF Setups
  <1>. DEFINE S == AtPost(out, x)
              at == ColourLanes(c, x, out, S).at
  <1>1. RowsOf(c, i, plan, out) /\ DOMAIN out = c.ops /\ PlainCard(c) /\ c.cap[x] = 1
    <2>1. RowsOf(c, i, plan, out) /\ DOMAIN out = c.ops
      BY RowsAreBound DEF RowsOf
    <2>. QED
      BY <2>1 DEF Solved, PlainCard
  <1>2. S \in SUBSET c.ops
    BY <1>1 DEF AtPost
  <1>3. OneByOne(out, S)
    <2>1. IsFiniteSet(S) /\ S \subseteq Int /\ NoOp \notin S
      <3>1. IsFiniteSet(c.ops) /\ c.ops \subseteq Int /\ NoOp \notin c.ops
        BY DEF Solved, PlainCard, Compilable, CardOk
      <3>. HIDE DEF S
      <3>. QED
        BY <1>2, <3>1, FS_Subset
    <2>2. \A o \in S : OccStart(out[o]) \in Int /\ out[o].end \in Int /\ OccStart(out[o]) < out[o].end
      BY <1>1, <1>2 DEF RowsOf, OccStart
    <2>3. ~Excess(out, S, 1)
      BY <1>1, AskedOnceAtATime
    <2>. HIDE DEF S
    <2>. QED
      BY <2>1, <2>2, <2>3, NeverTwoAtOnce DEF Timed
  <1>4. ColourLanes(c, x, out, S) \in OnOneLane(c, x, out, S, S)
    <2>. HIDE DEF S
    <2>. QED
      BY <1>1, <1>3, OneLaneInTurn
  <1>5. DOMAIN at = S /\ \A o \in S : InTurn(c, x, out, S, o, at[o])
    <2>. HIDE DEF S
    <2>. QED
      BY <1>4 DEF OnOneLane, Colourings
  <1>. HIDE DEF at
  <1>6. ASSUME NEW o \in S
        PROVE  ~at[o].ambiguous /\ ExpectedSetup(c, at[o]) = 0 /\ out[o].setup = 0
    <2>1. /\ ~at[o].ambiguous /\ Follows(out, S, o, at[o].prev)
          /\ at[o].from = StateAfter(c, at[o].prev)
          /\ at[o].expected = Cell(c, x, at[o].from, c.state[o])
      BY <1>5, <1>6 DEF InTurn
    <2>2. at[o].prev = NoOp \/ at[o].prev \in c.ops
      BY <1>2, <2>1 DEF Follows, OverBefore
    <2>3. o \in c.ops
      BY <1>2
    <2>4. at[o].from \in {Idle} \cup {c.state[q] : q \in c.ops}
      BY <2>1, <2>2 DEF StateAfter
    <2>5. \/ at[o].expected = 0
          \/ at[o].expected = NoCell /\ c.missing = "zero" /\ at[o].from # Idle
      BY <1>1, <2>1, <2>3, <2>4 DEF PlainCard
    <2>. QED
      BY <1>1, <2>1, <2>3, <2>5 DEF ExpectedSetup, RowsOf, NoCell
  <1>. QED
    BY <1>5, <1>6 DEF SetupsAt, Codes, at, S, NoCell

-----------------------------------------------------------------------------
(***************************************************************************)
(* Every plan that the kernel was asked for.                               *)
(***************************************************************************)
\* What is judged was published of a plan of the kernel for the last image.
JudgedInv ==
  phase = "judged" =>
    /\ ~Unsupported(card) /\ ~Unmatched(card)
    /\ \E plan \in Answers(image) : rows = BindCrews(card, FillTools(card, plan))

LEMMA JudgedInvStays == JudgedInv /\ [Next]_vars => JudgedInv'
  <1>. SUFFICES ASSUME JudgedInv, [Next]_vars PROVE JudgedInv'
    OBVIOUS
  <1>1. CASE Solve
    <2>1. /\ ~Unsupported(card) /\ ~Unmatched(card) /\ card' = card
          /\ \E plan \in Answers(image') : rows' = BindCrews(card, FillTools(card, plan))
      BY <1>1 DEF Solve
    <2>. QED
      BY <2>1 DEF JudgedInv
  <1>2. CASE Refuse
    BY <1>2 DEF Refuse, JudgedInv
  <1>3. ASSUME NEW o \in card.ops, Repair(o)
        PROVE  JudgedInv'
    BY <1>3 DEF Repair, JudgedInv
  <1>4. CASE UNCHANGED vars
    BY <1>4 DEF vars, JudgedInv
  <1>. QED
    BY <1>1, <1>2, <1>3, <1>4 DEF Next

\* The answer is a plan of all operations when the rows are.
LEMMA JudgedIsSolved ==
  ASSUME \A c \in Cards : PlainCard(c), CompiledInv, JudgedInv,
         phase = "judged", DOMAIN rows = card.ops, CrewsApart(card)
  PROVE  \E plan : Solved(card, image, plan, rows)
  <1>1. /\ Compilable(card) /\ PlainCard(card) /\ Lifting(card, built) /\ image = Compile(card, built)
        /\ ~Unsupported(card) /\ ~Unmatched(card)
    BY CardsAssumption DEF CompiledInv, JudgedInv
  <1>2. PICK plan \in Answers(image) : rows = BindCrews(card, FillTools(card, plan))
    BY DEF JudgedInv
  <1>. DEFINE f == FillTools(card, plan)
  <1>3. DOMAIN f = DOMAIN plan /\ \A o \in DOMAIN plan : f[o].start = plan[o].start
    <2>1. DOMAIN f = DOMAIN plan
      BY DEF FillTools
    <2>2. ASSUME NEW o \in DOMAIN plan
          PROVE  f[o].start = plan[o].start
      <3>1. plan \in KernelPlans(image, NoRows)
        BY DEF Answers, NoRows
      <3>2. o \in card.ops /\ plan[o] \in KernelSlots(image, o)
        BY <1>1, <3>1, ImageOfOperations DEF KernelPlans
      <3>3. SlotOf(card, image, o, plan[o])
        BY <1>1, <3>2, SlotsAre
      <3>4. plan[o] = Row(plan[o].post, plan[o].crew, plan[o].tools, plan[o].start, plan[o].end, 0)
        BY <3>3 DEF SlotOf
      <3>5. \A t : [plan[o] EXCEPT !.tools = t].start = plan[o].start
        BY <3>4 DEF Row
      <3>. QED
        BY <3>5 DEF FillTools
    <2>. QED
      BY <2>1, <2>2
  <1>4. DOMAIN plan = card.ops
    <2>1. DOMAIN plan \subseteq card.ops
      BY <1>1, ImageOfOperations DEF Answers, KernelPlans, NoRows
    <2>2. IsFiniteSet(DOMAIN plan) /\ DOMAIN plan \subseteq Int /\ DOMAIN card.crewCap \subseteq Nat
      <3>1. IsFiniteSet(card.ops) /\ card.ops \subseteq Int /\ DOMAIN card.crewCap \subseteq Nat
        BY <1>1 DEF PlainCard, Compilable, CardOk
      <3>. QED
        BY <2>1, <3>1, FS_Subset
    <2>3. \A o \in DOMAIN plan : plan[o].start \in Int
      <3>1. SUFFICES ASSUME NEW o \in DOMAIN plan PROVE plan[o].start \in Int
        OBVIOUS
      <3>2. plan \in KernelPlans(image, NoRows)
        BY DEF Answers, NoRows
      <3>3. o \in card.ops /\ plan[o] \in KernelSlots(image, o)
        BY <1>1, <3>2, ImageOfOperations DEF KernelPlans
      <3>. QED
        BY <1>1, <3>3, SlotsAre DEF SlotOf
    <2>. HIDE DEF f
    <2>4. DOMAIN BindCrews(card, f) = DOMAIN f
      BY <1>3, <2>2, <2>3, CrewsAreBoundInTurn
    <2>. QED
      BY <1>2, <1>3, <2>4 DEF f
  <1>5. KernelPlan(card, image, plan)
    BY <1>1, <1>4, AnswersArePlans
  <1>6. Solved(card, image, plan, rows)
    BY <1>1, <1>2, <1>5 DEF Solved
  <1>. QED
    BY <1>6

\* Nothing is lost between the card and the kernel: whatever plan the kernel gives
\* for the image, with crews and tools written in, the notary who knows the card
\* finds nothing that the image does not say.  For all cards without what the
\* kernel takes no part in (PlainCard), any number of passes and any answer.
THEOREM KernelPlansStayClean ==
  ASSUME \A c \in Cards : PlainCard(c)
  PROVE  Spec => []KernelPlansAreClean
  <1>1. CompiledInv /\ JudgedInv => KernelPlansAreClean
    <2>. SUFFICES ASSUME CompiledInv, JudgedInv,
                         phase = "judged", DOMAIN rows = card.ops, CrewsApart(card),
                         NEW v \in Violations(card, rows)
                  PROVE  \/ v[1] = "FROZEN_MOVED"
                         \/ /\ v[1] = "PRECEDENCE_BROKEN"
                            /\ \E l \in card.links[v[2]] :
                                 <<l.pred, v[2]>> \in CrossEdges(card) \/ l.min > 0 \/ l.max # NoMax
      BY DEF KernelPlansAreClean
    <2>1. PICK plan : Solved(card, image, plan, rows)
      BY JudgedIsSolved
    <2>2. v \in Findings(card, rows)
      BY <2>1 DEF Violations, Solved, PlainCard
    <2>3. v \in Precedence(card, rows) \/ v \in Frozen(card, rows)
      BY <2>1, <2>2, KernelRowsFindNothing, KernelOverlapsNothing, KernelRunsOutOfNothing,
         KernelRowsAreSetUp DEF Findings
    <2>4. CASE v \in Frozen(card, rows)
      BY <2>4 DEF Frozen, Codes
    <2>5. CASE v \in Precedence(card, rows)
      <3>1. PICK o \in DOMAIN rows : /\ v = <<"PRECEDENCE_BROKEN", o>>
                                     /\ \E l \in card.links[o] : ~LinkHolds(rows, o, l)
        BY <2>5 DEF Precedence, Codes
      <3>2. PICK l \in card.links[o] : ~LinkHolds(rows, o, l)
        BY <3>1
      <3>3. <<l.pred, o>> \in CrossEdges(card) \/ l.min > 0 \/ l.max # NoMax
        BY <2>1, <3>2, KernelKeepsWhatItIsTold
      <3>. QED
        BY <3>1, <3>2, <3>3
    <2>. QED
      BY <2>3, <2>4, <2>5
  <1>2. Init => JudgedInv
    BY DEF Init, JudgedInv
  <1>3. Init => CompiledInv
    BY CompiledInvStarts
  <1>. QED
    BY <1>1, <1>2, <1>3, CompiledInvStays, JudgedInvStays, PTL DEF Spec
=============================================================================
