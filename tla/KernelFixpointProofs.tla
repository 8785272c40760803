------------------------ MODULE KernelFixpointProofs ------------------------
(***************************************************************************)
(* What the fixpoint over the kernel guarantees for any cards, any number  *)
(* of passes and whatever plans the kernel answers.                        *)
(*                                                                         *)
(* The argument: the kernel keeps the chains and the windows.  An edge of  *)
(* the card that is no link of a chain and is broken lifts its window,     *)
(* unless the window is already behind the end of its source; but then the *)
(* kernel's plan, which keeps windows, would not break it.  So where no    *)
(* window moves, no edge is broken.  In a job planned as one chain, order  *)
(* carries over from link to link.  And if the chains add no order to the  *)
(* card, its own plans are among the kernel's, and the kernel's optimum,   *)
(* when it keeps the card, is the card's.                                  *)
(***************************************************************************)
EXTENDS KernelFixpoint, OperatorProofs

\* A kernel's answer s to card c with windows ws.
Answered(c, ws, s) ==
  /\ DOMAIN s \subseteq c.ops
  /\ \A o \in DOMAIN s : s[o] \in Nat
  /\ KernelAccepts(c, ws, s)

WindowsTyped == \A o \in DOMAIN windows : windows[o] \in Int

\* Until it is published a result claims nothing.
NotYetPublished == phase # "published" => outcome = Unpublished

\* What the kernel calls optimal is so among the plans of its own problem.
BestOfKernel ==
  kernel = "OPTIMAL" => rows \in Shortest(card, KernelPlans(card, built))

LoopInv == /\ TypeOK /\ WindowsTyped /\ card \in Cards
           /\ ConvergedIsOrdered /\ BestOfKernel
           /\ NotYetPublished /\ VerifiedIsClean
           /\ phase = "solving" => iterations < MaxIter

-----------------------------------------------------------------------------
(***************************************************************************)
(* The kernel's answers and the windows.                                   *)
(***************************************************************************)
\* Every answer, a partial or an empty one too, keeps the kernel's problem.
LEMMA AnswersAreAnswered ==
  ASSUME card \in Cards, NEW a \in Answers
  PROVE  Answered(card, windows, a.rows)
  <1>. DEFINE plans == KernelPlans(card, windows)
  <1>1. a.rows \in plans \cup PartialPlans(card, windows) \cup Shortest(card, plans) \cup {None}
    BY DEF Answers
  <1>2. Shortest(card, plans) \subseteq plans
    BY DEF Shortest
  <1>3. \A s \in plans \cup PartialPlans(card, windows) : Answered(card, windows, s)
    <2>1. ASSUME NEW S \in SUBSET card.ops, NEW s \in Starts(card, S),
                 KernelAccepts(card, windows, s)
          PROVE  Answered(card, windows, s)
      <3>1. s \in [S -> 0..(card.horizon - 1)]
        BY <2>1 DEF Starts
      <3>2. DOMAIN s = S /\ \A o \in S : s[o] \in 0..(card.horizon - 1)
        BY <3>1
      <3>3. \A o \in S : s[o] \in Nat
        BY <3>2, CardsAssumption DEF CardOk
      <3>. QED
        BY <2>1, <3>2, <3>3 DEF Answered
    <2>2. \A s \in plans : s \in Starts(card, card.ops) /\ KernelAccepts(card, windows, s)
      BY DEF KernelPlans
    <2>3. \A s \in PartialPlans(card, windows) : \E o \in card.ops :
            s \in Starts(card, card.ops \ {o}) /\ KernelAccepts(card, windows, s)
      BY DEF PartialPlans
    <2>. QED
      BY <2>1, <2>2, <2>3
  <1>4. DOMAIN None = {}
    BY DEF None
  <1>5. Answered(card, windows, None)
    BY <1>4 DEF Answered, KernelAccepts, PostsHold
  <1>. QED
    BY <1>1, <1>2, <1>3, <1>5

\* propagate_windows adds windows and lifts them, and takes none back.
LEMMA PropagateGrows ==
  ASSUME NEW c \in Cards, NEW ws, NEW s, Answered(c, ws, s),
         DOMAIN ws \subseteq c.ops, \A o \in DOMAIN ws : ws[o] \in Int
  PROVE  /\ DOMAIN Propagate(c, ws, s) \subseteq c.ops
         /\ \A o \in DOMAIN Propagate(c, ws, s) : Propagate(c, ws, s)[o] \in Int
         /\ \A o \in DOMAIN ws : /\ o \in DOMAIN Propagate(c, ws, s)
                                /\ Propagate(c, ws, s)[o] >= ws[o]
  <1>1. EndsBy(c, s, c.horizon)
    BY CardsAssumption DEF CardOk, EndsBy, Answered, KernelAccepts, End
  <1>2. c.horizon \in Int
    BY CardsAssumption DEF CardOk
  <1>3. \A e \in CrossEdges(c) : e[2] \in c.ops
    BY DEF CrossEdges, Edges
  <1>. QED
    BY <1>1, <1>2, <1>3, WindowsOnlyLift

-----------------------------------------------------------------------------
(***************************************************************************)
(* A plan at rest keeps the edges of the card.                             *)
(***************************************************************************)
\* In a job that is planned as one chain, every operation ends before every
\* later one starts: the first that does not would follow one that does.
LEMMA ChainOrders ==
  ASSUME NEW c \in Cards, c.strategy = "serialize", NEW ws, NEW s,
         Answered(c, ws, s), DOMAIN s = c.ops,
         NEW a \in c.ops, NEW b \in c.ops, a < b, c.job[a] = c.job[b]
  PROVE  End(c, s, a) <= s[b]
  <1>. DEFINE Late == {q \in c.ops : a < q /\ c.job[q] = c.job[a] /\ ~(End(c, s, a) <= s[q])}
  <1>1. c.ops \subseteq Nat
    BY CardsAssumption DEF CardOk
  <1>2. \A o \in c.ops : s[o] \in Nat /\ c.dur[o] \in Nat
    BY CardsAssumption DEF CardOk, Answered
  <1>. SUFFICES ASSUME Late # {} PROVE FALSE
    BY <1>1
  <1>3. PICK q \in Late : \A x \in Late : q <= x
    BY <1>1, LeastNat
  <1>. DEFINE Behind == {x \in c.ops : a <= x /\ x < q /\ c.job[x] = c.job[a]}
  <1>4. PICK x \in Behind : \A y \in Behind : y <= x
    <2>1. a \in Behind
      BY <1>1, <1>3
    <2>2. Behind \subseteq Int /\ \A y \in Behind : y <= q
      BY <1>1
    <2>3. q \in Int
      BY <1>1
    <2>. QED
      BY <2>1, <2>2, <2>3, GreatestInt
  <1>5. <<x, q>> \in SerialLinks(c)
    <2>1. \A y \in c.ops : x < y /\ y < q => c.job[y] # c.job[x]
      BY <1>1, <1>4
    <2>. QED
      BY <1>1, <2>1 DEF SerialLinks, SameJob
  <1>6. End(c, s, x) <= s[q]
    BY <1>5 DEF Links, Answered, KernelAccepts
  <1>7. CASE x = a
    BY <1>6, <1>7
  <1>8. CASE x # a
    <2>1. x \notin Late
      BY <1>1, <1>3
    <2>2. End(c, s, a) <= s[x]
      BY <1>1, <1>8, <2>1
    <2>. QED
      BY <1>2, <1>6, <2>2 DEF End
  <1>. QED
    BY <1>7, <1>8

\* Where no window is lifted, a complete answer keeps every edge of the card.
LEMMA RestIsOrdered ==
  ASSUME NEW c \in Cards, NEW ws, \A o \in DOMAIN ws : ws[o] \in Int,
         NEW s, Answered(c, ws, s), DOMAIN s = c.ops,
         Lifted(c, ws, s) = {}, NEW e \in Edges(c)
  PROVE  End(c, s, e[1]) <= s[e[2]]
  <1>1. /\ e[1] \in c.ops /\ e[2] \in c.ops /\ e[1] \in c.preds[e[2]]
        /\ e = <<e[1], e[2]>>
    BY DEF Edges
  <1>2. \A o \in c.ops : s[o] \in Nat /\ c.dur[o] \in Nat
    BY CardsAssumption DEF CardOk, Answered
  <1>3. CASE e \in CrossEdges(c)
    <2>1. ~Lifts(c, ws, s, e)
      BY <1>3 DEF Lifted
    <2>2. End(c, s, e[1]) \in Int /\ s[e[2]] \in Int
      BY <1>1, <1>2 DEF End
    <2>3. s[e[2]] < End(c, s, e[1])
            => e[2] \in DOMAIN ws /\ ~(End(c, s, e[1]) > ws[e[2]])
      BY <1>1, <2>1 DEF Lifts
    <2>4. e[2] \in DOMAIN ws => s[e[2]] >= ws[e[2]]
      BY <1>1 DEF Answered, KernelAccepts
    <2>. QED
      BY <2>2, <2>3, <2>4
  <1>4. CASE e \notin CrossEdges(c) /\ c.strategy # "serialize"
    <2>1. e \in Links(c)
      BY <1>4 DEF CrossEdges
    <2>. QED
      BY <1>1, <2>1 DEF Answered, KernelAccepts
  <1>5. CASE e \notin CrossEdges(c) /\ c.strategy = "serialize"
    <2>1. c.job[e[1]] = c.job[e[2]]
      BY <1>5 DEF CrossEdges, SameJob
    <2>2. e[1] < e[2]
      BY <1>1, <2>1, CardsAssumption DEF CardOk
    <2>. QED
      BY <1>1, <1>5, <2>1, <2>2, ChainOrders
  <1>. QED
    BY <1>3, <1>4, <1>5

-----------------------------------------------------------------------------
(***************************************************************************)
(* The kernel's optimum is the card's, when the chains add no order.       *)
(***************************************************************************)
\* The makespan of a plan that ends within the horizon is a number.
LEMMA MakespanIsNumber ==
  ASSUME NEW c \in Cards, NEW s, DOMAIN s \subseteq c.ops,
         \A o \in DOMAIN s : s[o] \in Nat /\ End(c, s, o) <= c.horizon
  PROVE  Makespan(c, s) \in Nat
  <1>. DEFINE S == {0} \cup {End(c, s, o) : o \in DOMAIN s}
  <1>1. c.horizon \in Nat /\ \A o \in DOMAIN s : End(c, s, o) \in Nat
    BY CardsAssumption DEF CardOk, End
  <1>2. /\ S \subseteq Nat /\ S \subseteq Int /\ S # {} /\ c.horizon \in Int
        /\ \A x \in S : x <= c.horizon
    BY <1>1
  <1>3. \E m \in S : \A x \in S : x <= m
    <2>. HIDE DEF S
    <2>. QED
      BY <1>2, GreatestInt
  <1>4. \E m \in S : \A x \in S : m >= x
    <2>. HIDE DEF S
    <2>. QED
      BY <1>2, <1>3
  <1>5. Max(S) \in S
    <2>. HIDE DEF S
    <2>. QED
      BY <1>4 DEF Max
  <1>. QED
    BY <1>2, <1>5 DEF Makespan

\* The least of a set is still the least of a subset that it belongs to.
LEMMA LeastOfSubset ==
  ASSUME NEW A \in SUBSET Nat, NEW B \in SUBSET A, Min(A) \in B
  PROVE  Min(B) = Min(A)
  <1>1. PICK m \in A : \A x \in A : m <= x
    BY LeastNat
  <1>2. Min(A) \in A /\ \A x \in A : Min(A) <= x
    BY <1>1 DEF Min
  <1>3. Min(B) \in B /\ \A x \in B : Min(B) <= x
    BY <1>2 DEF Min
  <1>4. Min(A) <= Min(B) /\ Min(B) <= Min(A)
    BY <1>2, <1>3
  <1>5. Min(A) \in Nat /\ Min(B) \in Nat
    BY <1>2, <1>3
  <1>. QED
    BY <1>4, <1>5

\* Without windows, and with no link that is no edge, a plan that keeps the card
\* is a plan the kernel could answer.
LEMMA CardPlansAreKernelPlans ==
  ASSUME NEW c \in Cards, Links(c) \subseteq Edges(c)
  PROVE  CardPlans(c) \subseteq KernelPlans(c, None)
  <1>. SUFFICES ASSUME NEW s \in CardPlans(c) PROVE s \in KernelPlans(c, None)
    OBVIOUS
  <1>1. /\ s \in Starts(c, c.ops) /\ CardHolds(c, s) /\ PostsHold(c, s)
        /\ \A o \in c.ops : End(c, s, o) <= c.horizon
    BY DEF CardPlans
  <1>2. c.horizon \in Nat /\ s \in [c.ops -> 0..(c.horizon - 1)]
    BY <1>1, CardsAssumption DEF Starts, CardOk
  <1>3. DOMAIN None = {}
    BY DEF None
  <1>4. ASSUME NEW e \in Links(c)
        PROVE  e[1] \in DOMAIN s /\ End(c, s, e[1]) <= s[e[2]]
    <2>1. e \in Edges(c) /\ e[1] \in c.ops /\ e[2] \in c.ops
      BY DEF Edges
    <2>2. End(c, s, e[1]) + c.lag[e[2]] <= s[e[2]]
      BY <1>1, <1>2, <2>1 DEF CardHolds
    <2>3. s[e[1]] \in Nat /\ s[e[2]] \in Nat /\ c.dur[e[1]] \in Nat /\ c.lag[e[2]] \in Nat
      BY <1>2, <2>1, CardsAssumption DEF CardOk
    <2>. QED
      BY <1>2, <2>1, <2>2, <2>3 DEF End
  <1>5. KernelAccepts(c, None, s)
    BY <1>1, <1>2, <1>3, <1>4 DEF KernelAccepts
  <1>. QED
    BY <1>1, <1>5 DEF KernelPlans

\* A shortest plan of the kernel that keeps the card is a shortest of the card.
LEMMA KernelOptimumIsCardOptimum ==
  ASSUME NEW c \in Cards, Links(c) \subseteq Edges(c),
         NEW s \in Shortest(c, KernelPlans(c, None)), CardHolds(c, s)
  PROVE  s \in Shortest(c, CardPlans(c))
  <1>. DEFINE K == KernelPlans(c, None)
              C == CardPlans(c)
              A == {Makespan(c, x) : x \in K}
              B == {Makespan(c, x) : x \in C}
  <1>1. s \in K /\ Makespan(c, s) = Min(A)
    BY DEF Shortest
  <1>2. s \in C
    <2>1. s \in Starts(c, c.ops) /\ KernelAccepts(c, None, s)
      BY <1>1 DEF KernelPlans
    <2>2. DOMAIN s = c.ops
      BY <2>1 DEF Starts
    <2>. QED
      BY <2>1, <2>2 DEF CardPlans, KernelAccepts
  <1>3. C \subseteq K
    BY CardPlansAreKernelPlans
  <1>4. A \subseteq Nat
    <2>1. ASSUME NEW x \in K PROVE Makespan(c, x) \in Nat
      <3>1. x \in [c.ops -> 0..(c.horizon - 1)] /\ KernelAccepts(c, None, x)
        BY DEF KernelPlans, Starts
      <3>2. DOMAIN x = c.ops /\ \A o \in c.ops : x[o] \in Nat
        BY <3>1, CardsAssumption DEF CardOk
      <3>3. \A o \in c.ops : End(c, x, o) <= c.horizon
        BY <3>1, <3>2 DEF KernelAccepts
      <3>. QED
        BY <3>2, <3>3, MakespanIsNumber
    <2>. QED
      BY <2>1
  <1>5. B \subseteq A /\ Min(A) \in B
    <2>. HIDE DEF K, C
    <2>. QED
      BY <1>1, <1>2, <1>3
  <1>6. Min(B) = Min(A)
    <2>. HIDE DEF A, B
    <2>. QED
      BY <1>4, <1>5, LeastOfSubset
  <1>. QED
    BY <1>1, <1>2, <1>6 DEF Shortest

-----------------------------------------------------------------------------
(***************************************************************************)
(* The invariant of the loop.                                              *)
(***************************************************************************)
\* What classify_result says of a run: "optimal" only of a clean first answer
\* without windows that the kernel called optimal, "verified" only of a clean run.
LEMMA ClaimFacts ==
  ASSUME NEW run
  PROVE  /\ Classify(run).claim = "optimal" =>
              /\ run.kernel = "OPTIMAL" /\ ~run.windows /\ ~Dirty(run)
         /\ Classify(run).verified => ~Dirty(run)
  BY DEF Classify, Outcome, ExactOptimal

LEMMA LoopInit == Init => LoopInv /\ OptimalIsOptimal
  <1>. SUFFICES ASSUME Init PROVE LoopInv /\ OptimalIsOptimal
    OBVIOUS
  <1>1. /\ windows = None /\ rows = None /\ iterations = 0 /\ phase = "solving"
        /\ converged = FALSE /\ kernel = "NONE" /\ card \in Cards /\ outcome = Unpublished
    BY DEF Init
  <1>2. DOMAIN windows = {} /\ DOMAIN rows = {}
    BY <1>1, Zenon DEF None
  <1>3. iterations \in 0..MaxIter /\ iterations < MaxIter
    BY <1>1, MaxIterAssumption
  <1>4. TypeOK /\ WindowsTyped /\ ConvergedIsOrdered /\ BestOfKernel
    BY <1>1, <1>2, <1>3 DEF TypeOK, WindowsTyped, ConvergedIsOrdered, BestOfKernel
  <1>5. NotYetPublished /\ VerifiedIsClean /\ OptimalIsOptimal
    BY <1>1 DEF NotYetPublished, VerifiedIsClean, OptimalIsOptimal, Unpublished, Outcome
  <1>. QED
    BY <1>1, <1>3, <1>4, <1>5 DEF LoopInv

LEMMA SolveKeeps ==
  ASSUME LoopInv, Solve
  PROVE  /\ LoopInv' /\ OptimalIsOptimal'
         /\ \A o \in DOMAIN windows : o \in DOMAIN windows' /\ windows'[o] >= windows[o]
  <1>1. PICK a \in Answers :
          /\ rows' = a.rows /\ kernel' = a.status
          /\ windows' = Propagate(card, windows, a.rows)
          /\ converged' = (Lifted(card, windows, a.rows) = {})
          /\ phase' = IF converged' \/ iterations + 1 = MaxIter THEN "solved" ELSE "solving"
    BY DEF Solve
  <1>2. /\ phase = "solving" /\ iterations' = iterations + 1 /\ built' = windows
        /\ card' = card /\ outcome' = outcome /\ card \in Cards
    BY DEF Solve, LoopInv
  <1>3. iterations \in Nat /\ iterations < MaxIter
    BY <1>2, MaxIterAssumption DEF LoopInv, TypeOK
  <1>4. Answered(card, windows, a.rows)
    BY <1>2, AnswersAreAnswered
  <1>5. DOMAIN windows \subseteq card.ops /\ \A o \in DOMAIN windows : windows[o] \in Int
    BY DEF LoopInv, TypeOK, WindowsTyped
  <1>6. /\ DOMAIN windows' \subseteq card.ops
        /\ \A o \in DOMAIN windows' : windows'[o] \in Int
        /\ \A o \in DOMAIN windows : o \in DOMAIN windows' /\ windows'[o] >= windows[o]
    BY <1>1, <1>2, <1>4, <1>5, PropagateGrows
  <1>7. TypeOK' /\ WindowsTyped' /\ (phase' = "solving" => iterations' < MaxIter)
    <2>1. DOMAIN rows' \subseteq card'.ops
      BY <1>1, <1>2, <1>4 DEF Answered
    <2>2. iterations' \in 0..MaxIter
      BY <1>2, <1>3, MaxIterAssumption
    <2>3. phase' \in {"solving", "solved", "published"} /\ converged' \in BOOLEAN
      BY <1>1
    <2>4. phase' = "solving" => iterations' < MaxIter
      BY <1>1, <1>2, <1>3, MaxIterAssumption
    <2>. QED
      BY <1>2, <1>6, <2>1, <2>2, <2>3, <2>4 DEF TypeOK, WindowsTyped
  <1>8. ConvergedIsOrdered'
    <2>1. SUFFICES ASSUME converged', DOMAIN rows' = card'.ops, NEW e \in Edges(card)
                   PROVE  End(card, a.rows, e[1]) <= a.rows[e[2]]
      BY <1>1, <1>2 DEF ConvergedIsOrdered
    <2>2. Lifted(card, windows, a.rows) = {} /\ DOMAIN a.rows = card.ops
      BY <1>1, <1>2, <2>1
    <2>. QED
      BY <1>2, <1>4, <1>5, <2>2, RestIsOrdered
  <1>9. BestOfKernel'
    <2>1. a.status = "OPTIMAL" => a.rows \in Shortest(card, KernelPlans(card, windows))
      BY DEF Answers
    <2>. QED
      BY <1>1, <1>2, <2>1 DEF BestOfKernel
  <1>10. outcome' = Unpublished
    BY <1>2 DEF LoopInv, NotYetPublished
  <1>11. NotYetPublished' /\ VerifiedIsClean' /\ OptimalIsOptimal'
    BY <1>10 DEF NotYetPublished, VerifiedIsClean, OptimalIsOptimal, Unpublished, Outcome
  <1>. QED
    BY <1>2, <1>6, <1>7, <1>8, <1>9, <1>11 DEF LoopInv

LEMMA RejectKeeps ==
  ASSUME LoopInv, Reject
  PROVE  LoopInv' /\ OptimalIsOptimal' /\ windows' = windows
  <1>1. /\ phase = "solving" /\ phase' = "solved" /\ iterations' = iterations + 1
        /\ windows' = windows /\ rows' = None /\ card' = card /\ kernel' = "ERROR"
        /\ converged' = FALSE /\ outcome' = outcome
    BY DEF Reject
  <1>2. iterations \in Nat /\ iterations < MaxIter
    BY <1>1, MaxIterAssumption DEF LoopInv, TypeOK
  <1>3. DOMAIN rows' = {}
    BY <1>1, Zenon DEF None
  <1>4. iterations' \in 0..MaxIter
    BY <1>1, <1>2, MaxIterAssumption
  <1>5. DOMAIN windows' \subseteq card'.ops /\ WindowsTyped'
    BY <1>1 DEF LoopInv, TypeOK, WindowsTyped
  <1>6. TypeOK' /\ ConvergedIsOrdered' /\ BestOfKernel'
    BY <1>1, <1>3, <1>4, <1>5 DEF TypeOK, ConvergedIsOrdered, BestOfKernel
  <1>7. outcome' = Unpublished
    BY <1>1 DEF LoopInv, NotYetPublished
  <1>8. NotYetPublished' /\ VerifiedIsClean' /\ OptimalIsOptimal'
    BY <1>7 DEF NotYetPublished, VerifiedIsClean, OptimalIsOptimal, Unpublished, Outcome
  <1>. QED
    BY <1>1, <1>5, <1>6, <1>8 DEF LoopInv

LEMMA PublishKeeps ==
  ASSUME LoopInv, Publish
  PROVE  /\ LoopInv' /\ windows' = windows
         /\ Links(card) \subseteq Edges(card) => OptimalIsOptimal'
  <1>. DEFINE run == [kernel |-> kernel, config |-> Config, usage |-> FALSE,
                      hard |-> ~CardHolds(card, rows) \/ DOMAIN rows # card.ops,
                      engine |-> FALSE, full |-> DOMAIN rows = card.ops,
                      converged |-> converged, iterations |-> iterations,
                      windows |-> built # None]
  <1>1. /\ phase' = "published" /\ outcome' = Classify(run)
        /\ card' = card /\ windows' = windows /\ built' = built /\ rows' = rows
        /\ kernel' = kernel /\ iterations' = iterations /\ converged' = converged
    BY DEF Publish
  <1>2. /\ run.kernel = kernel /\ run.windows = (built # None)
        /\ Dirty(run) <=> (~CardHolds(card, rows) \/ DOMAIN rows # card.ops) \/ ~converged
    BY DEF Dirty
  <1>. HIDE DEF run
  <1>3. TypeOK' /\ WindowsTyped' /\ NotYetPublished'
    BY <1>1 DEF LoopInv, TypeOK, WindowsTyped, NotYetPublished
  <1>4. ConvergedIsOrdered' /\ BestOfKernel'
    BY <1>1 DEF LoopInv, ConvergedIsOrdered, BestOfKernel, Edges, End, Shortest, Makespan,
                KernelPlans, KernelAccepts
  <1>5. VerifiedIsClean'
    BY <1>1, <1>2, ClaimFacts DEF VerifiedIsClean, CardHolds, Edges, End
  <1>6. ASSUME Links(card) \subseteq Edges(card), outcome'.claim = "optimal"
        PROVE  rows \in Shortest(card, CardPlans(card))
    <2>1. kernel = "OPTIMAL" /\ built = None /\ CardHolds(card, rows)
      BY <1>1, <1>2, <1>6, ClaimFacts
    <2>2. rows \in Shortest(card, KernelPlans(card, None))
      BY <2>1 DEF LoopInv, BestOfKernel
    <2>. QED
      BY <1>6, <2>1, <2>2, KernelOptimumIsCardOptimum DEF LoopInv
  <1>7. Links(card) \subseteq Edges(card) => OptimalIsOptimal'
    BY <1>1, <1>6 DEF OptimalIsOptimal
  <1>. QED
    BY <1>1, <1>3, <1>4, <1>5, <1>7 DEF LoopInv

LEMMA LoopNext ==
  ASSUME LoopInv, [Next]_vars
  PROVE  /\ LoopInv'
         /\ \A o \in DOMAIN windows : o \in DOMAIN windows' /\ windows'[o] >= windows[o]
  <1>1. (windows' = windows) =>
          \A o \in DOMAIN windows : o \in DOMAIN windows' /\ windows'[o] >= windows[o]
    BY DEF LoopInv, WindowsTyped
  <1>2. CASE UNCHANGED vars
    BY <1>1, <1>2 DEF vars, LoopInv, TypeOK, WindowsTyped, ConvergedIsOrdered, BestOfKernel,
                NotYetPublished, VerifiedIsClean, CardHolds, Edges, End, Shortest, Makespan,
                KernelPlans, KernelAccepts
  <1>3. CASE Solve
    BY <1>3, SolveKeeps
  <1>4. CASE Reject
    BY <1>1, <1>4, RejectKeeps
  <1>5. CASE Publish
    BY <1>1, <1>5, PublishKeeps
  <1>. QED
    BY <1>2, <1>3, <1>4, <1>5 DEF Next

\* The loop keeps its invariant in every reachable state.
THEOREM LoopKeepsInv == Spec => []LoopInv
  <1>1. Init => LoopInv
    BY LoopInit
  <1>2. LoopInv /\ [Next]_vars => LoopInv'
    BY LoopNext
  <1>. QED
    BY <1>1, <1>2, PTL DEF Spec

\* The kernel is called at most max_fixpoint_iter times, and windows and rows
\* are of operations of the card.
THEOREM LoopTyped == Spec => []TypeOK
  <1>1. LoopInv => TypeOK
    BY DEF LoopInv
  <1>. QED
    BY <1>1, LoopKeepsInv, PTL

\* When propagate_windows says that nothing moves, a complete plan keeps every
\* edge of the card, those the kernel never saw too.
THEOREM RestMeansOrdered == Spec => []ConvergedIsOrdered
  <1>1. LoopInv => ConvergedIsOrdered
    BY DEF LoopInv
  <1>. QED
    BY <1>1, LoopKeepsInv, PTL

\* propagate_windows lifts windows and takes none back.
THEOREM WindowsOnlyGrow == Spec => WindowsGrow
  <1>1. LoopInv /\ [Next]_vars =>
          [\A o \in DOMAIN windows : o \in DOMAIN windows' /\ windows'[o] >= windows[o]]_vars
    BY LoopNext
  <1>. QED
    BY <1>1, LoopKeepsInv, PTL DEF Spec, WindowsGrow

\* A result is verified only when the card is kept and the windows are at rest.
THEOREM VerifiedMeansClean == Spec => []VerifiedIsClean
  <1>1. LoopInv => VerifiedIsClean
    BY DEF LoopInv
  <1>. QED
    BY <1>1, LoopKeepsInv, PTL

\* Where the chains add no order to any card, a plan published as optimal is one
\* of the shortest that keep the card: always when the card is cut into segments,
\* and when no job that is planned as one chain branches.
THEOREM OptimalIsTrue ==
  ASSUME \A c \in Cards : Links(c) \subseteq Edges(c)
  PROVE  Spec => []OptimalIsOptimal
  <1>1. Init => LoopInv /\ OptimalIsOptimal
    BY LoopInit
  <1>2. ASSUME LoopInv, OptimalIsOptimal, [Next]_vars
        PROVE  OptimalIsOptimal'
    <2>1. CASE UNCHANGED vars
      BY <1>2, <2>1 DEF vars, OptimalIsOptimal, Shortest, Makespan, CardPlans, CardHolds, Edges,
                        PostsHold, Starts, End
    <2>2. CASE Solve
      BY <1>2, <2>2, SolveKeeps
    <2>3. CASE Reject
      BY <1>2, <2>3, RejectKeeps
    <2>4. CASE Publish
      <3>1. Links(card) \subseteq Edges(card)
        BY <1>2 DEF LoopInv
      <3>. QED
        BY <1>2, <2>4, <3>1, PublishKeeps
    <2>. QED
      BY <1>2, <2>1, <2>2, <2>3, <2>4 DEF Next
  <1>3. LoopInv /\ OptimalIsOptimal /\ [Next]_vars => OptimalIsOptimal'
    BY <1>2
  <1>. QED
    BY <1>1, <1>3, LoopKeepsInv, PTL DEF Spec

\* The chains of _segment add no order: the hypothesis holds of every card that
\* is cut into segments.
THEOREM SegmentsAddNoOrder ==
  ASSUME NEW c, c.strategy # "serialize"
  PROVE  Links(c) \subseteq Edges(c)
  BY DEF Links, SegmentLinks
=============================================================================
