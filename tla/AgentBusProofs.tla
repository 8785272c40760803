--------------------------- MODULE AgentBusProofs ---------------------------
(***************************************************************************)
(* Whoever may go on by its last reading holds the issue for every reader  *)
(* of the thread, for any agents, branches and readings, however old.      *)
(*                                                                         *)
(* The argument: two readers that get an answer have gone through the same *)
(* states, whatever evidence each has.  An agent that may go on has said   *)
(* nothing since its reading that gives the issue away, and its lease runs *)
(* still, so no comment posted since then could take it: a claim or a      *)
(* steal needs a lease that was over already when it was posted.           *)
(***************************************************************************)
EXTENDS AgentBus, OperatorProofs

Ops == {"claim", "heartbeat", "handoff", "steal", "done"}

Comment == [op : Ops, agent : Agents, branch : Branches, until : Int, sha : Int, at : Nat]

State == [agent : Agents \cup {Nobody}, branch : SUBSET Branches, until : Int,
          last : Nat, refused : BOOLEAN]

BusTypeOK ==
  /\ now \in Nat
  /\ thread \in Seq(Comment)
  /\ commits \in [Branches -> Nat]
  /\ ci \in [head : Int, passed : BOOLEAN]
  /\ view \in [Agents -> State]

\* Comments are in the order of their times, and none is from the future.
InOrder(messages) ==
  \A i, j \in 1..Len(messages) : i <= j => messages[i].at <= messages[j].at

Past == \A i \in 1..Len(thread) : thread[i].at <= now

\* a has not given the issue away after the first k comments.
Quiet(a, k) ==
  \A i \in (k + 1)..Len(thread) :
    thread[i].agent = a => thread[i].op \notin {"handoff", "done"}

\* An agent that takes itself for the holder has read so after some comment and
\* has not given the issue away since.
ReadOnce ==
  \A a \in Agents :
    view[a].agent = a =>
      \E k \in 0..Len(thread) : \E ev : view[a] = States(thread, ev)[k] /\ Quiet(a, k)

BusInv == BusTypeOK /\ InOrder(thread) /\ Past /\ ReadOnce

-----------------------------------------------------------------------------
(***************************************************************************)
(* The replay.                                                             *)
(***************************************************************************)
\* A replay goes comment by comment.
LEMMA StatesAre ==
  ASSUME NEW S, NEW messages \in Seq(S), NEW ev
  PROVE  States(messages, ev) =
           [n \in 0..Len(messages) |->
              IF n = 0 THEN Free ELSE Step(States(messages, ev)[n - 1], messages[n], ev)]
  <1>. DEFINE next(f, n) == IF n = 0 THEN Free ELSE Step(f[n - 1], messages[n], ev)
              defines(f, n) == f = [m \in 0..n |-> next(f, m)]
              bad == {n \in 0..Len(messages) : ~\E f : defines(f, n)}
  <1>1. Len(messages) \in Nat
    OBVIOUS
  <1>2. bad = {}
    <2>1. SUFFICES ASSUME bad # {} PROVE FALSE
      OBVIOUS
    <2>2. PICK n \in bad : \A x \in bad : n <= x
      <3>1. bad \in SUBSET Nat
        BY <1>1
      <3>. HIDE DEF bad
      <3>. QED
        BY <2>1, <3>1, LeastNat
    <2>3. CASE n = 0
      <3>. DEFINE f == [m \in 0..0 |-> Free]
      <3>1. defines(f, 0)
        OBVIOUS
      <3>. QED
        BY <2>2, <2>3, <3>1
    <2>4. CASE n # 0
      <3>1. n - 1 \in 0..Len(messages) /\ n - 1 \notin bad
        <4>1. n \in 0..Len(messages)
          OBVIOUS
        <4>2. n - 1 \in 0..Len(messages) /\ ~(n <= n - 1)
          BY <1>1, <2>4, <4>1
        <4>. HIDE DEF bad
        <4>. QED
          BY <2>2, <4>2
      <3>2. PICK f : defines(f, n - 1)
        BY <3>1
      <3>. DEFINE g == [m \in 0..n |-> IF m = n THEN next(f, n) ELSE f[m]]
      <3>3. n \in Nat /\ n # 0
        BY <1>1, <2>2, <2>4
      <3>4. \A m \in 0..(n - 1) : g[m] = f[m] /\ f[m] = next(f, m)
        BY <3>2, <3>3
      <3>5. \A m \in 0..n : g[m] = next(g, m)
        <4>1. TAKE m \in 0..n
        <4>2. CASE m = n
          BY <4>2, <3>3, <3>4
        <4>3. CASE m # n
          <5>1. m \in 0..(n - 1) /\ (m = 0 \/ m - 1 \in 0..(n - 1))
            BY <4>3, <3>3
          <5>2. next(g, m) = next(f, m)
            BY <5>1, <3>4
          <5>. QED
            BY <5>1, <5>2, <3>4
        <4>. QED
          BY <4>2, <4>3
      <3>6. defines(g, n)
        <4>. HIDE DEF next
        <4>. QED
          BY <3>5
      <3>. QED
        BY <3>6, <2>2
    <2>. QED
      BY <2>3, <2>4
  <1>3. PICK f : defines(f, Len(messages))
    BY <1>1, <1>2
  <1>4. States(messages, ev) = CHOOSE f2 : defines(f2, Len(messages))
    BY DEF States
  <1>5. defines(States(messages, ev), Len(messages))
    <2>. HIDE DEF defines
    <2>. QED
      BY <1>3, <1>4
  <1>. QED
    BY <1>5

\* What a replay is made of: where it starts, and each of its steps.
LEMMA StatesStep ==
  ASSUME NEW S, NEW messages \in Seq(S), NEW ev
  PROVE  /\ States(messages, ev)[0] = Free
         /\ \A n \in 1..Len(messages) :
              States(messages, ev)[n] = Step(States(messages, ev)[n - 1], messages[n], ev)
  <1>. DEFINE f == States(messages, ev)
              body(n) == IF n = 0 THEN Free ELSE Step(f[n - 1], messages[n], ev)
  <1>1. Len(messages) \in Nat
    OBVIOUS
  <1>2. f = [n \in 0..Len(messages) |-> body(n)]
    BY StatesAre
  <1>3. \A n \in 0..Len(messages) : f[n] = body(n)
    <2>. HIDE DEF f, body
    <2>. QED
      BY <1>2
  <1>. HIDE DEF f
  <1>4. f[0] = Free /\ \A n \in 1..Len(messages) : f[n] = Step(f[n - 1], messages[n], ev)
    BY <1>1, <1>3
  <1>. QED
    BY <1>4 DEF f

\* What holds at the start of a replay and after each step holds throughout.
LEMMA StatesFirst ==
  ASSUME NEW S, NEW messages \in Seq(S), NEW Good \in SUBSET (0..Len(messages)),
         NEW k \in 0..Len(messages), k \in Good,
         \A n \in (k + 1)..Len(messages) : n - 1 \in Good => n \in Good
  PROVE  \A n \in k..Len(messages) : n \in Good
  <1>. DEFINE bad == {n \in k..Len(messages) : n \notin Good}
  <1>1. SUFFICES ASSUME bad # {} PROVE FALSE
    OBVIOUS
  <1>2. Len(messages) \in Nat /\ k \in Nat
    OBVIOUS
  <1>3. PICK n \in bad : \A x \in bad : n <= x
    <2>1. bad \in SUBSET Nat
      BY <1>2
    <2>. HIDE DEF bad
    <2>. QED
      BY <1>1, <2>1, LeastNat
  <1>4. n \in (k + 1)..Len(messages) /\ n - 1 \in k..Len(messages) /\ ~(n <= n - 1)
    BY <1>2
  <1>5. n - 1 \notin bad
    <2>. HIDE DEF bad
    <2>. QED
      BY <1>3, <1>4
  <1>. QED
    BY <1>4, <1>5

\* A comment more does not change what came before it.
LEMMA StatesGrow ==
  ASSUME NEW S, NEW messages \in Seq(S), NEW m \in S, NEW ev
  PROVE  \A n \in 0..Len(messages) :
           States(Append(messages, m), ev)[n] = States(messages, ev)[n]
  <1>. DEFINE longer == Append(messages, m)
              Good == {n \in 0..Len(messages) : States(longer, ev)[n] = States(messages, ev)[n]}
  <1>1. /\ Len(messages) \in Nat /\ longer \in Seq(S) /\ Len(longer) = Len(messages) + 1
        /\ \A n \in 1..Len(messages) : longer[n] = messages[n]
    OBVIOUS
  <1>. HIDE DEF longer
  <1>2. 0 \in Good
    BY <1>1, StatesStep
  <1>3. ASSUME NEW n \in 1..Len(messages), n - 1 \in Good
        PROVE  n \in Good
    <2>1. n \in 1..Len(longer)
      BY <1>1
    <2>2. States(longer, ev)[n] = Step(States(longer, ev)[n - 1], longer[n], ev)
      BY <1>1, <2>1, StatesStep
    <2>3. States(messages, ev)[n] = Step(States(messages, ev)[n - 1], messages[n], ev)
      BY StatesStep
    <2>. QED
      BY <1>1, <1>3, <2>2, <2>3
  <1>. HIDE DEF Good
  <1>4. \A n \in 0..Len(messages) : n \in Good
    <2>1. Good \in SUBSET (0..Len(messages)) /\ 0 \in 0..Len(messages)
      BY <1>1 DEF Good
    <2>2. \A n \in (0 + 1)..Len(messages) : n - 1 \in Good => n \in Good
      BY <1>1, <1>3
    <2>. QED
      BY <1>2, <2>1, <2>2, StatesFirst
  <1>. QED
    BY <1>4 DEF Good, longer

-----------------------------------------------------------------------------
(***************************************************************************)
(* Two readers of the same comments.                                       *)
(***************************************************************************)
LEMMA EmptyStates ==
  /\ Free \in State /\ Free.last = 0 /\ Free.agent = Nobody
  /\ Refused \in State /\ Refused.last = 0 /\ Refused.agent = Nobody /\ Refused.refused
  <1>1. NoUntil \in Int
    BY DEF NoUntil
  <1>2. /\ Free \in State /\ Free.last = 0 /\ Free.agent = Nobody
    BY <1>1 DEF Free, State
  <1>. QED
    BY <1>2 DEF Refused, State

\* Each step leaves a state.
LEMMA StepTyped ==
  ASSUME NEW st \in State, NEW m \in Comment, NEW ev
  PROVE  /\ Step(st, m, ev) \in State
         /\ Step(st, m, ev).last \in {0, st.last, m.at}
  <1>1. Refused \in State /\ Refused.last = 0
    BY EmptyStates
  <1>2. Free \in State /\ Free.last = 0
    BY EmptyStates
  <1>3. HeldBy(m) \in State /\ HeldBy(m).last = m.at
    BY DEF HeldBy, State, Comment
  <1>4. /\ [st EXCEPT !.last = m.at] \in State
        /\ [st EXCEPT !.last = m.at].last = m.at
    BY DEF State, Comment
  <1>5. HeldStep(st, m, ev) \in {[st EXCEPT !.last = m.at], Free, HeldBy(m), Refused}
    BY DEF HeldStep
  <1>6. Step(st, m, ev) \in {st, HeldBy(m), Refused, HeldStep(st, m, ev)}
    BY DEF Step
  <1>. QED
    BY <1>1, <1>2, <1>3, <1>4, <1>5, <1>6

LEMMA StatesTyped ==
  ASSUME NEW messages \in Seq(Comment), NEW ev
  PROVE  \A n \in 0..Len(messages) : States(messages, ev)[n] \in State
  <1>. DEFINE Good == {n \in 0..Len(messages) : States(messages, ev)[n] \in State}
  <1>1. Len(messages) \in Nat
    OBVIOUS
  <1>2. 0 \in Good
    BY <1>1, StatesStep, EmptyStates
  <1>3. ASSUME NEW n \in (0 + 1)..Len(messages), n - 1 \in Good
        PROVE  n \in Good
    <2>1. n \in 1..Len(messages) /\ n \in 0..Len(messages) /\ messages[n] \in Comment
      BY <1>1
    <2>2. States(messages, ev)[n] = Step(States(messages, ev)[n - 1], messages[n], ev)
      BY <2>1, StatesStep
    <2>. QED
      BY <1>3, <2>1, <2>2, StepTyped
  <1>4. Good \in SUBSET (0..Len(messages)) /\ 0 \in 0..Len(messages)
    BY <1>1
  <1>. HIDE DEF Good
  <1>5. \A n \in 0..Len(messages) : n \in Good
    BY <1>2, <1>3, <1>4, StatesFirst
  <1>. QED
    BY <1>5 DEF Good

\* Where a thread is refused there is no answer.
LEMMA RefusedNamesNobody ==
  ASSUME NEW messages \in Seq(Comment), NEW ev
  PROVE  \A n \in 0..Len(messages) :
           States(messages, ev)[n].refused => States(messages, ev)[n].agent = Nobody
  <1>. DEFINE nobody(st) == st.refused => st.agent = Nobody
              Good == {n \in 0..Len(messages) : nobody(States(messages, ev)[n])}
  <1>1. Len(messages) \in Nat
    OBVIOUS
  <1>2. 0 \in Good
    BY <1>1, StatesStep, EmptyStates
  <1>3. ASSUME NEW st \in State, nobody(st), NEW m
        PROVE  nobody(Step(st, m, ev))
    <2>1. nobody(HeldBy(m)) /\ nobody(Free) /\ nobody(Refused)
      BY EmptyStates DEF HeldBy
    <2>2. nobody([st EXCEPT !.last = m.at])
      BY <1>3 DEF State
    <2>3. HeldStep(st, m, ev) \in {[st EXCEPT !.last = m.at], Free, HeldBy(m), Refused}
      BY DEF HeldStep
    <2>4. Step(st, m, ev) \in {st, HeldBy(m), Refused, HeldStep(st, m, ev)}
      BY DEF Step
    <2>. QED
      BY <1>3, <2>1, <2>2, <2>3, <2>4
  <1>4. ASSUME NEW n \in (0 + 1)..Len(messages), n - 1 \in Good
        PROVE  n \in Good
    <2>1. n \in 1..Len(messages) /\ n \in 0..Len(messages) /\ n - 1 \in 0..Len(messages)
      BY <1>1
    <2>2. States(messages, ev)[n] = Step(States(messages, ev)[n - 1], messages[n], ev)
      BY <2>1, StatesStep
    <2>3. States(messages, ev)[n - 1] \in State /\ nobody(States(messages, ev)[n - 1])
      BY <1>4, <2>1, StatesTyped
    <2>. HIDE DEF nobody
    <2>. QED
      BY <1>3, <2>1, <2>2, <2>3
  <1>5. Good \in SUBSET (0..Len(messages)) /\ 0 \in 0..Len(messages)
    BY <1>1
  <1>. HIDE DEF Good
  <1>6. \A n \in 0..Len(messages) : n \in Good
    BY <1>2, <1>4, <1>5, StatesFirst
  <1>. QED
    BY <1>6 DEF Good

\* A holder was last heard of before the comments that are still to be read.
LEMMA LastIsPast ==
  ASSUME NEW messages \in Seq(Comment), InOrder(messages), NEW ev
  PROVE  \A n \in 0..Len(messages) : \A j \in (n + 1)..Len(messages) :
           States(messages, ev)[n].last <= messages[j].at
  <1>. DEFINE Good == {n \in 0..Len(messages) : \A j \in (n + 1)..Len(messages) :
                         States(messages, ev)[n].last <= messages[j].at}
  <1>1. Len(messages) \in Nat /\ \A j \in 1..Len(messages) : messages[j].at \in Nat
    <2>1. Len(messages) \in Nat /\ \A j \in 1..Len(messages) : messages[j] \in Comment
      OBVIOUS
    <2>. QED
      BY <2>1 DEF Comment
  <1>2. 0 \in Good
    <2>1. States(messages, ev)[0].last = 0
      BY <1>1, StatesStep, EmptyStates
    <2>. QED
      BY <1>1, <2>1
  <1>3. ASSUME NEW n \in (0 + 1)..Len(messages), n - 1 \in Good
        PROVE  n \in Good
    <2>1. /\ n \in 1..Len(messages) /\ n - 1 \in 0..Len(messages)
          /\ messages[n] \in Comment /\ (n - 1) + 1 = n
      BY <1>1
    <2>2. States(messages, ev)[n - 1] \in State
      BY <2>1, StatesTyped
    <2>3. States(messages, ev)[n].last \in {0, States(messages, ev)[n - 1].last, messages[n].at}
      BY <2>1, <2>2, StatesStep, StepTyped
    <2>4. \A j \in (n + 1)..Len(messages) :
            /\ States(messages, ev)[n - 1].last <= messages[j].at
            /\ messages[n].at <= messages[j].at
            /\ 0 <= messages[j].at
      BY <1>1, <1>3, <2>1 DEF InOrder
    <2>. QED
      BY <2>1, <2>3, <2>4
  <1>4. Good \in SUBSET (0..Len(messages)) /\ 0 \in 0..Len(messages)
    BY <1>1
  <1>. HIDE DEF Good
  <1>5. \A n \in 0..Len(messages) : n \in Good
    BY <1>2, <1>3, <1>4, StatesFirst
  <1>. QED
    BY <1>5 DEF Good

\* Evidence decides whether there is an answer, never which.
LEMMA ReadersAgree ==
  ASSUME NEW messages \in Seq(Comment), NEW ev, NEW other
  PROVE  \A n \in 0..Len(messages) :
           \/ States(messages, ev)[n].refused
           \/ States(messages, other)[n].refused
           \/ States(messages, ev)[n] = States(messages, other)[n]
  <1>. DEFINE agree(n) == \/ States(messages, ev)[n].refused
                          \/ States(messages, other)[n].refused
                          \/ States(messages, ev)[n] = States(messages, other)[n]
              Good == {n \in 0..Len(messages) : agree(n)}
  <1>1. Len(messages) \in Nat
    OBVIOUS
  <1>2. 0 \in Good
    BY <1>1, StatesStep
  <1>3. ASSUME NEW n \in (0 + 1)..Len(messages), n - 1 \in Good
        PROVE  n \in Good
    <2>1. n \in 1..Len(messages) /\ n \in 0..Len(messages)
      BY <1>1
    <2>2. /\ States(messages, ev)[n] = Step(States(messages, ev)[n - 1], messages[n], ev)
          /\ States(messages, other)[n] = Step(States(messages, other)[n - 1], messages[n], other)
      BY <2>1, StatesStep
    <2>3. \A st, m, e : st.refused => Step(st, m, e) = st
      BY DEF Step
    <2>4. \A st, m : \/ Step(st, m, ev).refused
                     \/ Step(st, m, other).refused
                     \/ Step(st, m, ev) = Step(st, m, other)
      <3>. TAKE st, m
      <3>1. Refused.refused
        BY EmptyStates
      <3>2. \/ HeldStep(st, m, ev) = Refused
            \/ HeldStep(st, m, other) = Refused
            \/ HeldStep(st, m, ev) = HeldStep(st, m, other)
        BY DEF HeldStep
      <3>. QED
        BY <3>1, <3>2 DEF Step
    <2>5. agree(n)
      BY <1>3, <2>2, <2>3, <2>4
    <2>. QED
      BY <2>1, <2>5
  <1>4. Good \in SUBSET (0..Len(messages)) /\ 0 \in 0..Len(messages)
    BY <1>1
  <1>. HIDE DEF Good
  <1>5. \A n \in 0..Len(messages) : n \in Good
    BY <1>2, <1>3, <1>4, StatesFirst
  <1>. QED
    BY <1>5 DEF Good

-----------------------------------------------------------------------------
(***************************************************************************)
(* The holder.                                                             *)
(***************************************************************************)
\* st says that a holds the issue as long as held says at least.
Keeps(st, held) ==
  st.refused \/ (st.agent = held.agent /\ st.until = held.until /\ held.last <= st.last)

\* A comment does not take the issue from a holder that has not given it away and
\* whose lease is not over.
LEMMA CommentsTakeNothing ==
  ASSUME NEW t \in Nat, NEW m \in Comment, m.at <= t, NEW st \in State, NEW ev,
         NEW held \in State, held.agent \in Agents, ~Expired(held, t),
         Keeps(st, held), held.last <= m.at,
         m.agent = held.agent => m.op \notin {"handoff", "done"}
  PROVE  Keeps(Step(st, m, ev), held)
  <1>1. /\ m.at \in Nat /\ m.op \in Ops /\ st.last \in Nat /\ held.last \in Nat /\ held.until \in Int
        /\ Stale \in Nat /\ held.agent # Nobody
    BY BusAssumption DEF Comment, State
  <1>2. CASE st.refused
    BY <1>2 DEF Step, Keeps
  <1>3. CASE ~st.refused
    <2>1. st.agent = held.agent /\ st.until = held.until /\ held.last <= st.last
      BY <1>3 DEF Keeps
    <2>2. ~Expired(st, m.at) /\ ~(m.at - st.last >= Stale)
      BY <1>1, <2>1 DEF Expired
    <2>3. CASE m.op = "claim"
      BY <1>1, <1>3, <2>1, <2>2, <2>3 DEF Step, Keeps
    <2>4. CASE m.op # "claim"
      <3>1. Step(st, m, ev) = HeldStep(st, m, ev)
        BY <1>1, <1>3, <2>1, <2>4 DEF Step
      <3>2. HeldStep(st, m, ev) \in {[st EXCEPT !.last = m.at], Refused}
        <4>1. ~StealHolds(st, m, ev)
          BY <2>2 DEF StealHolds
        <4>2. m.op = "handoff" => m.agent # st.agent
          BY <2>1
        <4>3. m.op = "done" => ~DoneHolds(st, m, ev)
          BY <2>1 DEF DoneHolds
        <4>. QED
          BY <4>1, <4>2, <4>3 DEF HeldStep
      <3>3. Keeps(Refused, held)
        BY EmptyStates DEF Keeps
      <3>4. Keeps([st EXCEPT !.last = m.at], held)
        BY <2>1 DEF Keeps, State
      <3>. QED
        BY <3>1, <3>2, <3>3, <3>4
    <2>. QED
      BY <2>3, <2>4
  <1>. QED
    BY <1>2, <1>3

\* Who may go on by a reading of the first k comments holds the issue after each
\* comment since then, for every reader that gets an answer.
LEMMA HolderStays ==
  ASSUME BusTypeOK, InOrder(thread), Past,
         NEW a \in Agents, NEW k \in 0..Len(thread), NEW ev, NEW other,
         view[a] = States(thread, ev)[k], Quiet(a, k), Entitled(a)
  PROVE  \A n \in k..Len(thread) : Keeps(States(thread, other)[n], view[a])
  <1>. DEFINE Good == {n \in 0..Len(thread) : n >= k => Keeps(States(thread, other)[n], view[a])}
  <1>1. /\ thread \in Seq(Comment) /\ Len(thread) \in Nat /\ now \in Nat
        /\ \A n \in 1..Len(thread) : thread[n] \in Comment
    BY DEF BusTypeOK
  <1>2. view[a] \in State /\ view[a].agent = a /\ ~Expired(view[a], now) /\ a # Nobody
    BY BusAssumption DEF BusTypeOK, Entitled, Answer
  <1>3. k \in Good
    <2>1. ~States(thread, ev)[k].refused
      BY <1>1, <1>2, RefusedNamesNobody
    <2>2. \/ States(thread, other)[k].refused
          \/ States(thread, other)[k] = view[a]
      BY <1>1, <2>1, ReadersAgree
    <2>3. view[a].last <= view[a].last
      BY <1>2 DEF State
    <2>. QED
      BY <2>2, <2>3 DEF Keeps
  <1>4. ASSUME NEW n \in (k + 1)..Len(thread), n - 1 \in Good
        PROVE  n \in Good
    <2>1. /\ n \in 1..Len(thread) /\ n - 1 \in 0..Len(thread) /\ n \in 0..Len(thread) /\ n - 1 >= k
      BY <1>1
    <2>2. thread[n] \in Comment /\ thread[n].at <= now
      BY <1>1, <2>1 DEF Past
    <2>3. States(thread, other)[n - 1] \in State
      BY <1>1, <2>1, StatesTyped
    <2>4. view[a].last <= thread[n].at
      BY <1>1, LastIsPast
    <2>5. thread[n].agent = view[a].agent => thread[n].op \notin {"handoff", "done"}
      BY <1>2 DEF Quiet
    <2>6. Keeps(States(thread, other)[n - 1], view[a])
      BY <1>4, <2>1
    <2>7. Keeps(Step(States(thread, other)[n - 1], thread[n], other), view[a])
      BY <1>1, <1>2, <2>2, <2>3, <2>4, <2>5, <2>6, CommentsTakeNothing
    <2>8. States(thread, other)[n] = Step(States(thread, other)[n - 1], thread[n], other)
      BY <1>1, <2>1, StatesStep
    <2>. QED
      BY <2>1, <2>7, <2>8
  <1>5. Good \in SUBSET (0..Len(thread))
    OBVIOUS
  <1>. HIDE DEF Good
  <1>6. \A n \in k..Len(thread) : n \in Good
    BY <1>1, <1>3, <1>4, <1>5, StatesFirst
  <1>7. \A n \in k..Len(thread) : n >= k
    BY <1>1
  <1>. QED
    BY <1>6, <1>7 DEF Good

-----------------------------------------------------------------------------
(***************************************************************************)
(* The steps.                                                              *)
(***************************************************************************)
LEMMA BusInvStarts == Init => BusInv
  <1>. SUFFICES ASSUME Init PROVE BusInv
    OBVIOUS
  <1>. USE DEF Init
  <1>1. BusTypeOK
    BY EmptyStates DEF BusTypeOK, NoRun
  <1>2. InOrder(thread) /\ Past
    BY DEF InOrder, Past
  <1>3. ReadOnce
    BY EmptyStates, BusAssumption DEF ReadOnce
  <1>. QED
    BY <1>1, <1>2, <1>3 DEF BusInv

\* A comment of now, by whoever keeps or gives up the issue with it.
LEMMA PostStays ==
  ASSUME BusInv, NEW m \in Comment, m.at = now, thread' = Append(thread, m),
         now' = now, commits' = commits, ci' = ci,
         \/ view' = view /\ m.op \notin {"handoff", "done"}
         \/ view' = [view EXCEPT ![m.agent] = Free]
  PROVE  BusInv'
  <1>1. /\ thread \in Seq(Comment) /\ Len(thread) \in Nat /\ now \in Nat
        /\ view \in [Agents -> State] /\ m.agent \in Agents
    BY DEF BusInv, BusTypeOK, Comment
  <1>2. /\ thread' \in Seq(Comment) /\ Len(thread') = Len(thread) + 1
        /\ thread'[Len(thread) + 1] = m
        /\ \A i \in 1..Len(thread) : thread'[i] = thread[i]
    BY <1>1
  <1>3. view' \in [Agents -> State]
    BY <1>1, EmptyStates
  <1>4. BusTypeOK'
    BY <1>2, <1>3 DEF BusInv, BusTypeOK
  <1>5. Past'
    BY <1>1, <1>2 DEF BusInv, Past
  <1>6. InOrder(thread')
    <2>1. \A i \in 1..Len(thread') : thread'[i].at <= now
      BY <1>5 DEF Past
    <2>2. ASSUME NEW i \in 1..Len(thread'), NEW j \in 1..Len(thread'), i <= j
          PROVE  thread'[i].at <= thread'[j].at
      <3>1. CASE j = Len(thread) + 1
        BY <1>2, <2>1, <3>1
      <3>2. CASE j # Len(thread) + 1
        <4>1. i \in 1..Len(thread) /\ j \in 1..Len(thread)
          BY <1>1, <1>2, <2>2, <3>2
        <4>. QED
          BY <1>2, <2>2, <4>1 DEF BusInv, InOrder
      <3>. QED
        BY <3>1, <3>2
    <2>. QED
      BY <2>2 DEF InOrder
  <1>7. ReadOnce'
    <2>1. SUFFICES ASSUME NEW a \in Agents, view'[a].agent = a
                   PROVE  \E k \in 0..Len(thread') : \E ev :
                            view'[a] = States(thread', ev)[k] /\ Quiet(a, k)'
      BY DEF ReadOnce
    <2>2. /\ view'[a] = view[a]
          /\ m.agent = a => m.op \notin {"handoff", "done"}
      BY <1>1, <2>1, EmptyStates, BusAssumption
    <2>3. PICK k \in 0..Len(thread) : \E ev : view[a] = States(thread, ev)[k] /\ Quiet(a, k)
      BY <2>1, <2>2 DEF BusInv, ReadOnce
    <2>4. PICK ev : view[a] = States(thread, ev)[k] /\ Quiet(a, k)
      BY <2>3
    <2>5. States(thread', ev)[k] = States(thread, ev)[k]
      BY <1>1, StatesGrow
    <2>6. Quiet(a, k)'
      BY <1>1, <1>2, <2>2, <2>4 DEF Quiet
    <2>7. k \in 0..Len(thread')
      BY <1>1, <1>2
    <2>. QED
      BY <2>2, <2>4, <2>5, <2>6, <2>7
  <1>. QED
    BY <1>4, <1>5, <1>6, <1>7 DEF BusInv

\* What is posted is a comment.
LEMMA MessageIsComment ==
  ASSUME now \in Nat, NEW op \in Ops, NEW a \in Agents, NEW b \in Branches,
         NEW until \in Int, NEW sha \in Int
  PROVE  /\ Message(op, a, b, until, sha) \in Comment
         /\ Message(op, a, b, until, sha).at = now
         /\ Message(op, a, b, until, sha).op = op
         /\ Message(op, a, b, until, sha).agent = a
  BY DEF Message, Comment

LEMMA BusInvStays == BusInv /\ [Next]_vars => BusInv'
  <1>. SUFFICES ASSUME BusInv, [Next]_vars PROVE BusInv'
    OBVIOUS
  <1>1. /\ thread \in Seq(Comment) /\ Len(thread) \in Nat /\ now \in Nat /\ ci.head \in Int
        /\ view \in [Agents -> State] /\ commits \in [Branches -> Nat] /\ NoUntil \in Int
    BY DEF BusInv, BusTypeOK, NoUntil
  <1>2. ASSUME NEW a \in Agents PROVE view[a].branch \subseteq Branches
    BY <1>1 DEF State
  <1>3. ASSUME NEW a \in Agents, Read(a) PROVE BusInv'
    <2>1. PICK ev : view' = [view EXCEPT ![a] = Replay(thread, ev)]
      BY <1>3 DEF Read
    <2>2. thread' = thread /\ now' = now /\ commits' = commits /\ ci' = ci
      BY <1>3 DEF Read
    <2>3. Replay(thread, ev) = States(thread, ev)[Len(thread)] /\ Replay(thread, ev) \in State
      BY <1>1, StatesTyped DEF Replay
    <2>4. BusTypeOK'
      BY <1>1, <2>1, <2>2, <2>3 DEF BusInv, BusTypeOK
    <2>5. ASSUME NEW b \in Agents, view'[b].agent = b
          PROVE  \E k \in 0..Len(thread) : \E e : view'[b] = States(thread, e)[k] /\ Quiet(b, k)
      <3>1. CASE b = a
        <4>1. Quiet(a, Len(thread))
          BY <1>1 DEF Quiet
        <4>2. view'[a] = States(thread, ev)[Len(thread)] /\ Len(thread) \in 0..Len(thread)
          BY <1>1, <2>1, <2>3
        <4>. QED
          BY <3>1, <4>1, <4>2
      <3>2. CASE b # a
        BY <1>1, <2>1, <2>5, <3>2 DEF BusInv, ReadOnce
      <3>. QED
        BY <3>1, <3>2
    <2>. QED
      BY <2>2, <2>4, <2>5 DEF BusInv, ReadOnce, Quiet, InOrder, Past
  <1>4. ASSUME NEW a \in Agents, Claim(a) PROVE BusInv'
    <2>1. PICK b \in Branches, d \in Leases : Post(Message("claim", a, b, now + d, 0))
      BY <1>4 DEF Claim
    <2>2. now + d \in Int /\ "claim" \in Ops
      BY <1>1, BusAssumption DEF Ops
    <2>. QED
      BY <1>1, <1>4, <2>1, <2>2, MessageIsComment, PostStays DEF Claim, Post
  <1>5. ASSUME NEW a \in Agents, Heartbeat(a) PROVE BusInv'
    <2>1. PICK b \in Branches : Post(Message("heartbeat", a, b, NoUntil, 0))
      BY <1>2, <1>5 DEF Heartbeat
    <2>2. "heartbeat" \in Ops
      BY DEF Ops
    <2>. QED
      BY <1>1, <1>5, <2>1, <2>2, MessageIsComment, PostStays DEF Heartbeat, Post
  <1>6. ASSUME NEW a \in Agents, Steal(a) PROVE BusInv'
    <2>1. PICK b \in Branches : Post(Message("steal", a, b, NoUntil, 0))
      BY <1>2, <1>6 DEF Steal
    <2>2. "steal" \in Ops
      BY DEF Ops
    <2>. QED
      BY <1>1, <1>6, <2>1, <2>2, MessageIsComment, PostStays DEF Steal, Post
  <1>7. ASSUME NEW a \in Agents, Handoff(a) PROVE BusInv'
    <2>1. PICK b \in Branches : Post(Message("handoff", a, b, NoUntil, commits[b]))
      BY <1>2, <1>7 DEF Handoff
    <2>2. "handoff" \in Ops /\ commits[b] \in Int
      BY <1>1 DEF Ops
    <2>. DEFINE m == Message("handoff", a, b, NoUntil, commits[b])
    <2>3. m \in Comment /\ m.at = now /\ m.agent = a
      BY <1>1, <2>2, MessageIsComment
    <2>4. thread' = Append(thread, m) /\ view' = [view EXCEPT ![m.agent] = Free]
      BY <1>7, <2>1, <2>3 DEF Handoff, Post
    <2>5. now' = now /\ commits' = commits /\ ci' = ci
      BY <1>7 DEF Handoff
    <2>. HIDE DEF m
    <2>. QED
      BY <2>3, <2>4, <2>5, PostStays
  <1>8. ASSUME NEW a \in Agents, Done(a) PROVE BusInv'
    <2>1. PICK b \in Branches : Post(Message("done", a, b, NoUntil, ci.head))
      BY <1>2, <1>8 DEF Done
    <2>2. "done" \in Ops
      BY DEF Ops
    <2>. QED
      BY <1>1, <1>8, <2>1, <2>2, MessageIsComment, PostStays DEF Done, Post
  <1>9. ASSUME BusTypeOK', thread' = thread, view' = view, now <= now' PROVE BusInv'
    <2>1. Past'
      <3>1. now' \in Nat /\ \A i \in 1..Len(thread) : thread[i] \in Comment
        BY <1>1, <1>9 DEF BusTypeOK
      <3>2. \A i \in 1..Len(thread) : thread[i].at \in Nat
        BY <3>1 DEF Comment
      <3>. QED
        BY <1>1, <1>9, <3>1, <3>2 DEF BusInv, Past
    <2>. QED
      BY <1>9, <2>1 DEF BusInv, ReadOnce, Quiet, InOrder
  <1>10. ASSUME NEW a \in Agents, Commit(a) PROVE BusInv'
    <2>1. thread' = thread /\ view' = view /\ now' = now /\ ci' = ci
      BY <1>10 DEF Commit
    <2>2. PICK b \in Branches : commits' = [commits EXCEPT ![b] = @ + 1]
      BY <1>2, <1>10 DEF Commit
    <2>3. commits' \in [Branches -> Nat]
      BY <1>1, <2>2
    <2>4. BusTypeOK'
      BY <2>1, <2>3 DEF BusInv, BusTypeOK
    <2>5. now <= now'
      BY <1>1, <2>1
    <2>. QED
      BY <1>9, <2>1, <2>4, <2>5
  <1>11. CASE RunCI
    BY <1>1, <1>9, <1>11 DEF RunCI, BusInv, BusTypeOK
  <1>12. CASE Tick
    BY <1>1, <1>9, <1>12 DEF Tick, BusInv, BusTypeOK
  <1>13. CASE UNCHANGED vars
    BY <1>1, <1>9, <1>13 DEF vars, BusInv, BusTypeOK
  <1>. QED
    BY <1>3, <1>4, <1>5, <1>6, <1>7, <1>8, <1>10, <1>11, <1>12, <1>13 DEF Next

-----------------------------------------------------------------------------
(***************************************************************************)
(* What follows.                                                           *)
(***************************************************************************)
LEMMA OneFollows == BusInv => OneEntitled
  <1>. SUFFICES ASSUME BusInv, NEW a \in Agents, NEW b \in Agents, Entitled(a), Entitled(b)
                PROVE  a = b
    BY DEF OneEntitled
  <1>1. view[a].agent = a /\ view[b].agent = b /\ a # Nobody /\ b # Nobody
    BY BusAssumption DEF Entitled, Answer
  <1>2. PICK i \in 0..Len(thread) : \E ev : view[a] = States(thread, ev)[i] /\ Quiet(a, i)
    BY <1>1 DEF BusInv, ReadOnce
  <1>3. PICK j \in 0..Len(thread) : \E ev : view[b] = States(thread, ev)[j] /\ Quiet(b, j)
    BY <1>1 DEF BusInv, ReadOnce
  <1>4. PICK ea : view[a] = States(thread, ea)[i] /\ Quiet(a, i)
    BY <1>2
  <1>5. PICK eb : view[b] = States(thread, eb)[j] /\ Quiet(b, j)
    BY <1>3
  <1>6. thread \in Seq(Comment)
    BY DEF BusInv, BusTypeOK
  <1>7. ~view[a].refused /\ ~view[b].refused
    BY <1>1, <1>4, <1>5, <1>6, RefusedNamesNobody
  <1>8. CASE i <= j
    <2>1. Keeps(view[b], view[a])
      BY <1>4, <1>5, <1>8, HolderStays DEF BusInv
    <2>. QED
      BY <1>1, <1>7, <2>1 DEF Keeps
  <1>9. CASE j <= i
    <2>1. Keeps(view[a], view[b])
      BY <1>4, <1>5, <1>9, HolderStays DEF BusInv
    <2>. QED
      BY <1>1, <1>7, <2>1 DEF Keeps
  <1>10. i <= j \/ j <= i
    OBVIOUS
  <1>. QED
    BY <1>8, <1>9, <1>10

LEMMA BeliefFollows == BusInv => BeliefIsTrue
  <1>. SUFFICES ASSUME BusInv, NEW a \in Agents, NEW other \in Evidence, Entitled(a)
                PROVE  Replay(thread, other).refused \/ Replay(thread, other).agent = a
    BY DEF BeliefIsTrue
  <1>1. view[a].agent = a
    BY BusAssumption DEF Entitled, Answer
  <1>2. PICK k \in 0..Len(thread) : \E ev : view[a] = States(thread, ev)[k] /\ Quiet(a, k)
    BY <1>1 DEF BusInv, ReadOnce
  <1>3. PICK ev : view[a] = States(thread, ev)[k] /\ Quiet(a, k)
    BY <1>2
  <1>4. Len(thread) \in k..Len(thread)
    BY DEF BusInv, BusTypeOK
  <1>5. Keeps(States(thread, other)[Len(thread)], view[a])
    BY <1>3, <1>4, HolderStays DEF BusInv
  <1>. QED
    BY <1>1, <1>5 DEF Keeps, Replay

\* However many agents read, post and commit in whatever order, and however old
\* their readings are, no two of them take themselves for the holder at once.
THEOREM OneAgentWorks == Spec => []OneEntitled
  BY BusInvStarts, BusInvStays, OneFollows, PTL DEF Spec

\* Whoever may go on by its last reading is the holder for every reader that gets
\* an answer, whatever evidence of runs and commits that reader has.
THEOREM BeliefsHold == Spec => []BeliefIsTrue
  BY BusInvStarts, BusInvStays, BeliefFollows, PTL DEF Spec

\* A thread that is not refused reports nobody just when a claim posted now
\* would be accepted.  Replay and report ask the same question, _expired, at the
\* same moment, so that this needs no invariant.
THEOREM FreeIsClaimable == Spec => []FreeMeansClaimable
  <1>1. ASSUME NEW st, ~st.refused, NEW a \in Agents, NEW b \in Branches,
               st.agent # a, NEW ev
        PROVE  LET m == Message("claim", a, b, now + 1, 0)
               IN Answer(st) = Nobody <=> Step(st, m, ev).agent = a
    <2>. DEFINE m == Message("claim", a, b, now + 1, 0)
    <2>1. m.op = "claim" /\ m.agent = a /\ m.at = now
      BY DEF Message
    <2>. HIDE DEF m
    <2>2. Step(st, m, ev) = IF st.agent = Nobody \/ Expired(st, now) THEN HeldBy(m) ELSE st
      BY <1>1, <2>1 DEF Step
    <2>3. HeldBy(m).agent = a
      BY <2>1 DEF HeldBy
    <2>4. Answer(st) = Nobody <=> st.agent = Nobody \/ Expired(st, now)
      BY DEF Answer
    <2>. QED
      BY <1>1, <2>2, <2>3, <2>4 DEF m
  <1>2. FreeMeansClaimable
    BY <1>1, BusAssumption DEF FreeMeansClaimable
  <1>. QED
    BY <1>2, PTL
=============================================================================
