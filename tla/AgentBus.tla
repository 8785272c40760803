------------------------------ MODULE AgentBus ------------------------------
(***************************************************************************)
(* tools/agent_bus.py: agents share out the work on one issue by comments  *)
(* that are never changed.  Whoever wants to know who holds the issue      *)
(* replays the comments in order (inspect_thread), with what evidence it   *)
(* has at hand of CI runs and of commits on the branch.  Agents read,      *)
(* decide and post at different times, and each goes by its last reading.  *)
(***************************************************************************)
EXTENDS Integers, Sequences

CONSTANTS Agents,
          Nobody,      \* the holder is None
          Branches,
          Stale,       \* _STALE_HOURS, in the unit of the clock
          Leases,      \* how far ahead the `until` of a claim may be
          MaxNow,      \* bound on the clock
          MaxThread,   \* bound on the comments
          MaxCommits   \* bound on the commits of a branch

ASSUME BusAssumption == /\ Nobody \notin Agents
                         /\ Stale \in Nat \ {0}
                         /\ Leases \subseteq Nat

VARIABLES now,      \* the clock
          thread,   \* the comments, in the order of createdAt
          commits,  \* branch -> commits on it that main does not have
          ci,       \* the last CI run, or NoRun
          view      \* agent -> what its last reading left it with

vars == <<now, thread, commits, ci, view>>

NoUntil   == -1    \* a steal need not say until when
NoRun     == [head |-> -1, passed |-> FALSE]
NoCompare == -1

Message(op, a, b, until, sha) ==
  [op |-> op, agent |-> a, branch |-> b, until |-> until, sha |-> sha, at |-> now]

-----------------------------------------------------------------------------
(***************************************************************************)
(* inspect_thread.  A replay in progress is the message that holds the     *)
(* issue, when its holder was last heard of, and whether the thread was    *)
(* refused.                                                                *)
(***************************************************************************)
Free == [agent |-> Nobody, branch |-> {}, until |-> NoUntil, last |-> 0, refused |-> FALSE]

Refused == [Free EXCEPT !.refused = TRUE]

HeldBy(m) ==
  [agent |-> m.agent, branch |-> {m.branch}, until |-> m.until, last |-> m.at, refused |-> FALSE]

\* A mutant: a holder is still one when it was heard of just six hours ago.
ExpiredLater(st, t) == (st.until # NoUntil /\ t > st.until) \/ t - st.last > Stale

\* _expired.
Expired(st, t) == (st.until # NoUntil /\ t > st.until) \/ t - st.last >= Stale

StealHolds(st, m, ev) ==
  /\ {m.branch} = st.branch
  /\ m.agent # st.agent
  /\ m.at - st.last >= Stale
  /\ ev.ahead = 0

DoneHolds(st, m, ev) ==
  /\ m.agent = st.agent
  /\ ev.run.passed
  /\ ev.run.head = m.sha

\* What a message of the holder, or one that wants its place, does.
HeldStep(st, m, ev) ==
  CASE m.op = "heartbeat" /\ m.agent = st.agent -> [st EXCEPT !.last = m.at]
    [] m.op = "handoff" /\ m.agent = st.agent   -> Free
    [] m.op = "steal" /\ StealHolds(st, m, ev)  -> HeldBy(m)
    [] m.op = "done" /\ DoneHolds(st, m, ev)    -> Free
    [] OTHER                                    -> Refused

\* A mutant: the last claim counts, not the first.
StepLastClaim(st, m, ev) ==
  IF st.refused THEN st
  ELSE IF m.op = "claim" THEN HeldBy(m)
  ELSE IF st.agent = Nobody THEN Refused ELSE HeldStep(st, m, ev)

\* A claim on an issue that is held is passed over; anything else needs a holder.
Step(st, m, ev) ==
  IF st.refused THEN st
  ELSE IF m.op = "claim"
       THEN IF st.agent = Nobody \/ Expired(st, m.at) THEN HeldBy(m) ELSE st
  ELSE IF st.agent = Nobody THEN Refused ELSE HeldStep(st, m, ev)

\* The state after each of the comments, and after the last one.
States(messages, ev) ==
  LET state[n \in 0..Len(messages)] ==
        IF n = 0 THEN Free ELSE Step(state[n - 1], messages[n], ev)
  IN state

Replay(messages, ev) == States(messages, ev)[Len(messages)]

\* A mutant: an expired lease is still reported.
AnswerLate(st) == st.agent

\* The holder that is reported: none when the lease is over by now.
Answer(st) == IF st.agent = Nobody \/ Expired(st, now) THEN Nobody ELSE st.agent

\* What a reader may hand in: a comparison of some branch with main or none,
\* the last run or none.  run_failure_reason is the flag `passed` of a run.
Evidence ==
  [ahead : {NoCompare} \cup {commits[b] : b \in Branches}, run : {NoRun, ci}]

-----------------------------------------------------------------------------
(***************************************************************************)
(* The agents.  An agent acts on its last reading, however old it is, and  *)
(* every comment is one that validate_object accepts.                      *)
(***************************************************************************)
Entitled(a) == Answer(view[a]) = a

Post(m) == /\ Len(thread) < MaxThread
           /\ thread' = Append(thread, m)

Init == /\ now = 0
        /\ thread = <<>>
        /\ commits = [b \in Branches |-> 0]
        /\ ci = NoRun
        /\ view = [a \in Agents |-> Free]

Read(a) ==
  /\ \E ev \in Evidence : view' = [view EXCEPT ![a] = Replay(thread, ev)]
  /\ UNCHANGED <<now, thread, commits, ci>>

Claim(a) ==
  /\ ~Entitled(a)
  /\ \E b \in Branches, d \in Leases : Post(Message("claim", a, b, now + d, 0))
  /\ UNCHANGED <<now, commits, ci, view>>

\* A heartbeat, or a note that the work is blocked, of an agent that was the
\* holder when it last looked.
Heartbeat(a) ==
  /\ view[a].agent = a
  /\ \E b \in view[a].branch : Post(Message("heartbeat", a, b, NoUntil, 0))
  /\ UNCHANGED <<now, commits, ci, view>>

Handoff(a) ==
  /\ view[a].agent = a
  /\ \E b \in view[a].branch : Post(Message("handoff", a, b, NoUntil, commits[b]))
  /\ view' = [view EXCEPT ![a] = Free]
  /\ UNCHANGED <<now, commits, ci>>

\* validate_object: six stale hours and no commits since the claim.
Steal(a) ==
  /\ view[a].agent \in Agents \ {a}
  /\ now - view[a].last >= Stale
  /\ \E b \in view[a].branch :
       /\ commits[b] = 0
       /\ Post(Message("steal", a, b, NoUntil, 0))
  /\ UNCHANGED <<now, commits, ci, view>>

Done(a) ==
  /\ view[a].agent = a
  /\ ci.passed
  /\ \E b \in view[a].branch : Post(Message("done", a, b, NoUntil, ci.head))
  /\ view' = [view EXCEPT ![a] = Free]
  /\ UNCHANGED <<now, commits, ci>>

\* Whoever is entitled to the issue works on its branch.
Commit(a) ==
  /\ Entitled(a)
  /\ \E b \in view[a].branch :
       /\ commits[b] < MaxCommits
       /\ commits' = [commits EXCEPT ![b] = @ + 1]
  /\ UNCHANGED <<now, thread, ci, view>>

RunCI ==
  /\ \E b \in Branches, ok \in BOOLEAN :
       /\ commits[b] > 0
       /\ ci' = [head |-> commits[b], passed |-> ok]
  /\ UNCHANGED <<now, thread, commits, view>>

Tick ==
  /\ now < MaxNow
  /\ now' = now + 1
  /\ UNCHANGED <<thread, commits, ci, view>>

Next ==
  \/ \E a \in Agents : Read(a) \/ Claim(a) \/ Heartbeat(a) \/ Handoff(a)
                         \/ Steal(a) \/ Done(a) \/ Commit(a)
  \/ RunCI
  \/ Tick

Spec == Init /\ [][Next]_vars

-----------------------------------------------------------------------------
(***************************************************************************)
(* Properties.                                                             *)
(***************************************************************************)
\* Two agents never work on the issue at once: between them no reading is so
\* old, no heartbeat so late and no takeover so early that both may go on.
OneEntitled == \A a, b \in Agents : Entitled(a) /\ Entitled(b) => a = b

\* Whoever may go on by its last reading is the holder for every reader of the
\* thread as it is by now, whatever evidence that reader has, unless the thread
\* is refused: evidence decides whether there is an answer, never which.
BeliefIsTrue ==
  \A a \in Agents, ev \in Evidence :
    Entitled(a) => LET st == Replay(thread, ev) IN st.refused \/ st.agent = a

\* A thread that is not refused reports nobody just when a claim posted now by
\* someone else than the last holder would be accepted: the issue is never held
\* by one who is not reported, nor free to take from one who is.
FreeMeansClaimable ==
  \A ev \in Evidence, a \in Agents, b \in Branches :
    LET st == Replay(thread, ev)
        after == Step(st, Message("claim", a, b, now + 1, 0), ev)
    IN ~st.refused /\ st.agent # a => (Answer(st) = Nobody <=> after.agent = a)

=============================================================================
