---------------------------- MODULE DecisionLog ----------------------------
(***************************************************************************)
(* decision_log.py: operators' decisions, one sealed JSON record a line,   *)
(* each bound to the one before by its hash.  Several processes append to  *)
(* one file under a lock file.  Any of them may die at any moment, and any *)
(* write may fail.                                                         *)
(*                                                                         *)
(* A record's hash covers its content and the previous hash, so it is      *)
(* given here as the sequence of all decisions up to it: equal hashes mean *)
(* equal histories.                                                        *)
(***************************************************************************)
EXTENDS Naturals, Sequences

CONSTANTS Procs,       \* the processes that append decisions
          Free,        \* no process: the lock file does not exist
          Split,       \* decisions with a text that str.splitlines breaks
          MaxEvents,   \* bound on the number of decisions made
          MaxRetries,  \* bound on the calls that are made again
          Careless     \* the operator may remove the lock of a live process

ASSUME ProcsAssumption == Free \notin Procs
ASSUME MaxEventsAssumption == MaxEvents \in Nat
ASSUME MaxRetriesAssumption == MaxRetries \in Nat
ASSUME CarelessAssumption == Careless \in BOOLEAN

VARIABLES lines,   \* the lines of the file that end in a newline
          rest,    \* what follows the last newline
          lock,    \* who created the lock file, or Free
          pc,      \* where each process is
          event,   \* the decision each process is to append
          tip,     \* the hash each process read as the last one
          made,    \* how many decisions there were
          retries, \* how many calls were made again
          acked,   \* the decisions append_decision returned for
          unsure,  \* those on record of which no caller was told (a history variable)
          cut      \* some write was cut short (a history variable)

fileVars   == <<lines, rest, cut>>
callVars   == <<event, tip, made, retries>>
answerVars == <<acked, unsure>>
vars == <<fileVars, lock, pc, callVars, answerVars>>

Genesis == <<>>
Bad     == [ok |-> FALSE]     \* not one JSON object with its chain fields
Nothing == [ok |-> TRUE, is |-> "nothing"]

\* A mutant: the chain fields that the caller passed are kept.
SealUnbound(e, prev) ==
  [ok |-> TRUE, is |-> "record", event |-> e, prev |-> Genesis, hash |-> <<e>>]

\* seal_event.
Seal(e, prev) == [ok |-> TRUE, is |-> "record", event |-> e, prev |-> prev, hash |-> Append(prev, e)]

-----------------------------------------------------------------------------
(***************************************************************************)
(* _load and _verify_chain.  The last line counts with or without its      *)
(* newline.                                                                *)
(***************************************************************************)
AllLines == IF rest = Nothing THEN lines ELSE Append(lines, rest)

LastHash(ls) == IF ls = <<>> THEN Genesis ELSE ls[Len(ls)].hash

\* Line i is a record bound to the line before it.
Linked(ls, i) ==
  /\ ls[i].ok
  /\ ls[i].prev = (IF i = 1 THEN Genesis ELSE ls[i - 1].hash)
  /\ ls[i].hash = Append(ls[i].prev, ls[i].event)

Readable == \A i \in 1..Len(AllLines) : Linked(AllLines, i)

OnRecord(e) == \E i \in 1..Len(lines) : lines[i].ok /\ lines[i].event = e

\* _append_line: one write after whatever the file ends in.
Written(e, prev) ==
  IF rest = Nothing /\ e \notin Split THEN Seal(e, prev) ELSE Bad

-----------------------------------------------------------------------------
Init == /\ lines = <<>>
        /\ rest = Nothing
        /\ lock = Free
        /\ pc = [p \in Procs |-> "idle"]
        /\ event = [p \in Procs |-> 0]
        /\ tip = [p \in Procs |-> Genesis]
        /\ made = 0
        /\ retries = 0
        /\ acked = {}
        /\ unsure = {}
        /\ cut = FALSE

Goto(p, from, to) == pc[p] = from /\ pc' = [pc EXCEPT ![p] = to]

\* A mutant: a decision is numbered but not counted.
CallUncounted(p) ==
  /\ made < MaxEvents
  /\ Goto(p, "idle", "waiting")
  /\ event' = [event EXCEPT ![p] = made + 1]
  /\ UNCHANGED <<fileVars, lock, made, retries, tip, answerVars>>

\* A decision is made and append_decision is called.
Call(p) ==
  /\ made < MaxEvents
  /\ Goto(p, "idle", "waiting")
  /\ made' = made + 1
  /\ event' = [event EXCEPT ![p] = made + 1]
  /\ UNCHANGED <<fileVars, lock, retries, tip, answerVars>>

\* A caller that got an error, or died, calls again with the same decision.
CallAgain(p) ==
  /\ event[p] # 0 /\ event[p] \notin acked
  /\ retries < MaxRetries
  /\ Goto(p, "idle", "waiting")
  /\ retries' = retries + 1
  /\ UNCHANGED <<fileVars, lock, event, made, tip, answerVars>>

\* A mutant: the lock file is opened without O_EXCL.
AcquireShared(p) ==
  /\ Goto(p, "waiting", "locked")
  /\ lock' = p
  /\ UNCHANGED <<fileVars, callVars, answerVars>>

\* _acquire_lock: O_CREAT | O_EXCL succeeds ...
Acquire(p) ==
  /\ lock = Free
  /\ Goto(p, "waiting", "locked")
  /\ lock' = p
  /\ UNCHANGED <<fileVars, callVars, answerVars>>

\* A mutant: the wait for the lock has no deadline.
TimeOutNever(p) ==
  /\ lock # Free
  /\ UNCHANGED vars

\* ... or the file exists until the deadline.
TimeOut(p) ==
  /\ lock # Free
  /\ Goto(p, "waiting", "idle")
  /\ UNCHANGED <<fileVars, callVars, lock, answerVars>>

\* A mutant: the hash of the last record is read, and nothing else.
LoadTail(p) ==
  /\ Goto(p, "locked", "loaded")
  /\ tip' = [tip EXCEPT ![p] = IF Readable THEN LastHash(AllLines) ELSE Genesis]
  /\ UNCHANGED <<fileVars, lock, event, made, retries, answerVars>>

Load(p) ==
  /\ Readable
  /\ Goto(p, "locked", "loaded")
  /\ tip' = [tip EXCEPT ![p] = LastHash(AllLines)]
  /\ UNCHANGED <<fileVars, lock, event, made, retries, answerVars>>

\* A malformed history raises; the lock is released.
Refuse(p) ==
  /\ ~Readable
  /\ Goto(p, "locked", "idle")
  /\ lock' = Free
  /\ UNCHANGED <<fileVars, callVars, answerVars>>

\* write, flush and fsync have returned: the record is on disk.
WriteLine(p) ==
  /\ Goto(p, "loaded", "written")
  /\ lines' = Append(lines, Written(event[p], tip[p]))
  /\ rest' = Nothing
  /\ UNCHANGED <<callVars, lock, answerVars, cut>>

\* The lock file is removed by its path, and append_decision returns.
Return(p) ==
  /\ Goto(p, "written", "idle")
  /\ lock' = Free
  /\ acked' = acked \cup {event[p]}
  /\ unsure' = unsure \ {event[p]}
  /\ UNCHANGED <<fileVars, callVars>>

-----------------------------------------------------------------------------
(***************************************************************************)
(* Failures.  A write cut short leaves a part of the line, or all of it    *)
(* but the newline; if the process lives, it raises and gives the lock     *)
(* back.  A process that dies leaves the lock file behind.                 *)
(***************************************************************************)
CutShort(p) ==
  /\ rest' \in {Bad, Written(event[p], tip[p])}
  /\ cut' = TRUE
  /\ UNCHANGED <<lines, callVars, answerVars>>

WriteFails(p) == CutShort(p) /\ Goto(p, "loaded", "idle") /\ lock' = Free

DieWriting(p) == CutShort(p) /\ Goto(p, "loaded", "dead") /\ UNCHANGED lock

\* The call ends without an answer, whether its record is there or not.
Unanswered(p) ==
  /\ unsure' = unsure \cup {e \in {event[p]} : OnRecord(e)}
  /\ UNCHANGED acked

\* A mutant: a record that could not be synced is written once more.
SyncFailsRewrite(p) ==
  /\ Goto(p, "written", "loaded")
  /\ UNCHANGED <<fileVars, callVars, lock, answerVars>>

\* The record is on disk but fsync fails.
SyncFails(p) ==
  /\ Goto(p, "written", "idle")
  /\ lock' = Free
  /\ Unanswered(p)
  /\ UNCHANGED <<fileVars, callVars>>

Die(p) ==
  /\ \E at \in {"waiting", "locked", "loaded", "written"} : Goto(p, at, "dead")
  /\ Unanswered(p)
  /\ UNCHANGED <<fileVars, callVars, lock>>

\* The dead process is started again.
Restart(p) ==
  /\ Goto(p, "dead", "idle")
  /\ UNCHANGED <<fileVars, callVars, lock, answerVars>>

Holding == {"locked", "loaded", "written"}

\* Nothing in the code breaks a stale lock: the operator removes the file, once
\* no live process holds it or, if careless, at any time.
RemoveLock ==
  /\ lock # Free
  /\ Careless \/ pc[lock] \notin Holding
  /\ lock' = Free
  /\ UNCHANGED <<fileVars, callVars, pc, answerVars>>

-----------------------------------------------------------------------------
Step(p) == \/ Call(p) \/ CallAgain(p) \/ Acquire(p) \/ TimeOut(p) \/ Load(p) \/ Refuse(p)
           \/ WriteLine(p) \/ Return(p)
           \/ WriteFails(p) \/ SyncFails(p) \/ DieWriting(p) \/ Die(p) \/ Restart(p)

Next == (\E p \in Procs : Step(p)) \/ RemoveLock

Spec == Init /\ [][Next]_vars

\* A call that is not killed runs on: the file operations return and the wait
\* for the lock ends at its deadline.
RunOn(p) == Acquire(p) \/ TimeOut(p) \/ Load(p) \/ Refuse(p) \/ WriteLine(p) \/ Return(p)

FairSpec == Spec /\ \A p \in Procs : WF_vars(RunOn(p))

-----------------------------------------------------------------------------
(***************************************************************************)
(* Properties.                                                             *)
(***************************************************************************)
Record == [ok : {TRUE}, is : {"record"}, event : Nat, prev : Seq(Nat), hash : Seq(Nat)]
Line   == {Bad} \cup Record

\* Each variable has its type; in particular only a process of Procs ever holds
\* the lock and a decision is acknowledged only after it was made.
TypeOK ==
  /\ lines \in Seq(Line)
  /\ rest \in Line \cup {Nothing}
  /\ lock \in Procs \cup {Free}
  /\ pc \in [Procs -> {"idle", "waiting", "dead"} \cup Holding]
  /\ event \in [Procs -> 0..made]
  /\ tip \in [Procs -> Seq(Nat)]
  /\ made \in 0..MaxEvents
  /\ retries \in 0..MaxRetries
  /\ acked \subseteq 0..made
  /\ unsure \subseteq 0..made
  /\ cut \in BOOLEAN

\* While no lock of a live process is removed by hand, two processes are never
\* between taking the lock and giving it back.
MutualExclusion ==
  \A p, q \in Procs : pc[p] \in Holding /\ pc[q] \in Holding => p = q

\* No appended record forks or skips the chain: up to the first line that is no
\* record, the file is one history from genesis on, whoever wrote the records
\* and whatever failed in between.
OneHistory ==
  \A i \in 1..Len(lines) : (\A j \in 1..i : lines[j].ok) => Linked(lines, i)

\* A malformed history fails closed: nobody appends to a log with a line that is
\* no record, also if another process damaged it in the meantime.
FailsClosed == \A i \in 1..(Len(lines) - 1) : lines[i].ok

\* The decision a caller was told is recorded is a record of the log.
AckedIsWritten == \A e \in acked : OnRecord(e)

\* As long as no write was cut short, only a decision whose text splits its line
\* can be lost or leave a log that the next append cannot read: every other one
\* that was acknowledged is in the log.
CompleteWritesSurvive ==
  cut \/ /\ \A e \in acked \ Split : OnRecord(e)
         /\ Readable \/ \E e \in Split : e \in 1..made

\* The decisions of the log up to the first line that is no record, which is
\* what OneHistory calls one history.
History == [i \in {j \in 1..Len(lines) : \A k \in 1..j : lines[k].ok} |-> lines[i].event]

Promised == INSTANCE AppendOnlyLog WITH Decisions <- 1..MaxEvents, log <- History

\* The history is an append-only log, whatever fails or restarts and whoever calls
\* again: nothing is taken away, and a decision is recorded a second time only if
\* the caller was never told that it is on record.
KeepsThePromise == Promised!Spec

\* A call that waits for the lock ends, with a record or an error, even if the
\* process that holds the lock is dead and nobody removes the file.
CallsEnd == \A p \in Procs : pc[p] = "waiting" ~> pc[p] \in {"idle", "dead"}
=============================================================================
