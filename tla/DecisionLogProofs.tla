-------------------------- MODULE DecisionLogProofs --------------------------
(***************************************************************************)
(* What the decision log guarantees for any number of processes and        *)
(* decisions, whatever fails, as long as the operator removes only the     *)
(* lock files of dead processes.                                           *)
(*                                                                         *)
(* The argument: who is between taking and returning the lock owns it, so  *)
(* the file does not change between the moment a process reads the last    *)
(* hash and the moment it writes, and what it writes continues the chain.  *)
(***************************************************************************)
EXTENDS DecisionLog, TLAPS

\* Whoever is in the critical section owns the lock file.
OwnsLock == \A p \in Procs : pc[p] \in Holding => lock = p

\* A process that has read the log still knows its last hash.
TipIsCurrent ==
  \A p \in Procs : pc[p] = "loaded" => Readable /\ tip[p] = LastHash(AllLines)

\* If no write was cut short the file is whole but for what a splitting text left,
\* and holds whatever else was acknowledged or is about to be.
Whole == cut \/ /\ rest = Nothing
                /\ Readable \/ \E e \in Split : e \in 1..made
                /\ \A e \in acked \ Split : OnRecord(e)
                /\ \A p \in Procs : pc[p] = "written" /\ event[p] \notin Split => OnRecord(event[p])

LogInv == TypeOK /\ OwnsLock /\ TipIsCurrent /\ OneHistory /\ FailsClosed

Pending == {"waiting", "locked", "loaded"}

\* A decision belongs to one caller, and is on record before it is written only if
\* that caller was not told so.
Fresh ==
  /\ \A e : OnRecord(e) => e \in 1..made
  /\ 0 \notin unsure
  /\ \A p, q \in Procs : p # q => event[p] # event[q] \/ event[p] = 0
  /\ \A p \in Procs : pc[p] \in Pending =>
       event[p] # 0 /\ (OnRecord(event[p]) => event[p] \in unsure)
  /\ \A p \in Procs : pc[p] \in {"idle", "dead"} /\ OnRecord(event[p]) =>
       event[p] \in acked \cup unsure

-----------------------------------------------------------------------------
\* What a process writes is a line of the log.
LEMMA WrittenIsLine ==
  ASSUME TypeOK, NEW p \in Procs
  PROVE  /\ Written(event[p], tip[p]) \in Line
         /\ Bad \in Line
         /\ Written(event[p], tip[p]).ok =>
              /\ rest = Nothing
              /\ Written(event[p], tip[p]) = Seal(event[p], tip[p])
  <1>1. event[p] \in Nat /\ tip[p] \in Seq(Nat)
    BY DEF TypeOK
  <1>2. Seal(event[p], tip[p]) \in Line
    BY <1>1 DEF Seal, Line, Record
  <1>. QED
    BY <1>2 DEF Written, Line, Bad

\* The last hash of a log that can be read is a hash.
LEMMA LastHashType ==
  ASSUME TypeOK, Readable
  PROVE  LastHash(AllLines) \in Seq(Nat)
  <1>1. CASE AllLines = <<>>
    BY <1>1 DEF LastHash, Genesis
  <1>2. CASE AllLines # <<>>
    <2>1. AllLines \in Seq(Line)
      BY DEF TypeOK, AllLines
    <2>2. Len(AllLines) \in 1..Len(AllLines) /\ AllLines[Len(AllLines)] \in Line
      BY <1>2, <2>1
    <2>3. AllLines[Len(AllLines)].ok
      BY <2>2 DEF Readable, Linked
    <2>4. AllLines[Len(AllLines)] # Bad
      BY <2>3 DEF Bad
    <2>5. AllLines[Len(AllLines)] \in Record
      BY <2>2, <2>4 DEF Line
    <2>6. AllLines[Len(AllLines)].hash \in Seq(Nat)
      BY <2>5 DEF Record
    <2>. QED
      BY <1>2, <2>6 DEF LastHash
  <1>. QED
    BY <1>1, <1>2

-----------------------------------------------------------------------------
LEMMA LogInit == Init => LogInv
  <1>. SUFFICES ASSUME Init PROVE LogInv
    OBVIOUS
  <1>. USE DEF Init
  <1>1. TypeOK
    <2>1. lines \in Seq(Line) /\ rest \in Line \cup {Nothing} /\ tip \in [Procs -> Seq(Nat)]
      BY DEF Genesis
    <2>2. made \in 0..MaxEvents /\ retries \in 0..MaxRetries /\ event \in [Procs -> 0..made]
      BY MaxEventsAssumption, MaxRetriesAssumption
    <2>3. pc \in [Procs -> {"idle", "waiting", "dead"} \cup Holding] /\ cut \in BOOLEAN
      OBVIOUS
    <2>. QED
      BY <2>1, <2>2, <2>3 DEF TypeOK
  <1>2. OwnsLock /\ TipIsCurrent
    BY DEF OwnsLock, TipIsCurrent, Holding
  <1>3. OneHistory /\ FailsClosed
    BY DEF OneHistory, FailsClosed
  <1>. QED
    BY <1>1, <1>2, <1>3 DEF LogInv

LEMMA TypeKept == TypeOK /\ [Next]_vars => TypeOK'
  <1>. SUFFICES ASSUME TypeOK, [Next]_vars PROVE TypeOK'
    OBVIOUS
  <1>. USE DEF TypeOK, Goto, Holding, callVars, fileVars, answerVars
  <1>1. ASSUME NEW p \in Procs, Call(p) PROVE TypeOK'
    BY <1>1, MaxEventsAssumption DEF Call
  <1>12. ASSUME NEW p \in Procs, CallAgain(p) PROVE TypeOK'
    BY <1>12, MaxRetriesAssumption DEF CallAgain
  <1>2. ASSUME NEW p \in Procs, Acquire(p) PROVE TypeOK'
    BY <1>2 DEF Acquire
  <1>3. ASSUME NEW p \in Procs, TimeOut(p) PROVE TypeOK'
    BY <1>3 DEF TimeOut
  <1>4. ASSUME NEW p \in Procs, Load(p) PROVE TypeOK'
    BY <1>4, LastHashType DEF Load
  <1>5. ASSUME NEW p \in Procs, Refuse(p) PROVE TypeOK'
    BY <1>5 DEF Refuse
  <1>6. ASSUME NEW p \in Procs, WriteLine(p) PROVE TypeOK'
    BY <1>6, WrittenIsLine DEF WriteLine
  <1>7. ASSUME NEW p \in Procs, Return(p) PROVE TypeOK'
    BY <1>7 DEF Return
  <1>8. ASSUME NEW p \in Procs, WriteFails(p) \/ DieWriting(p) PROVE TypeOK'
    BY <1>8, WrittenIsLine DEF WriteFails, DieWriting, CutShort
  <1>9. ASSUME NEW p \in Procs, SyncFails(p) \/ Die(p) \/ Restart(p) PROVE TypeOK'
    BY <1>9 DEF SyncFails, Die, Restart, Unanswered
  <1>10. CASE RemoveLock
    BY <1>10 DEF RemoveLock
  <1>11. CASE UNCHANGED vars
    BY <1>11 DEF vars
  <1>. QED
    BY <1>1, <1>2, <1>3, <1>4, <1>5, <1>6, <1>7, <1>8, <1>9, <1>10, <1>11, <1>12 DEF Next, Step

LEMMA LockKept ==
  ASSUME Careless = FALSE, TypeOK, OwnsLock, [Next]_vars
  PROVE  OwnsLock'
  <1>. USE ProcsAssumption DEF TypeOK, OwnsLock, Goto, Holding
  <1>1. ASSUME NEW p \in Procs, Call(p) \/ CallAgain(p) \/ TimeOut(p) \/ Load(p) \/ WriteLine(p)
        PROVE  OwnsLock'
    BY <1>1 DEF Call, CallAgain, TimeOut, Load, WriteLine
  <1>2. ASSUME NEW p \in Procs, Acquire(p) PROVE OwnsLock'
    BY <1>2 DEF Acquire
  <1>3. ASSUME NEW p \in Procs, Refuse(p) \/ Return(p) \/ WriteFails(p) \/ SyncFails(p)
        PROVE  OwnsLock'
    BY <1>3 DEF Refuse, Return, WriteFails, SyncFails, CutShort
  <1>4. ASSUME NEW p \in Procs, DieWriting(p) \/ Die(p) \/ Restart(p) PROVE OwnsLock'
    BY <1>4 DEF DieWriting, Die, Restart, CutShort
  <1>5. CASE RemoveLock
    BY <1>5 DEF RemoveLock
  <1>6. CASE UNCHANGED vars
    BY <1>6 DEF vars
  <1>. QED
    BY <1>1, <1>2, <1>3, <1>4, <1>5, <1>6 DEF Next, Step

\* Only the owner of the lock changes what the file holds.
LEMMA OthersKeepTheFile ==
  ASSUME OwnsLock, NEW p \in Procs, NEW q \in Procs, p # q,
         pc[p] \in Holding, pc[q] \in Holding
  PROVE  FALSE
  BY DEF OwnsLock

LEMMA TipKept ==
  ASSUME TypeOK, OwnsLock, TipIsCurrent, [Next]_vars
  PROVE  TipIsCurrent'
  <1>. USE DEF TypeOK, TipIsCurrent, Goto
  <1>1. ASSUME NEW p \in Procs, WriteLine(p) \/ WriteFails(p) \/ DieWriting(p)
        PROVE  TipIsCurrent'
    <2>1. pc[p] = "loaded" /\ pc'[p] # "loaded" /\ \A q \in Procs \ {p} : pc'[q] = pc[q]
      BY <1>1 DEF WriteLine, WriteFails, DieWriting
    <2>2. \A q \in Procs \ {p} : pc[q] # "loaded"
      BY <2>1, OthersKeepTheFile DEF Holding
    <2>. QED
      BY <2>1, <2>2
  <1>2. ASSUME lines' = lines, rest' = rest
        PROVE  Readable' = Readable /\ LastHash(AllLines)' = LastHash(AllLines)
    BY <1>2 DEF Readable, Linked, AllLines, LastHash
  <1>3. ASSUME NEW p \in Procs, Load(p) PROVE TipIsCurrent'
    BY <1>2, <1>3 DEF Load, fileVars
  <1>4. ASSUME NEW p \in Procs, Call(p) \/ CallAgain(p) \/ Acquire(p) \/ TimeOut(p) \/ Refuse(p)
                                \/ Return(p) \/ SyncFails(p) \/ Die(p) \/ Restart(p)
        PROVE  TipIsCurrent'
    BY <1>2, <1>4 DEF Call, CallAgain, Acquire, TimeOut, Refuse, Return, SyncFails, Die, Restart,
                      fileVars, callVars
  <1>5. CASE RemoveLock \/ UNCHANGED vars
    BY <1>2, <1>5 DEF RemoveLock, vars, fileVars, callVars
  <1>. QED
    BY <1>1, <1>3, <1>4, <1>5 DEF Next, Step

\* A record appended to a log that can be read, by one who knows its last hash,
\* continues the chain.
LEMMA ChainGrows ==
  ASSUME TypeOK, TipIsCurrent, NEW p \in Procs, pc[p] = "loaded", rest = Nothing
  PROVE  LET longer == Append(lines, Seal(event[p], tip[p]))
         IN \A i \in 1..Len(longer) : Linked(longer, i)
  <1>. DEFINE new == Seal(event[p], tip[p])
              longer == Append(lines, new)
  <1>1. /\ AllLines = lines /\ lines \in Seq(Line) /\ Len(lines) \in Nat
        /\ \A i \in 1..Len(lines) : Linked(lines, i)
        /\ tip[p] = LastHash(lines)
    BY DEF TypeOK, TipIsCurrent, AllLines, Readable
  <1>2. /\ Len(longer) = Len(lines) + 1
        /\ longer[Len(lines) + 1] = new
        /\ \A i \in 1..Len(lines) : longer[i] = lines[i]
    BY <1>1
  <1>3. ASSUME NEW i \in 1..Len(lines) PROVE Linked(longer, i)
    <2>1. longer[i] = lines[i] /\ (i # 1 => longer[i - 1] = lines[i - 1])
      BY <1>1, <1>2
    <2>. QED
      BY <1>1, <2>1 DEF Linked
  <1>4. Linked(longer, Len(lines) + 1)
    <2>1. /\ new.ok /\ new.prev = tip[p] /\ new.event = event[p]
          /\ new.hash = Append(tip[p], event[p])
      BY DEF Seal
    <2>2. CASE Len(lines) = 0
      BY <1>1, <1>2, <2>1, <2>2 DEF Linked, LastHash
    <2>3. CASE Len(lines) # 0
      <3>1. lines # <<>> /\ Len(lines) \in 1..Len(lines)
        BY <1>1, <2>3
      <3>. QED
        BY <1>1, <1>2, <2>1, <2>3, <3>1 DEF Linked, LastHash
    <2>. QED
      BY <2>2, <2>3
  <1>. QED
    BY <1>1, <1>2, <1>3, <1>4

\* Only a write that is complete changes the lines of the file.
LEMMA OnlyWritesAddLines ==
  ASSUME [Next]_vars
  PROVE  lines' = lines \/ \E p \in Procs : WriteLine(p)
  <1>1. ASSUME NEW p \in Procs, Step(p), ~WriteLine(p) PROVE lines' = lines
    BY <1>1 DEF Step, Call, CallAgain, Acquire, TimeOut, Load, Refuse, Return, WriteFails,
                DieWriting, CutShort, SyncFails, Die, Restart, fileVars
  <1>2. ASSUME RemoveLock \/ UNCHANGED vars PROVE lines' = lines
    BY <1>2 DEF RemoveLock, vars, fileVars
  <1>. QED
    BY <1>1, <1>2 DEF Next

\* Whoever is about to write found records only.
LEMMA LoadedReadsAll ==
  ASSUME TypeOK, TipIsCurrent, NEW p \in Procs, pc[p] = "loaded"
  PROVE  \A i \in 1..Len(lines) : lines[i].ok
  <1>1. lines \in Seq(Line) /\ Len(lines) \in Nat
    BY DEF TypeOK
  <1>2. \A i \in 1..Len(lines) : i \in 1..Len(AllLines) /\ AllLines[i] = lines[i]
    BY <1>1 DEF AllLines
  <1>3. \A i \in 1..Len(AllLines) : AllLines[i].ok
    BY DEF TipIsCurrent, Readable, Linked
  <1>. QED
    BY <1>2, <1>3

LEMMA HistoryKept ==
  ASSUME TypeOK, TipIsCurrent, OneHistory, [Next]_vars
  PROVE  OneHistory'
  <1>1. ASSUME NEW p \in Procs, WriteLine(p) PROVE OneHistory'
    <2>. DEFINE w == Written(event[p], tip[p])
    <2>1. lines' = Append(lines, w) /\ pc[p] = "loaded" /\ lines \in Seq(Line) /\ Len(lines) \in Nat
      BY <1>1 DEF WriteLine, Goto, TypeOK
    <2>. HIDE DEF w
    <2>2. /\ Len(lines') = Len(lines) + 1
          /\ lines'[Len(lines) + 1] = w
          /\ \A i \in 1..Len(lines) : lines'[i] = lines[i]
      BY <2>1
    <2>3. CASE w.ok
      <3>1. rest = Nothing /\ w = Seal(event[p], tip[p])
        BY <2>3, WrittenIsLine DEF w
      <3>. QED
        BY <2>1, <3>1, ChainGrows DEF OneHistory
    <2>4. CASE ~w.ok
      <3>. SUFFICES ASSUME NEW i \in 1..Len(lines'), \A j \in 1..i : lines'[j].ok
                    PROVE  Linked(lines', i)
        BY DEF OneHistory
      <3>1. i \in 1..Len(lines)
        BY <2>1, <2>2, <2>4
      <3>2. Linked(lines, i)
        BY <2>1, <2>2, <3>1 DEF OneHistory
      <3>3. lines'[i] = lines[i] /\ (i # 1 => lines'[i - 1] = lines[i - 1])
        BY <2>1, <2>2, <3>1
      <3>. QED
        BY <3>2, <3>3 DEF Linked
    <2>. QED
      BY <2>3, <2>4
  <1>2. ASSUME lines' = lines PROVE OneHistory'
    BY <1>2 DEF OneHistory, Linked
  <1>. QED
    BY <1>1, <1>2, OnlyWritesAddLines

\* A log is written to when all its lines are records; what is then added is last.
LEMMA DamageIsLast ==
  ASSUME TypeOK, TipIsCurrent, FailsClosed, [Next]_vars
  PROVE  FailsClosed'
  <1>1. ASSUME NEW p \in Procs, WriteLine(p) PROVE FailsClosed'
    <2>1. lines' = Append(lines, Written(event[p], tip[p])) /\ pc[p] = "loaded"
      BY <1>1 DEF WriteLine, Goto
    <2>2. lines \in Seq(Line) /\ Len(lines) \in Nat
      BY DEF TypeOK
    <2>3. Len(lines') = Len(lines) + 1 /\ \A i \in 1..Len(lines) : lines'[i] = lines[i]
      BY <2>1, <2>2
    <2>4. \A i \in 1..Len(lines) : lines[i].ok
      BY <2>1, LoadedReadsAll
    <2>. QED
      BY <2>2, <2>3, <2>4 DEF FailsClosed
  <1>2. ASSUME lines' = lines PROVE FailsClosed'
    BY <1>2 DEF FailsClosed
  <1>. QED
    BY <1>1, <1>2, OnlyWritesAddLines

-----------------------------------------------------------------------------
\* Every variable of the log has its type, careless operators included.
THEOREM LogTyped == Spec => []TypeOK
  <1>1. Init => TypeOK
    BY LogInit DEF LogInv
  <1>. QED
    BY <1>1, TypeKept, PTL DEF Spec

\* The chain invariant, while the operator removes only dead processes' locks.
THEOREM LogKeepsInv == ASSUME Careless = FALSE PROVE Spec => []LogInv
  <1>1. LogInv /\ [Next]_vars => LogInv'
    BY TypeKept, LockKept, TipKept, HistoryKept, DamageIsLast DEF LogInv
  <1>. QED
    BY <1>1, LogInit, PTL DEF Spec

\* Two processes are never in append_decision's critical section at once.
THEOREM LockExcludes == ASSUME Careless = FALSE PROVE Spec => []MutualExclusion
  <1>1. LogInv => MutualExclusion
    BY DEF LogInv, OwnsLock, MutualExclusion
  <1>. QED
    BY <1>1, LogKeepsInv, PTL

\* The good prefix of the file is one unforked chain, whatever failed.
THEOREM LogIsOneChain == ASSUME Careless = FALSE PROVE Spec => []OneHistory
  <1>1. LogInv => OneHistory
    BY DEF LogInv
  <1>. QED
    BY <1>1, LogKeepsInv, PTL

\* Nobody appends to a log in which some line is no record.
THEOREM DamagedLogIsLeft == ASSUME Careless = FALSE PROVE Spec => []FailsClosed
  <1>1. LogInv => FailsClosed
    BY DEF LogInv
  <1>. QED
    BY <1>1, LogKeepsInv, PTL
-----------------------------------------------------------------------------
(***************************************************************************)
(* Who may write what: callers keep their decisions to themselves, and     *)
(* call again only with one that was not acknowledged.                     *)
(***************************************************************************)
\* What is on record after a line was appended.
LEMMA RecordsGrow ==
  ASSUME TypeOK, NEW w \in Line, lines' = Append(lines, w), NEW e
  PROVE  OnRecord(e)' <=> OnRecord(e) \/ (w.ok /\ w.event = e)
  <1>1. lines \in Seq(Line) /\ Len(lines) \in Nat
    BY DEF TypeOK
  <1>2. /\ Len(lines') = Len(lines) + 1 /\ lines'[Len(lines) + 1] = w
        /\ \A i \in 1..Len(lines) : lines'[i] = lines[i]
    BY <1>1
  <1>. QED
    BY <1>1, <1>2 DEF OnRecord

\* A write adds the decision of its caller, or none.
LEMMA WriteAdds ==
  ASSUME TypeOK, NEW p \in Procs, WriteLine(p), NEW e
  PROVE  OnRecord(e)' <=> OnRecord(e) \/ (Written(event[p], tip[p]).ok /\ e = event[p])
  <1>. DEFINE w == Written(event[p], tip[p])
  <1>1. lines' = Append(lines, w)
    BY DEF WriteLine
  <1>2. w \in Line /\ (w.ok => w.event = event[p])
    <2>1. w \in Line /\ (w.ok => w = Seal(event[p], tip[p]))
      BY WrittenIsLine
    <2>2. Seal(event[p], tip[p]).event = event[p]
      BY DEF Seal
    <2>. HIDE DEF w
    <2>. QED
      BY <2>1, <2>2
  <1>. HIDE DEF w
  <1>3. OnRecord(e)' <=> OnRecord(e) \/ (w.ok /\ w.event = e)
    BY <1>1, <1>2, RecordsGrow
  <1>4. OnRecord(e)' <=> OnRecord(e) \/ (w.ok /\ e = event[p])
    BY <1>2, <1>3
  <1>. QED
    BY <1>4 DEF w

\* A decision on record stays on record.
LEMMA RecordStays ==
  ASSUME TypeOK, [Next]_vars, NEW e, OnRecord(e)
  PROVE  OnRecord(e)'
  <1>1. ASSUME lines' = lines PROVE OnRecord(e)'
    BY <1>1 DEF OnRecord
  <1>. QED
    BY <1>1, OnlyWritesAddLines, WriteAdds

LEMMA FreshKept ==
  ASSUME TypeOK, Fresh, [Next]_vars
  PROVE  Fresh'
  <1>. USE DEF Pending
  <1>1. /\ made \in Nat /\ pc \in [Procs -> {"idle", "waiting", "dead"} \cup Holding]
        /\ event \in [Procs -> 0..made]
    BY MaxEventsAssumption DEF TypeOK
  <1>2. ASSUME NEW p \in Procs, WriteLine(p) PROVE Fresh'
    <2>1. /\ UNCHANGED <<event, made, retries, acked, unsure>>
          /\ pc[p] = "loaded" /\ pc' = [pc EXCEPT ![p] = "written"]
      BY <1>2 DEF WriteLine, Goto, callVars, answerVars
    <2>2. \A e : OnRecord(e)' => OnRecord(e) \/ e = event[p]
      BY <1>2, WriteAdds
    <2>3. pc'[p] = "written" /\ \A q \in Procs \ {p} : pc'[q] = pc[q]
      BY <1>1, <2>1
    <2>4. event[p] \in 1..made
      BY <1>1, <2>1 DEF Fresh
    <2>5. \A q \in Procs \ {p} : OnRecord(event[q])' => OnRecord(event[q])
      <3>1. \A q \in Procs \ {p} : event[q] # event[p]
        BY <1>1, <2>4 DEF Fresh
      <3>. QED
        BY <2>1, <2>2, <3>1
    <2>. QED
      BY <2>1, <2>2, <2>3, <2>4, <2>5 DEF Fresh
  <1>3. ASSUME lines' = lines PROVE \A e : OnRecord(e)' <=> OnRecord(e)
    BY <1>3 DEF OnRecord
  <1>4. ASSUME NEW p \in Procs, Call(p) PROVE Fresh'
    <2>1. /\ lines' = lines /\ made' = made + 1 /\ event' = [event EXCEPT ![p] = made + 1]
          /\ pc' = [pc EXCEPT ![p] = "waiting"] /\ acked' = acked /\ unsure' = unsure
      BY <1>4 DEF Call, Goto, fileVars, answerVars
    <2>2. \A e : OnRecord(e)' => e \in 1..made
      BY <1>3, <2>1 DEF Fresh
    <2>3. /\ event'[p] = made + 1 /\ pc'[p] = "waiting"
          /\ \A q \in Procs \ {p} : pc'[q] = pc[q] /\ event'[q] = event[q]
      BY <1>1, <2>1
    <2>4. \A q \in Procs : event[q] \in 0..made
      BY <1>1
    <2>5. ~OnRecord(event[p])'
      BY <1>1, <2>2, <2>3
    <2>6. \A q \in Procs \ {p} : OnRecord(event[q])' <=> OnRecord(event[q])
      BY <1>3, <2>1, <2>3
    <2>. QED
      BY <1>1, <2>1, <2>2, <2>3, <2>4, <2>5, <2>6 DEF Fresh
  <1>5. ASSUME NEW p \in Procs, CallAgain(p) PROVE Fresh'
    <2>1. /\ lines' = lines /\ made' = made /\ event' = event
          /\ acked' = acked /\ unsure' = unsure
          /\ pc[p] = "idle" /\ event[p] # 0 /\ event[p] \notin acked
      BY <1>5 DEF CallAgain, Goto, fileVars, answerVars
    <2>2. \A q \in Procs \ {p} : pc'[q] = pc[q]
      BY <1>1, <1>5 DEF CallAgain, Goto
    <2>3. pc'[p] = "waiting"
      BY <1>1, <1>5 DEF CallAgain, Goto
    <2>. QED
      BY <1>3, <2>1, <2>2, <2>3 DEF Fresh
  <1>6. ASSUME NEW p \in Procs, Acquire(p) \/ TimeOut(p) \/ Load(p) \/ Refuse(p)
                                \/ WriteFails(p) \/ DieWriting(p) \/ Restart(p)
        PROVE  Fresh'
    <2>1. lines' = lines /\ event' = event /\ made' = made /\ acked' = acked /\ unsure' = unsure
      BY <1>6 DEF Acquire, TimeOut, Load, Refuse, WriteFails, DieWriting, CutShort, Restart,
                  fileVars, callVars, answerVars
    <2>2. /\ \A q \in Procs : pc'[q] \in Pending => pc[q] \in Pending
          /\ \A q \in Procs : pc'[q] \in {"idle", "dead"} => pc[q] \in Pending \cup {"idle", "dead"}
      BY <1>1, <1>6 DEF Acquire, TimeOut, Load, Refuse, WriteFails, DieWriting, Restart, Goto
    <2>. QED
      BY <1>3, <2>1, <2>2 DEF Fresh
  <1>7. ASSUME NEW p \in Procs, SyncFails(p) \/ Die(p) PROVE Fresh'
    <2>1. /\ lines' = lines /\ event' = event /\ made' = made /\ acked' = acked
          /\ unsure' = unsure \cup {e \in {event[p]} : OnRecord(e)}
          /\ pc'[p] \in {"idle", "dead"} /\ \A q \in Procs \ {p} : pc'[q] = pc[q]
      BY <1>1, <1>7 DEF SyncFails, Die, Unanswered, Goto, fileVars, callVars
    <2>. QED
      BY <1>3, <2>1 DEF Fresh
  <1>8. ASSUME NEW p \in Procs, Return(p) PROVE Fresh'
    <2>1. /\ lines' = lines /\ event' = event /\ made' = made
          /\ acked' = acked \cup {event[p]} /\ unsure' = unsure \ {event[p]}
          /\ pc'[p] = "idle" /\ \A q \in Procs \ {p} : pc'[q] = pc[q]
      BY <1>1, <1>8 DEF Return, Goto, fileVars, callVars
    <2>2. \A q \in Procs \ {p} : OnRecord(event[q]) => event[q] # event[p]
      <3>1. \A q \in Procs : OnRecord(event[q]) => event[q] # 0
        BY <1>1 DEF Fresh
      <3>. QED
        BY <3>1 DEF Fresh
    <2>. QED
      BY <1>3, <2>1, <2>2 DEF Fresh
  <1>9. CASE RemoveLock \/ UNCHANGED vars
    <2>1. /\ lines' = lines /\ event' = event /\ made' = made /\ pc' = pc
          /\ acked' = acked /\ unsure' = unsure
      BY <1>9 DEF RemoveLock, fileVars, callVars, answerVars, vars
    <2>. QED
      BY <1>3, <2>1 DEF Fresh
  <1>. QED
    BY <1>2, <1>4, <1>5, <1>6, <1>7, <1>8, <1>9 DEF Next, Step

\* A caller keeps its decisions to itself, careless operators included.
LEMMA CallersAreFresh == Spec => []Fresh
  <1>1. Init => Fresh
    BY DEF Init, Fresh, Pending, OnRecord
  <1>2. TypeOK /\ Fresh /\ [Next]_vars => Fresh'
    BY FreshKept
  <1>. QED
    BY <1>1, <1>2, LogTyped, PTL DEF Spec

-----------------------------------------------------------------------------
(***************************************************************************)
(* Complete writes survive.                                                *)
(***************************************************************************)
LEMMA WholeKept ==
  ASSUME LogInv, Fresh, Whole, [Next]_vars
  PROVE  Whole'
  <1>. SUFFICES ASSUME ~cut, ~cut' PROVE Whole'
    <2>1. cut => cut'
      BY DEF Next, Step, Call, CallAgain, Acquire, TimeOut, Load, Refuse, WriteLine, Return,
             WriteFails, DieWriting, CutShort, SyncFails, Die, Restart, RemoveLock, fileVars, vars
    <2>. QED
      BY <2>1 DEF Whole
  <1>1. /\ rest = Nothing /\ TypeOK /\ TipIsCurrent
        /\ Readable \/ \E e \in Split : e \in 1..made
        /\ \A e \in acked \ Split : OnRecord(e)
        /\ \A p \in Procs : pc[p] = "written" /\ event[p] \notin Split => OnRecord(event[p])
    BY DEF Whole, LogInv
  <1>2. made \in Nat /\ event \in [Procs -> 0..made]
    BY <1>1, MaxEventsAssumption DEF TypeOK
  <1>3. ASSUME NEW p \in Procs, WriteLine(p) PROVE Whole'
    <2>1. /\ pc[p] = "loaded" /\ rest' = Nothing /\ acked' = acked /\ event' = event /\ made' = made
          /\ lines' = Append(lines, Written(event[p], tip[p])) /\ AllLines' = lines'
      BY <1>3 DEF WriteLine, Goto, callVars, answerVars, AllLines
    <2>2. CASE event[p] \in Split
      <3>1. event[p] \in 1..made
        BY <1>2, <2>1 DEF Fresh, Pending
      <3>. QED
        <4>1. \A q \in Procs \ {p} : pc'[q] = pc[q]
          BY <1>1, <1>3 DEF WriteLine, Goto, TypeOK
        <4>2. \A e : OnRecord(e) => OnRecord(e)'
          BY <1>1, <1>3, WriteAdds
        <4>. QED
          BY <1>1, <2>1, <2>2, <3>1, <4>1, <4>2 DEF Whole
    <2>3. CASE event[p] \notin Split
      <3>1. Written(event[p], tip[p]) = Seal(event[p], tip[p])
        BY <1>1, <2>3 DEF Written
      <3>2. Readable'
        BY <1>1, <2>1, <3>1, ChainGrows DEF Readable, Linked
      <3>3. OnRecord(event[p])' /\ \A e : OnRecord(e) => OnRecord(e)'
        <4>1. Written(event[p], tip[p]).ok
          BY <3>1 DEF Seal
        <4>2. \A e : e = event[p] => OnRecord(e)'
          BY <1>1, <1>3, <4>1, WriteAdds
        <4>. QED
          BY <1>1, <1>3, <2>1, <4>2, WriteAdds
      <3>4. \A q \in Procs \ {p} : pc'[q] = pc[q]
        BY <1>1, <1>3 DEF WriteLine, Goto, TypeOK
      <3>. QED
        BY <1>1, <2>1, <3>2, <3>3, <3>4 DEF Whole
    <2>. QED
      BY <2>2, <2>3
  <1>4. ASSUME lines' = lines, rest' = rest
        PROVE  Readable' = Readable /\ \A e : OnRecord(e)' <=> OnRecord(e)
    BY <1>4 DEF Readable, Linked, AllLines, OnRecord
  <1>5. ASSUME NEW p \in Procs, Return(p) PROVE Whole'
    <2>1. /\ lines' = lines /\ rest' = rest /\ pc[p] = "written" /\ event' = event /\ made' = made
          /\ acked' = acked \cup {event[p]}
          /\ \A q \in Procs : pc'[q] = "written" => pc[q] = "written"
      BY <1>1, <1>5 DEF Return, Goto, fileVars, callVars, TypeOK
    <2>. QED
      BY <1>1, <1>4, <2>1 DEF Whole
  <1>6. ASSUME NEW p \in Procs, Call(p) PROVE Whole'
    <2>1. /\ lines' = lines /\ rest' = rest /\ acked' = acked /\ made' = made + 1
          /\ \A q \in Procs : pc'[q] = "written" => pc[q] = "written" /\ event'[q] = event[q]
      BY <1>1, <1>6 DEF Call, Goto, fileVars, answerVars, TypeOK
    <2>. QED
      BY <1>1, <1>2, <1>4, <2>1 DEF Whole
  <1>7. ASSUME NEW p \in Procs, CallAgain(p) \/ Acquire(p) \/ TimeOut(p) \/ Load(p) \/ Refuse(p)
                                \/ SyncFails(p) \/ Die(p) \/ Restart(p)
        PROVE  Whole'
    <2>1. /\ lines' = lines /\ rest' = rest /\ acked' = acked /\ event' = event /\ made' = made
          /\ \A q \in Procs : pc'[q] = "written" => pc[q] = "written"
      BY <1>1, <1>7 DEF CallAgain, Acquire, TimeOut, Load, Refuse, SyncFails, Die, Restart, Goto,
                        Unanswered, fileVars, callVars, answerVars, TypeOK
    <2>. QED
      BY <1>1, <1>4, <2>1 DEF Whole
  <1>8. ASSUME NEW p \in Procs, WriteFails(p) \/ DieWriting(p) PROVE FALSE
    BY <1>8 DEF WriteFails, DieWriting, CutShort
  <1>9. CASE RemoveLock \/ UNCHANGED vars
    <2>1. /\ lines' = lines /\ rest' = rest /\ acked' = acked /\ event' = event /\ pc' = pc
          /\ made' = made
      BY <1>9 DEF RemoveLock, fileVars, callVars, answerVars, vars
    <2>. QED
      BY <1>1, <1>4, <2>1 DEF Whole
  <1>. QED
    BY <1>3, <1>5, <1>6, <1>7, <1>8, <1>9 DEF Next, Step

\* If every append's write is complete, whatever else fails and whoever calls again,
\* every acknowledged decision is in the log but for those whose text splits its
\* line, and the log can be read again if there is none of these.
THEOREM NothingAckedIsLost ==
  ASSUME Careless = FALSE
  PROVE  Spec => []CompleteWritesSurvive
  <1>1. Init => Whole
    BY DEF Init, Whole, Readable, AllLines
  <1>2. LogInv /\ Fresh /\ Whole /\ [Next]_vars => Whole'
    BY WholeKept
  <1>3. Whole => CompleteWritesSurvive
    BY DEF Whole, CompleteWritesSurvive
  <1>. QED
    BY <1>1, <1>2, <1>3, LogKeepsInv, CallersAreFresh, PTL DEF Spec
-----------------------------------------------------------------------------
(***************************************************************************)
(* The file implements the append-only log.                                *)
(***************************************************************************)
\* A record is written only after a history that can be read as a whole; a line
\* that is none leaves the history as it is.
LEMMA WriteRecords ==
  ASSUME LogInv, Fresh, NEW p \in Procs, WriteLine(p)
  PROVE  Promised!Next \/ History' = History
  <1>. DEFINE w == Written(event[p], tip[p])
              n == Len(lines)
              good == {j \in 1..n : \A k \in 1..j : lines[k].ok}
  <1>1. /\ lines \in Seq(Line) /\ n \in Nat /\ pc[p] = "loaded" /\ TypeOK
        /\ lines' = Append(lines, w)
    BY DEF LogInv, TypeOK, WriteLine, Goto
  <1>2. w \in Line
    BY <1>1, WrittenIsLine
  <1>. HIDE DEF w
  <1>3. /\ Len(lines') = n + 1 /\ lines'[n + 1] = w
        /\ \A i \in 1..n : lines'[i] = lines[i]
    BY <1>1, <1>2
  <1>4. History = [i \in good |-> lines[i].event]
    BY DEF History
  <1>5. CASE ~w.ok
    <2>1. {j \in 1..Len(lines') : \A k \in 1..j : lines'[k].ok} = good
      <3>1. \A j \in 1..(n + 1) : (\A k \in 1..j : lines'[k].ok) => j \in 1..n
        BY <1>1, <1>3, <1>5
      <3>2. \A j \in 1..n : (\A k \in 1..j : lines'[k].ok) <=> (\A k \in 1..j : lines[k].ok)
        BY <1>1, <1>3
      <3>. QED
        BY <1>1, <1>3, <3>1, <3>2
    <2>2. History' = [i \in good |-> lines'[i].event]
      BY <2>1 DEF History
    <2>3. \A i \in good : lines'[i].event = lines[i].event
      BY <1>3
    <2>. HIDE DEF good
    <2>4. History' = History
      BY <1>4, <2>2, <2>3
    <2>. QED
      BY <2>4
  <1>6. CASE w.ok
    <2>1. rest = Nothing /\ w = Seal(event[p], tip[p])
      BY <1>1, <1>6, WrittenIsLine DEF w
    <2>2. \A i \in 1..n : lines[i].ok
      BY <1>1, <2>1 DEF LogInv, TipIsCurrent, Readable, AllLines, Linked
    <2>3. good = 1..n
      BY <1>1, <2>2
    <2>4. w.event = event[p]
      BY <2>1 DEF Seal
    <2>5. {j \in 1..Len(lines') : \A k \in 1..j : lines'[k].ok} = 1..(n + 1)
      BY <1>1, <1>3, <1>6, <2>2
    <2>6. History' = [i \in 1..(n + 1) |-> lines'[i].event]
      BY <2>5 DEF History
    <2>. DEFINE h == History
    <2>7. h = [i \in 1..n |-> lines[i].event]
      BY <1>4, <2>3
    <2>8. \A i \in 1..n : lines[i].event \in Nat
      <3>. SUFFICES ASSUME NEW i \in 1..n PROVE lines[i].event \in Nat
        OBVIOUS
      <3>1. lines[i] \in Line /\ lines[i].ok
        BY <1>1, <2>2
      <3>2. lines[i] # Bad
        BY <3>1 DEF Bad
      <3>3. lines[i] \in Record
        BY <3>1, <3>2 DEF Line
      <3>. QED
        BY <3>3 DEF Record
    <2>9. h \in Seq(Nat) /\ Len(h) = n
      BY <1>1, <2>7, <2>8
    <2>10. History' = Append(h, event[p])
      <3>1. event[p] \in Nat
        BY <1>1 DEF TypeOK
      <3>. HIDE DEF h
      <3>2. Append(h, event[p]) = [i \in 1..(n + 1) |-> IF i = n + 1 THEN event[p] ELSE h[i]]
        BY <1>1, <2>9, <3>1
      <3>3. \A i \in 1..(n + 1) : lines'[i].event = IF i = n + 1 THEN event[p] ELSE h[i]
        BY <1>1, <1>3, <2>4, <2>7
      <3>. QED
        BY <2>6, <3>2, <3>3
    <2>11. event[p] \in 1..MaxEvents /\ (OnRecord(event[p]) => event[p] \in unsure)
      <3>1. event[p] \in 0..made /\ made \in 0..MaxEvents
        BY <1>1 DEF TypeOK
      <3>. QED
        BY <1>1, <3>1, MaxEventsAssumption DEF Fresh, Pending
    <2>12. event[p] \in {h[i] : i \in 1..Len(h)} => event[p] \in unsure
      BY <2>2, <2>7, <2>9, <2>11 DEF OnRecord
    <2>13. unsure' = unsure
      BY DEF WriteLine, answerVars
    <2>14. Promised!Record(event[p])
      BY <2>10, <2>12, <2>13 DEF Promised!Record, Promised!Recorded
    <2>. QED
      BY <2>11, <2>14 DEF Promised!Next
  <1>. QED
    BY <1>5, <1>6

\* What is on record is in the history, as a damaged line can only be the last.
LEMMA HistoryHasRecords ==
  ASSUME TypeOK, FailsClosed, NEW e, OnRecord(e)
  PROVE  e \in Promised!Recorded
  <1>. DEFINE n == Len(lines)
              good == {j \in 1..n : \A k \in 1..j : lines[k].ok}
  <1>1. lines \in Seq(Line) /\ n \in Nat
    BY DEF TypeOK
  <1>2. PICK i \in 1..n : lines[i].ok /\ lines[i].event = e
    BY DEF OnRecord
  <1>3. \A j \in 1..n : j < n => lines[j].ok
    BY <1>1 DEF FailsClosed
  <1>4. PICK m \in {n - 1, n} : good = 1..m
    <2>1. CASE lines[n].ok
      <3>1. good = 1..n
        BY <1>1, <1>3, <2>1
      <3>. QED
        BY <3>1
    <2>2. CASE ~lines[n].ok
      <3>1. good = 1..(n - 1)
        BY <1>1, <1>3, <2>2
      <3>. QED
        BY <3>1
    <2>. QED
      BY <2>1, <2>2
  <1>5. i \in good
    BY <1>1, <1>2, <1>3
  <1>6. m \in Nat /\ i \in 1..m
    BY <1>1, <1>2, <1>4, <1>5
  <1>7. History = [j \in 1..m |-> lines[j].event]
    BY <1>4 DEF History
  <1>8. Len(History) = m /\ History[i] = e
    BY <1>2, <1>6, <1>7
  <1>. QED
    BY <1>6, <1>8 DEF Promised!Recorded

LEMMA StepKeepsPromise ==
  ASSUME LogInv, Fresh, [Next]_vars
  PROVE  [Promised!Next]_<<History, unsure>>
  <1>. DEFINE Kept == Promised!Next \/ UNCHANGED <<History, unsure>>
  <1>1. lines' = lines => History' = History
    BY DEF History
  <1>2. ASSUME NEW p \in Procs, WriteLine(p) PROVE Kept
    <2>1. unsure' = unsure
      BY <1>2 DEF WriteLine, answerVars
    <2>. QED
      BY <1>2, <2>1, WriteRecords
  <1>3. ASSUME NEW p \in Procs, SyncFails(p) \/ Die(p) PROVE Kept
    <2>1. lines' = lines /\ unsure' = unsure \cup {e \in {event[p]} : OnRecord(e)}
      BY <1>3 DEF SyncFails, Die, Unanswered, fileVars
    <2>2. CASE OnRecord(event[p])
      <3>1. event[p] \in 1..MaxEvents
        BY <2>2, MaxEventsAssumption DEF Fresh, LogInv, TypeOK
      <3>2. Promised!LoseAnswer(event[p])
        BY <1>1, <2>1, <2>2, HistoryHasRecords DEF Promised!LoseAnswer, LogInv
      <3>. QED
        BY <3>1, <3>2 DEF Promised!Next
    <2>3. CASE ~OnRecord(event[p])
      BY <1>1, <2>1, <2>3
    <2>. QED
      BY <2>2, <2>3
  <1>4. ASSUME NEW p \in Procs, Return(p) PROVE Kept
    <2>1. lines' = lines /\ unsure' = unsure \ {event[p]}
      BY <1>4 DEF Return, fileVars
    <2>2. CASE event[p] \in 1..MaxEvents
      BY <1>1, <2>1, <2>2 DEF Promised!Answer, Promised!Next
    <2>3. CASE event[p] \notin 1..MaxEvents
      <3>1. pc[p] = "written" /\ event[p] \in 0..made /\ made \in 0..MaxEvents
        BY <1>4 DEF Return, Goto, LogInv, TypeOK
      <3>2. event[p] = 0
        BY <2>3, <3>1, MaxEventsAssumption
      <3>. QED
        BY <1>1, <2>1, <3>2 DEF Fresh
    <2>. QED
      BY <2>2, <2>3
  <1>5. ASSUME NEW p \in Procs, Step(p),
               ~WriteLine(p), ~SyncFails(p), ~Die(p), ~Return(p)
        PROVE  lines' = lines /\ unsure' = unsure
    BY <1>5 DEF Step, Call, CallAgain, Acquire, TimeOut, Load, Refuse, WriteFails, DieWriting,
                CutShort, Restart, fileVars, answerVars
  <1>6. ASSUME RemoveLock \/ UNCHANGED vars PROVE lines' = lines /\ unsure' = unsure
    BY <1>6 DEF RemoveLock, vars, fileVars, answerVars
  <1>. QED
    BY <1>1, <1>2, <1>3, <1>4, <1>5, <1>6 DEF Next

\* The history of the file implements the append-only log, whatever fails and
\* whoever calls again.
THEOREM LogImplementsPromise == ASSUME Careless = FALSE PROVE Spec => KeepsThePromise
  <1>1. Init => Promised!Init
    BY DEF Init, Promised!Init, History
  <1>2. LogInv /\ Fresh /\ [Next]_vars => [Promised!Next]_<<History, unsure>>
    BY StepKeepsPromise
  <1>. QED
    BY <1>1, <1>2, LogKeepsInv, CallersAreFresh, PTL
    DEF Spec, KeepsThePromise, Promised!Spec, Promised!vars
=============================================================================
