-------------------------- MODULE RunControlProofs --------------------------
(***************************************************************************)
(* Theorems about RunControl, for every set of handlers, processes, run    *)
(* keys and scopes, every cap, every adapter and both run-control modes.   *)
(***************************************************************************)
EXTENDS RunControl, CollectionLemmas, TLAPS

-----------------------------------------------------------------------------
(* The handler's loops.                                                    *)

\* What the dispatch of a job may leave in its row.
Outcome == {"dispatching", "dispatch_failed", "dispatch_error", "completed", "failed"}

\* The loops after the claim loop go over jobs that were granted.
LoopShape ==
  \A h \in Handler :
    /\ pc[h] \in {"inClaim", "inLocalRun"} => todo[h] # <<>>
    /\ pc[h] \in {"dispatching", "inLocalRun", "recording"}
         => Range(todo[h]) \subseteq Range(granted[h])

\* Every job that leaves the dispatch loop has an outcome to be recorded.
OutcomesKnown ==
  \A h \in Handler, k \in RunKey :
    /\ verdict[h][k] \in Outcome \union {"none"}
    /\ pc[h] \in {"dispatching", "inLocalRun"} /\ k \in Range(granted[h])
         => k \in Range(todo[h]) \/ verdict[h][k] # "none"
    /\ pc[h] = "recording" /\ k \in Range(granted[h]) => verdict[h][k] # "none"

LoopInv == TypeOK /\ LoopShape /\ OutcomesKnown

\* TypeOK and what it needs hold initially.
LEMMA LoopInvInit == Init => LoopInv
BY RunControlAssumption, LedgerAssumption, EmptyLoop
   DEF Init, LoopInv, TypeOK, LoopShape, OutcomesKnown, Table, Row, NoTable, NoRow,
       NoVerdict, Stage, WorkerState, ClaimStatus, ActiveStatus, TerminalStatus

\* The statements on the run-claim table keep it a table.
LEMMA StatementTypes ==
  ASSUME NEW table \in Table, NEW snapshot \in Table, NEW k \in RunKey,
         NEW status \in ClaimStatus
  PROVE  /\ StatusWrite(table, k, status) \in Table
         /\ WorkBegin(table, k) \in Table
         /\ AfterClaim(snapshot, table, k) \in Table
         /\ Expire(table, k) \in Table
         /\ LeaveWindow(table, k) \in Table
BY DEF Table, Row, StatusWrite, WorkBegin, AfterClaim, ClaimedRow, Expire, LeaveWindow,
       ClaimStatus, ActiveStatus, TerminalStatus

\* Every step preserves them.
LEMMA LoopInvStep == LoopInv /\ [Next]_vars => LoopInv'
<1> SUFFICES ASSUME LoopInv, [Next]_vars
             PROVE  LoopInv'
  OBVIOUS
<1> USE RunControlAssumption, LedgerAssumption DEF ledgerVars, handlerVars, workerVars
<1>0. TypeOK /\ LoopShape /\ OutcomesKnown
  BY DEF LoopInv
<1>1. ASSUME NEW h \in Handler, Arrive(h) PROVE LoopInv'
  BY <1>0, <1>1, EmptyLoop DEF Arrive, At, Stage, LoopInv, TypeOK, LoopShape, OutcomesKnown
<1>2. ASSUME NEW h \in Handler, SubmitClaim(h) PROVE LoopInv'
  BY <1>0, <1>2 DEF SubmitClaim, At, Stage, LoopInv, TypeOK, LoopShape, OutcomesKnown
<1>3. ASSUME NEW h \in Handler, CommitClaim(h) \/ FailClaim(h) PROVE LoopInv'
  <2>1. todo[h] \in Seq(RunKey) /\ todo[h] # <<>> /\ granted[h] \in Seq(RunKey)
    BY <1>0, <1>3 DEF CommitClaim, FailClaim, TypeOK, LoopShape
  <2>2. Job(h) \in RunKey /\ Tail(todo[h]) \in Seq(RunKey)
    BY <2>1, ConsumedLoop DEF Job
  <2>3. Append(granted[h], Job(h)) \in Seq(RunKey)
    BY <2>1, <2>2, FilledLoop
  <2>4. AfterClaim(snap[h], claims, Job(h)) \in Table
    BY <1>0, <2>2, StatementTypes DEF TypeOK, ClaimStatus, ActiveStatus
  <2>5. claims' \in Table /\ grants' \in [RunKey -> Nat]
    BY <1>0, <1>3, <2>4 DEF CommitClaim, FailClaim, ApplyClaim, TypeOK
  <2>6. PICK code : Decide(h, code)
    BY <1>3 DEF CommitClaim, FailClaim
  <2>7. NoTable \in Table
    BY DEF NoTable, NoRow, Table, Row
  <2>8. UNCHANGED <<workerVars, verdict, tries>> /\ pc[h] = "inClaim"
    BY <1>3 DEF CommitClaim, FailClaim
  <2>9. TypeOK'
    BY <1>0, <2>2, <2>3, <2>5, <2>6, <2>7, <2>8 DEF Decide, Stage, TypeOK
  <2>10. LoopShape' /\ OutcomesKnown'
    BY <1>0, <2>6, <2>8 DEF Decide, TypeOK, LoopShape, OutcomesKnown
  <2> QED BY <2>9, <2>10 DEF LoopInv
<1>4. ASSUME NEW h \in Handler, NothingToDispatch(h) PROVE LoopInv'
  BY <1>0, <1>4, EmptyLoop
     DEF NothingToDispatch, Leave, At, Stage, NoVerdict, LoopInv, TypeOK, LoopShape, OutcomesKnown
<1>5. ASSUME NEW h \in Handler, StartDispatch(h) PROVE LoopInv'
  BY <1>0, <1>5 DEF StartDispatch, At, Stage, LoopInv, TypeOK, LoopShape, OutcomesKnown
<1>6. ASSUME NEW h \in Handler,
             DispatchAccepted(h) \/ DispatchRejected(h) \/ DispatchLost(h) \/ LocalEnd(h)
      PROVE  LoopInv'
  <2>1. /\ todo[h] \in Seq(RunKey) /\ todo[h] # <<>>
        /\ pc[h] \in {"dispatching", "inLocalRun"}
    BY <1>0, <1>6
       DEF DispatchAccepted, DispatchRejected, DispatchLost, LocalEnd, At, TypeOK, LoopShape
  <2>2. /\ Job(h) \in RunKey /\ Tail(todo[h]) \in Seq(RunKey)
        /\ Range(todo[h]) = Range(Tail(todo[h])) \union {Job(h)}
    BY <2>1, ConsumedLoop DEF Job
  <2>3. PICK status \in Outcome :
          \/ Returns(h, status)
          \/ UNCHANGED <<verdict, todo>> /\ tries' = [tries EXCEPT ![h] = @ + 1]
    BY <1>6 DEF DispatchAccepted, DispatchRejected, DispatchLost, LocalEnd, Outcome
  <2>4. pc' = [pc EXCEPT ![h] = "dispatching"]
    BY <1>0, <1>6, <2>1
       DEF DispatchAccepted, DispatchRejected, DispatchLost, LocalEnd, At, TypeOK
  <2>5. UNCHANGED <<claims, snap, granted, worker, grants>>
    BY <1>6 DEF DispatchAccepted, DispatchRejected, DispatchLost, LocalEnd
  <2>6. pending' \in [RunKey -> BOOLEAN]
    BY <1>0, <1>6 DEF DispatchAccepted, DispatchRejected, DispatchLost, LocalEnd, Enqueue, TypeOK
  <2>7. completions' \in [RunKey -> Nat]
    BY <1>0, <1>6 DEF DispatchAccepted, DispatchRejected, DispatchLost, LocalEnd, TypeOK
  <2>8. Outcome \subseteq ClaimStatus /\ "none" \notin Outcome
    BY DEF Outcome, ClaimStatus, ActiveStatus, TerminalStatus
  <2>9. /\ todo' \in [Handler -> Seq(RunKey)]
        /\ verdict' \in [Handler -> [RunKey -> ClaimStatus \union {"none"}]]
        /\ tries' \in [Handler -> Nat]
    <3>1. todo' \in [Handler -> Seq(RunKey)] /\ tries' \in [Handler -> Nat]
      <4>1. /\ todo' = [todo EXCEPT ![h] = Tail(todo[h])] \/ todo' = todo
            /\ tries' = [tries EXCEPT ![h] = 0] \/ tries' = [tries EXCEPT ![h] = @ + 1]
        BY <2>3 DEF Returns
      <4>2. todo \in [Handler -> Seq(RunKey)] /\ tries \in [Handler -> Nat]
        BY <1>0 DEF TypeOK
      <4>3. todo' \in [Handler -> Seq(RunKey)]
        BY <2>2, <4>1, <4>2
      <4>4. CASE tries' = [tries EXCEPT ![h] = 0]
        BY <4>2, <4>3, <4>4
      <4>5. CASE tries' = [tries EXCEPT ![h] = @ + 1]
        BY <4>2, <4>3, <4>5
      <4> QED BY <4>1, <4>3, <4>4, <4>5
    <3>2. verdict' \in [Handler -> [RunKey -> ClaimStatus \union {"none"}]]
      <4>1. PICK written \in ClaimStatus \union {"none"} :
              \/ verdict' = [verdict EXCEPT ![h][Job(h)] = written]
              \/ verdict' = verdict
        BY <2>3, <2>8 DEF Returns
      <4>2. verdict \in [Handler -> [RunKey -> ClaimStatus \union {"none"}]]
        BY <1>0 DEF TypeOK
      <4>3. CASE verdict' = [verdict EXCEPT ![h][Job(h)] = written]
        BY <2>2, <4>2, <4>3
      <4> QED BY <4>1, <4>2, <4>3
    <3> QED BY <3>1, <3>2
  <2>10. TypeOK'
    BY <1>0, <2>4, <2>5, <2>6, <2>7, <2>9 DEF Stage, TypeOK
  <2>11. LoopShape'
    BY <1>0, <2>1, <2>2, <2>3, <2>4, <2>5 DEF Returns, TypeOK, LoopShape
  <2>12. ASSUME NEW g \in Handler, NEW k \in RunKey, g # h \/ k # Job(h)
         PROVE  verdict'[g][k] = verdict[g][k]
    BY <1>0, <2>3, <2>12 DEF Returns, TypeOK
  <2>13. verdict'[h][Job(h)] \in Outcome \union {"none"}
    BY <1>0, <2>2, <2>3 DEF Returns, TypeOK, OutcomesKnown
  <2>14. verdict'[h][Job(h)] # "none" \/ UNCHANGED todo
    BY <1>0, <2>2, <2>3, <2>8 DEF Returns, TypeOK
  <2>15. /\ \A g \in Handler \ {h} : todo'[g] = todo[g] /\ pc'[g] = pc[g]
         /\ Range(todo[h]) \subseteq Range(todo'[h]) \union {Job(h)}
         /\ pc'[h] = "dispatching"
    BY <1>0, <2>2, <2>3, <2>4 DEF Returns, TypeOK
  <2>16. OutcomesKnown'
    <3> SUFFICES ASSUME NEW g \in Handler, NEW k \in RunKey
                 PROVE  /\ verdict'[g][k] \in Outcome \union {"none"}
                        /\ pc'[g] \in {"dispatching", "inLocalRun"} /\ k \in Range(granted[g])
                             => k \in Range(todo'[g]) \/ verdict'[g][k] # "none"
                        /\ pc'[g] = "recording" /\ k \in Range(granted[g])
                             => verdict'[g][k] # "none"
      BY <2>5 DEF OutcomesKnown
    <3>1. CASE g # h
      BY <1>0, <2>12, <2>15, <3>1 DEF OutcomesKnown
    <3>2. CASE g = h /\ k # Job(h)
      BY <1>0, <2>1, <2>12, <2>15, <3>2 DEF OutcomesKnown
    <3>3. CASE g = h /\ k = Job(h) /\ verdict'[h][Job(h)] # "none"
      BY <2>13, <2>15, <3>3
    <3>4. CASE g = h /\ k = Job(h) /\ UNCHANGED todo
      BY <2>2, <2>13, <2>15, <3>4
    <3> QED BY <2>14, <3>1, <3>2, <3>3, <3>4
  <2> QED BY <2>10, <2>11, <2>16 DEF LoopInv
<1>7. ASSUME NEW h \in Handler, DispatchThrows(h) PROVE LoopInv'
  BY <1>0, <1>7
     DEF DispatchThrows, At, Stage, Outcome, ClaimStatus, ActiveStatus, TerminalStatus,
         LoopInv, TypeOK, LoopShape, OutcomesKnown
<1>8. ASSUME NEW h \in Handler, LocalStart(h) PROVE LoopInv'
  BY <1>0, <1>8 DEF LocalStart, At, Stage, LoopInv, TypeOK, LoopShape, OutcomesKnown
<1>9. ASSUME NEW h \in Handler, StartRecording(h) PROVE LoopInv'
  BY <1>0, <1>9, EmptyLoop
     DEF StartRecording, At, Stage, LoopInv, TypeOK, LoopShape, OutcomesKnown
<1>10. ASSUME NEW h \in Handler, RecordStatus(h) PROVE LoopInv'
  <2>1. todo[h] \in Seq(RunKey) /\ todo[h] # <<>> /\ pc[h] = "recording"
    BY <1>0, <1>10 DEF RecordStatus, At, TypeOK
  <2>2. /\ Job(h) \in RunKey /\ Tail(todo[h]) \in Seq(RunKey)
        /\ Range(todo[h]) = Range(Tail(todo[h])) \union {Job(h)}
    BY <2>1, ConsumedLoop DEF Job
  <2>3. verdict[h][Job(h)] \in ClaimStatus
    BY <1>0, <2>1, <2>2
       DEF Outcome, ClaimStatus, ActiveStatus, TerminalStatus, LoopShape, OutcomesKnown
  <2>4. StatusWrite(claims, Job(h), verdict[h][Job(h)]) \in Table
    BY <1>0, <2>2, <2>3, StatementTypes DEF TypeOK
  <2>5. claims' \in Table
    BY <1>0, <1>10, <2>4 DEF RecordStatus, TypeOK
  <2> QED BY <1>0, <1>10, <2>1, <2>2, <2>5
             DEF RecordStatus, LoopInv, TypeOK, LoopShape, OutcomesKnown
<1>11. ASSUME NEW h \in Handler, EndRecording(h) PROVE LoopInv'
  BY <1>0, <1>11, EmptyLoop
     DEF EndRecording, Leave, At, Stage, NoVerdict, LoopInv, TypeOK, LoopShape, OutcomesKnown
<1>12. ASSUME NEW a \in App, AppCrash(a) PROVE LoopInv'
  <2>1. NoTable \in Table
    BY DEF NoTable, NoRow, Table, Row
  <2> QED BY <1>0, <1>12, <2>1, EmptyLoop
             DEF AppCrash, Stage, NoVerdict, LoopInv, TypeOK, LoopShape, OutcomesKnown
<1>13. ASSUME NEW k \in RunKey, WorkerStep(k) \/ WorkerCrash(k) \/ ClaimExpires(k) \/ WindowEnds(k)
       PROVE  LoopInv'
  <2>1. /\ claims \in Table
        /\ Expire(claims, k) \in Table
        /\ LeaveWindow(claims, k) \in Table
        /\ WorkBegin(claims, k) \in Table
        /\ \A status \in {"running", "completed", "failed"} : StatusWrite(claims, k, status) \in Table
    BY <1>0, StatementTypes DEF TypeOK, ClaimStatus, ActiveStatus, TerminalStatus
  <2>2. claims' \in Table
    BY <1>13, <2>1
       DEF WorkerStep, WorkerStart, WorkerBegin, WorkerBeginFails, WorkerMark, WorkerEnd,
           WorkerCrash, ClaimExpires, WindowEnds
  <2>3. UNCHANGED <<grants, handlerVars>>
    BY <1>13
       DEF WorkerStep, WorkerStart, WorkerBegin, WorkerBeginFails, WorkerMark, WorkerEnd,
           WorkerCrash, ClaimExpires, WindowEnds
  <2>4. pending' \in [RunKey -> BOOLEAN] /\ worker' \in [RunKey -> WorkerState]
    BY <1>0, <1>13
       DEF WorkerStep, WorkerStart, WorkerBegin, WorkerBeginFails, WorkerMark, WorkerEnd,
           WorkerCrash, ClaimExpires, WindowEnds, Work, WorkerState, TypeOK
  <2>5. completions' \in [RunKey -> Nat]
    BY <1>0, <1>13
       DEF WorkerStep, WorkerStart, WorkerBegin, WorkerBeginFails, WorkerMark, WorkerEnd,
           WorkerCrash, ClaimExpires, WindowEnds, TypeOK
  <2> QED BY <1>0, <2>2, <2>3, <2>4, <2>5 DEF LoopInv, TypeOK, LoopShape, OutcomesKnown
<1>14. CASE UNCHANGED vars
  BY <1>0, <1>14 DEF vars, LoopInv, TypeOK, LoopShape, OutcomesKnown
<1> QED
  BY <1>1, <1>2, <1>3, <1>4, <1>5, <1>6, <1>7, <1>8, <1>9, <1>10, <1>11, <1>12, <1>13, <1>14
     DEF Next, HandlerStep

(***************************************************************************)
(* Every reachable state has the declared types: no statement makes a row  *)
(* the table cannot hold and no loop runs over anything but granted jobs.  *)
(***************************************************************************)
THEOREM TypeCorrect == Spec => []TypeOK
<1>1. LoopInv => TypeOK
  BY DEF LoopInv
<1> QED BY LoopInvInit, LoopInvStep, <1>1, PTL DEF Spec

-----------------------------------------------------------------------------
(* What one step may do to the run-claim table.                            *)

Written == Outcome \union {"running"}

\* Some status statement commits.
StatusStep ==
  /\ \E k \in RunKey, status \in Written : claims' = StatusWrite(claims, k, status)
  /\ UNCHANGED grants

\* h's claim statement inserts or takes over its job's row.
GrantStep(h) ==
  /\ pc[h] = "inClaim" /\ Job(h) \in RunKey
  /\ Inserts(snap[h], claims, Job(h))
  /\ claims' = [claims EXCEPT ![Job(h)] = ClaimedRow(@)]
  /\ grants' = [grants EXCEPT ![Job(h)] = @ + 1]

\* Time passes for one row, while no claim statement is running.
AgeStep ==
  /\ NoClaimInFlight
  /\ \E k \in RunKey : claims' \in {Expire(claims, k), LeaveWindow(claims, k)}
  /\ UNCHANGED grants

LEMMA TableSteps ==
  ASSUME LoopInv, [Next]_vars
  PROVE  \/ UNCHANGED <<claims, grants>>
         \/ StatusStep
         \/ \E h \in Handler : GrantStep(h)
         \/ AgeStep
<1> USE DEF ledgerVars, handlerVars, workerVars
<1>0. TypeOK /\ LoopShape /\ OutcomesKnown
  BY DEF LoopInv
<1>1. ASSUME NEW h \in Handler, CommitClaim(h) \/ FailClaim(h)
      PROVE  UNCHANGED <<claims, grants>> \/ GrantStep(h)
  <2>1. pc[h] = "inClaim" /\ todo[h] \in Seq(RunKey) /\ todo[h] # <<>>
    BY <1>0, <1>1 DEF CommitClaim, FailClaim, TypeOK, LoopShape
  <2>2. Job(h) \in RunKey
    BY <2>1, ConsumedLoop DEF Job
  <2>3. ApplyClaim(h) \/ UNCHANGED <<claims, grants>>
    BY <1>1 DEF CommitClaim, FailClaim
  <2> QED BY <2>1, <2>2, <2>3 DEF ApplyClaim, AfterClaim, GrantStep
<1>2. ASSUME NEW h \in Handler, RecordStatus(h)
      PROVE  UNCHANGED <<claims, grants>> \/ StatusStep
  <2>1. todo[h] \in Seq(RunKey) /\ todo[h] # <<>> /\ pc[h] = "recording"
    BY <1>0, <1>2 DEF RecordStatus, At, TypeOK
  <2>2. Job(h) \in RunKey /\ Job(h) \in Range(granted[h])
    BY <1>0, <2>1, ConsumedLoop DEF Job, LoopShape
  <2>3. verdict[h][Job(h)] \in Written
    BY <1>0, <2>1, <2>2 DEF OutcomesKnown, Written
  <2> QED BY <1>2, <2>2, <2>3 DEF RecordStatus, StatusStep
<1>3. ASSUME NEW k \in RunKey, WorkerStep(k) \/ WorkerCrash(k)
      PROVE  UNCHANGED <<claims, grants>> \/ StatusStep
  BY <1>3
     DEF WorkerStep, WorkerStart, WorkerBegin, WorkerBeginFails, WorkerMark, WorkerEnd,
         WorkerCrash, WorkBegin, StatusStep, Written, Outcome
<1>4. ASSUME NEW k \in RunKey, ClaimExpires(k) \/ WindowEnds(k) PROVE AgeStep
  BY <1>4 DEF ClaimExpires, WindowEnds, AgeStep
<1>5. ASSUME NEW h \in Handler, HandlerStep(h),
             ~(CommitClaim(h) \/ FailClaim(h)), ~RecordStatus(h)
      PROVE  UNCHANGED <<claims, grants>>
  BY <1>5
     DEF HandlerStep, Arrive, SubmitClaim, NothingToDispatch, StartDispatch, DispatchAccepted,
         DispatchRejected, DispatchLost, DispatchThrows, LocalStart, LocalEnd, StartRecording,
         EndRecording
<1>6. ASSUME NEW a \in App, AppCrash(a) PROVE UNCHANGED <<claims, grants>>
  BY <1>6 DEF AppCrash
<1>7. CASE UNCHANGED vars
  BY <1>7 DEF vars
<1> QED BY <1>1, <1>2, <1>3, <1>4, <1>5, <1>6, <1>7 DEF Next

\* A statement in flight keeps its snapshot; a new one takes the table as it is.
LEMMA SnapshotSteps ==
  ASSUME TypeOK, [Next]_vars, NEW g \in Handler, pc'[g] = "inClaim"
  PROVE  \/ pc[g] = "inClaim" /\ snap'[g] = snap[g]
         \/ snap'[g] = claims /\ UNCHANGED claims
<1> USE DEF ledgerVars, handlerVars, workerVars, TypeOK
<1>1. ASSUME NEW h \in Handler, HandlerStep(h)
      PROVE  \/ pc[g] = "inClaim" /\ snap'[g] = snap[g]
             \/ snap'[g] = claims /\ UNCHANGED claims
  <2>1. CASE SubmitClaim(h)
    BY <2>1 DEF SubmitClaim
  <2>2. CASE CommitClaim(h) \/ FailClaim(h)
    BY <2>2 DEF CommitClaim, FailClaim, Decide
  <2>3. CASE Arrive(h) \/ NothingToDispatch(h) \/ StartDispatch(h) \/ EndRecording(h)
    BY <2>3 DEF Arrive, NothingToDispatch, StartDispatch, EndRecording, Leave
  <2>4. CASE \/ DispatchAccepted(h) \/ DispatchRejected(h) \/ DispatchLost(h)
             \/ DispatchThrows(h) \/ LocalStart(h) \/ LocalEnd(h)
             \/ StartRecording(h) \/ RecordStatus(h)
    BY <2>4
       DEF DispatchAccepted, DispatchRejected, DispatchLost, DispatchThrows, LocalStart,
           LocalEnd, StartRecording, RecordStatus
  <2> QED BY <1>1, <2>1, <2>2, <2>3, <2>4 DEF HandlerStep
<1>2. ASSUME NEW a \in App, AppCrash(a) PROVE pc[g] = "inClaim" /\ snap'[g] = snap[g]
  BY <1>2 DEF AppCrash
<1>3. ASSUME NEW k \in RunKey, WorkerStep(k) \/ WorkerCrash(k) \/ ClaimExpires(k) \/ WindowEnds(k)
      PROVE  pc[g] = "inClaim" /\ snap'[g] = snap[g]
  BY <1>3
     DEF WorkerStep, WorkerStart, WorkerBegin, WorkerBeginFails, WorkerMark, WorkerEnd,
         WorkerCrash, ClaimExpires, WindowEnds
<1>4. CASE UNCHANGED vars
  BY <1>4 DEF vars
<1> QED BY <1>1, <1>2, <1>3, <1>4 DEF Next

-----------------------------------------------------------------------------
(* A claim statement may decide on a snapshot that is out of date.  What   *)
(* makes it safe: a row that is past its expiry in the table was past it,  *)
(* and in the same dedupe state, in every snapshot still in use.           *)

SnapshotInv ==
  /\ \A k \in RunKey : claims[k].status # "expired"
  /\ \A h \in Handler, k \in RunKey :
       pc[h] = "inClaim" =>
         /\ snap[h][k].status # "expired"
         /\ HasRow(claims[k]) /\ ~Unexpired(claims[k])
              => /\ HasRow(snap[h][k])
                 /\ ~Unexpired(snap[h][k])
                 /\ snap[h][k].fresh = claims[k].fresh

LEMMA SnapshotInvInit == Init => SnapshotInv
BY DEF Init, SnapshotInv, NoTable, NoRow

LEMMA SnapshotInvStep == LoopInv /\ SnapshotInv /\ [Next]_vars => SnapshotInv'
<1> SUFFICES ASSUME LoopInv, SnapshotInv, [Next]_vars
             PROVE  SnapshotInv'
  OBVIOUS
<1>0. claims \in [RunKey -> Row] /\ snap \in [Handler -> [RunKey -> Row]]
  BY DEF LoopInv, TypeOK, Table
<1>1. \A g \in Handler :
        pc'[g] = "inClaim" =>
          \/ pc[g] = "inClaim" /\ snap'[g] = snap[g]
          \/ snap'[g] = claims /\ UNCHANGED claims
  BY SnapshotSteps DEF LoopInv
<1> USE DEF Row, HasRow, Unexpired
\* Enough: in-use snapshots survive what the step does to every single row.
<1>2. ASSUME \A j \in RunKey :
               /\ claims'[j].status # "expired"
               /\ HasRow(claims'[j]) /\ ~Unexpired(claims'[j])
                    => \/ \A g \in Handler : pc[g] # "inClaim"
                       \/ /\ HasRow(claims[j]) /\ ~Unexpired(claims[j])
                          /\ claims'[j].fresh = claims[j].fresh
      PROVE  SnapshotInv'
  <2> SUFFICES ASSUME NEW h \in Handler, NEW j \in RunKey, pc'[h] = "inClaim"
               PROVE  /\ snap'[h][j].status # "expired"
                      /\ HasRow(claims'[j]) /\ ~Unexpired(claims'[j])
                           => /\ HasRow(snap'[h][j])
                              /\ ~Unexpired(snap'[h][j])
                              /\ snap'[h][j].fresh = claims'[j].fresh
    BY <1>2 DEF SnapshotInv
  <2>1. CASE pc[h] = "inClaim" /\ snap'[h] = snap[h]
    BY <1>2, <2>1 DEF SnapshotInv
  <2>2. CASE snap'[h] = claims /\ UNCHANGED claims
    BY <1>2, <2>2 DEF SnapshotInv
  <2> QED BY <1>1, <2>1, <2>2
<1>3. CASE UNCHANGED <<claims, grants>>
  BY <1>2, <1>3 DEF SnapshotInv
<1>4. CASE StatusStep
  <2>1. PICK k \in RunKey, status \in Written : claims' = StatusWrite(claims, k, status)
    BY <1>4 DEF StatusStep
  <2>2. status # "expired" /\ status # "none"
    BY DEF Written, Outcome
  <2>3. \A j \in RunKey :
          /\ claims'[j].status # "expired"
          /\ HasRow(claims[j]) <=> HasRow(claims'[j])
          /\ claims'[j].expires = claims[j].expires
          /\ claims'[j].fresh = claims[j].fresh
    BY <1>0, <2>1, <2>2 DEF StatusWrite, SnapshotInv
  <2> QED BY <1>2, <2>3
<1>5. ASSUME NEW h \in Handler, GrantStep(h) PROVE SnapshotInv'
  <2>1. \A j \in RunKey :
          \/ claims'[j] = claims[j]
          \/ claims'[j].status = "claimed" /\ claims'[j].expires = "ahead"
    BY <1>0, <1>5 DEF GrantStep, ClaimedRow
  <2> QED BY <1>2, <2>1 DEF SnapshotInv
<1>6. CASE AgeStep
  <2>1. \A g \in Handler : pc[g] # "inClaim"
    BY <1>6 DEF AgeStep, NoClaimInFlight
  <2>2. PICK k \in RunKey : claims' = Expire(claims, k) \/ claims' = LeaveWindow(claims, k)
    BY <1>6 DEF AgeStep
  <2>3. \A j \in RunKey : claims'[j].status = claims[j].status
    <3>1. CASE claims' = Expire(claims, k)
      BY <1>0, <3>1 DEF Expire
    <3>2. CASE claims' = LeaveWindow(claims, k)
      BY <1>0, <3>2 DEF LeaveWindow
    <3> QED BY <2>2, <3>1, <3>2
  <2> QED BY <1>2, <2>1, <2>3 DEF SnapshotInv
<1> QED BY <1>3, <1>4, <1>5, <1>6, TableSteps

\* The ledger grants nothing but available keys.
LEMMA GrantedWasAvailable ==
  ASSUME LoopInv, SnapshotInv, NEW h \in Handler, GrantStep(h)
  PROVE  Available(Job(h))
BY DEF LoopInv, TypeOK, SnapshotInv, GrantStep, Inserts, Duplicate, Conflict, Available,
       HasRow, Unexpired, Table, Row

ClaimInv == LoopInv /\ SnapshotInv

LEMMA ClaimInvHolds == Spec => []ClaimInv
<1>1. Init => ClaimInv
  BY LoopInvInit, SnapshotInvInit DEF ClaimInv
<1>2. ClaimInv /\ [Next]_vars => ClaimInv'
  BY LoopInvStep, SnapshotInvStep DEF ClaimInv
<1> QED BY <1>1, <1>2, PTL DEF Spec

(***************************************************************************)
(* One grant per window, for any number of handlers on any number of       *)
(* processes whose claim statements overlap in any way, with failing       *)
(* statements and crashes.                                                 *)
(***************************************************************************)
THEOREM GrantExclusive == Spec => GrantIsExclusive
<1>1. ClaimInv /\ [Next]_vars => [\A k \in RunKey : Granted(k) => Available(k)]_vars
  <2> SUFFICES ASSUME ClaimInv, [Next]_vars, NEW k \in RunKey, Granted(k)
               PROVE  Available(k)
    OBVIOUS
  <2>1. grants \in [RunKey -> Nat]
    BY DEF ClaimInv, LoopInv, TypeOK
  <2>2. ~UNCHANGED grants
    BY <2>1 DEF Granted
  <2>3. PICK h \in Handler : GrantStep(h)
    BY <2>2, TableSteps DEF ClaimInv, StatusStep, AgeStep
  <2>4. k = Job(h)
    BY <2>1, <2>3 DEF GrantStep, Granted
  <2> QED BY <2>3, <2>4, GrantedWasAvailable DEF ClaimInv
<1> QED BY <1>1, ClaimInvHolds, PTL DEF Spec, GrantIsExclusive

-----------------------------------------------------------------------------
(* Refinement.                                                             *)

LEMMA WindowsInit == Init => Windows!Init
BY DEF Init, Windows!Init, Held, Available, HasRow, NoTable, NoRow

LEMMA WindowsStep ==
  ASSUME ClaimInv, [Next]_vars
  PROVE  Windows!Next \/ UNCHANGED <<Held, grants>>
<1>0. claims \in [RunKey -> Row] /\ grants \in [RunKey -> Nat]
  BY DEF ClaimInv, LoopInv, TypeOK, Table
<1> USE DEF Row, HasRow, Unexpired, Available, Held
<1>1. CASE UNCHANGED <<claims, grants>>
  BY <1>1
<1>2. CASE StatusStep
  <2>1. PICK k \in RunKey, status \in Written : claims' = StatusWrite(claims, k, status)
    BY <1>2 DEF StatusStep
  <2>2. status # "expired" /\ status # "none"
    BY DEF Written, Outcome
  <2>3. \A j \in RunKey : Available(j)' <=> Available(j)
    BY <1>0, <2>1, <2>2 DEF StatusWrite, ClaimInv, SnapshotInv
  <2> QED BY <1>2, <2>3 DEF StatusStep
<1>3. ASSUME NEW h \in Handler, GrantStep(h) PROVE Windows!Next
  <2>1. PICK k \in RunKey : k = Job(h)
    BY <1>3 DEF GrantStep
  <2>2. Available(k)
    BY <1>3, <2>1, GrantedWasAvailable DEF ClaimInv
  <2>3. claims' = [claims EXCEPT ![k] = ClaimedRow(@)] /\ grants' = [grants EXCEPT ![k] = @ + 1]
    BY <1>3, <2>1 DEF GrantStep
  <2>4. ~Available(k)'
    BY <1>0, <2>3 DEF ClaimedRow
  <2>5. \A j \in RunKey \ {k} : Available(j)' <=> Available(j)
    BY <1>0, <2>3
  <2>6. Windows!Grant(k)
    BY <2>2, <2>3, <2>4, <2>5 DEF Windows!Grant
  <2> QED BY <2>6 DEF Windows!Next
<1>4. CASE AgeStep
  <2>1. PICK k \in RunKey : claims' = Expire(claims, k) \/ claims' = LeaveWindow(claims, k)
    BY <1>4 DEF AgeStep
  <2>2. \A j \in RunKey \ {k} : Available(j)' <=> Available(j)
    BY <1>0, <2>1 DEF Expire, LeaveWindow
  <2>3. Available(k) => Available(k)'
    <3>1. CASE claims' = Expire(claims, k)
      BY <1>0, <3>1 DEF Expire
    <3>2. CASE claims' = LeaveWindow(claims, k)
      BY <1>0, <3>2 DEF LeaveWindow
    <3> QED BY <2>1, <3>1, <3>2
  <2>4. UNCHANGED grants
    BY <1>4 DEF AgeStep
  <2>5. CASE Available(k)' <=> Available(k)
    BY <2>2, <2>4, <2>5
  <2>6. CASE ~Available(k) /\ Available(k)'
    BY <2>2, <2>4, <2>6 DEF Windows!Next, Windows!Release
  <2> QED BY <2>3, <2>5, <2>6
<1> QED BY <1>1, <1>2, <1>3, <1>4, TableSteps DEF ClaimInv

(***************************************************************************)
(* The run-claim table implements the claim store that docs/run-control.md *)
(* describes: every step of the system is, for the windows of the table, a *)
(* grant of a free key, the end of a window, or nothing.                   *)
(***************************************************************************)
THEOREM LedgerImplementsClaimWindow == Spec => ImplementsClaimWindow
<1>1. ClaimInv /\ [Next]_vars => [Windows!Next]_<<Held, grants>>
  BY WindowsStep
<1> QED BY <1>1, WindowsInit, ClaimInvHolds, PTL
        DEF Spec, ImplementsClaimWindow, Windows!Spec, Held

-----------------------------------------------------------------------------
(* Who may be working on a key.                                            *)

\* Every job that is granted, queued or worked on has a row in the table.
WorkIsClaimed ==
  RunMode = "enforce" =>
    \A k \in RunKey :
      \/ \E h \in Handler : k \in Range(granted[h])
      \/ pending[k]
      \/ worker[k] # "none"
      => HasRow(claims[k])

LEMMA WorkIsClaimedInit == Init => WorkIsClaimed
BY EmptyLoop DEF Init, WorkIsClaimed

\* A row is never deleted.
LEMMA RowsStay ==
  ASSUME ClaimInv, [Next]_vars, NEW k \in RunKey, HasRow(claims[k])
  PROVE  HasRow(claims'[k])
<1>0. claims \in [RunKey -> Row]
  BY DEF ClaimInv, LoopInv, TypeOK, Table
<1> USE DEF HasRow, Row
<1>1. CASE StatusStep
  <2>1. PICK j \in RunKey, status \in Written : claims' = StatusWrite(claims, j, status)
    BY <1>1 DEF StatusStep
  <2> QED BY <1>0, <2>1 DEF StatusWrite, Written, Outcome
<1>2. ASSUME NEW h \in Handler, GrantStep(h) PROVE HasRow(claims'[k])
  BY <1>0, <1>2 DEF GrantStep, ClaimedRow
<1>3. CASE AgeStep
  <2>1. PICK j \in RunKey : claims' = Expire(claims, j) \/ claims' = LeaveWindow(claims, j)
    BY <1>3 DEF AgeStep
  <2>2. CASE claims' = Expire(claims, j)
    BY <1>0, <2>2 DEF Expire
  <2>3. CASE claims' = LeaveWindow(claims, j)
    BY <1>0, <2>3 DEF LeaveWindow
  <2> QED BY <2>1, <2>2, <2>3
<1> QED BY <1>1, <1>2, <1>3, TableSteps DEF ClaimInv

\* How jobs come to be granted, queued and worked on.
LEMMA WorkSteps ==
  ASSUME ClaimInv, [Next]_vars, NEW k \in RunKey
  PROVE  /\ \A h \in Handler :
              k \in Range(granted'[h]) =>
                \/ k \in Range(granted[h])
                \/ RunMode = "enforce" => HasRow(claims'[k])
         /\ pending'[k] => pending[k] \/ \E h \in Handler : k \in Range(granted[h])
         /\ worker'[k] # "none" => worker[k] # "none" \/ pending[k]
<1> USE DEF ledgerVars, handlerVars, workerVars
<1>0. TypeOK /\ LoopShape
  BY DEF ClaimInv, LoopInv
<1> DEFINE Goal == /\ \A h \in Handler :
                        k \in Range(granted'[h]) =>
                          \/ k \in Range(granted[h])
                          \/ RunMode = "enforce" => HasRow(claims'[k])
                   /\ pending'[k] => pending[k] \/ \E h \in Handler : k \in Range(granted[h])
                   /\ worker'[k] # "none" => worker[k] # "none" \/ pending[k]
<1>1. ASSUME NEW h \in Handler, CommitClaim(h) \/ FailClaim(h) PROVE Goal
  <2>1. /\ todo[h] \in Seq(RunKey) /\ todo[h] # <<>> /\ granted[h] \in Seq(RunKey)
        /\ UNCHANGED <<pending, worker>>
    BY <1>0, <1>1 DEF CommitClaim, FailClaim, TypeOK, LoopShape
  <2>2. Job(h) \in RunKey
    BY <2>1, ConsumedLoop DEF Job
  <2>3. Range(Append(granted[h], Job(h))) = Range(granted[h]) \union {Job(h)}
    BY <2>1, <2>2, FilledLoop
  <2>4. PICK code : /\ Decide(h, code)
                    /\ code = "claimed" => CommitClaim(h) /\ code = ClaimResult(snap[h], claims, Job(h))
    BY <1>1 DEF CommitClaim, FailClaim
  <2>5. CASE Allowed(code) /\ RunMode = "enforce"
    <3>1. code = "claimed" /\ CommitClaim(h) /\ Inserts(snap[h], claims, Job(h))
      BY <2>4, <2>5 DEF Allowed, ClaimResult
    <3>2. claims'[Job(h)] = ClaimedRow(claims[Job(h)])
      BY <1>0, <2>2, <3>1 DEF CommitClaim, ApplyClaim, AfterClaim, TypeOK, Table
    <3>3. HasRow(claims'[Job(h)])
      BY <3>2 DEF HasRow, ClaimedRow
    <3>4. granted' = [granted EXCEPT ![h] = Append(granted[h], Job(h))]
      BY <2>4, <2>5 DEF Decide
    <3> QED BY <1>0, <2>1, <2>3, <3>3, <3>4 DEF TypeOK
  <2>6. CASE RunMode # "enforce"
    BY <2>1, <2>6
  <2>7. CASE ~Allowed(code)
    BY <2>1, <2>4, <2>7 DEF Decide
  <2> QED BY <2>5, <2>6, <2>7
<1>2. ASSUME NEW h \in Handler, NothingToDispatch(h) \/ EndRecording(h) PROVE Goal
  BY <1>0, <1>2, EmptyLoop DEF NothingToDispatch, EndRecording, Leave, TypeOK
<1>3. ASSUME NEW h \in Handler, DispatchAccepted(h) \/ DispatchLost(h) PROVE Goal
  <2>1. todo[h] \in Seq(RunKey) /\ todo[h] # <<>> /\ pc[h] = "dispatching"
    BY <1>0, <1>3 DEF DispatchAccepted, DispatchLost, At, TypeOK
  <2>2. Job(h) \in RunKey /\ Job(h) \in Range(granted[h])
    BY <1>0, <2>1, ConsumedLoop DEF Job, LoopShape
  <2>3. UNCHANGED <<granted, worker>> /\ (Enqueue(Job(h)) \/ UNCHANGED pending)
    BY <1>3 DEF DispatchAccepted, DispatchLost
  <2> QED BY <1>0, <2>2, <2>3 DEF Enqueue, TypeOK
<1>4. ASSUME NEW h \in Handler,
             \/ Arrive(h) \/ SubmitClaim(h) \/ StartDispatch(h) \/ DispatchRejected(h)
             \/ DispatchThrows(h) \/ LocalStart(h) \/ LocalEnd(h) \/ StartRecording(h)
             \/ RecordStatus(h)
      PROVE  Goal
  BY <1>4
     DEF Arrive, SubmitClaim, StartDispatch, DispatchRejected, DispatchThrows, LocalStart,
         LocalEnd, StartRecording, RecordStatus
<1>5. ASSUME NEW a \in App, AppCrash(a) PROVE Goal
  BY <1>5, EmptyLoop DEF AppCrash
<1>6. ASSUME NEW j \in RunKey, WorkerStep(j) \/ WorkerCrash(j) \/ ClaimExpires(j) \/ WindowEnds(j)
      PROVE  Goal
  BY <1>0, <1>6
     DEF WorkerStep, WorkerStart, WorkerBegin, WorkerBeginFails, WorkerMark, WorkerEnd,
         WorkerCrash, ClaimExpires, WindowEnds, Work, TypeOK
<1>7. CASE UNCHANGED vars
  BY <1>7 DEF vars
<1> QED BY <1>1, <1>2, <1>3, <1>4, <1>5, <1>6, <1>7 DEF Next, HandlerStep

(***************************************************************************)
(* With enforce, nothing is dispatched and no worker runs for a key that   *)
(* the ledger has no row of, whichever statements fail or lose their       *)
(* answers and whichever processes die.                                    *)
(***************************************************************************)
THEOREM RunsAreClaimed == Spec => []NoRunWithoutClaim
<1>1. ClaimInv /\ WorkIsClaimed /\ [Next]_vars => WorkIsClaimed'
  <2> SUFFICES ASSUME ClaimInv, WorkIsClaimed, [Next]_vars, RunMode = "enforce", NEW k \in RunKey,
                      \/ \E h \in Handler : k \in Range(granted'[h])
                      \/ pending'[k]
                      \/ worker'[k] # "none"
               PROVE  HasRow(claims'[k])
    BY DEF WorkIsClaimed
  <2> QED BY WorkSteps, RowsStay DEF WorkIsClaimed
<1>2. WorkIsClaimed => NoRunWithoutClaim
  BY DEF WorkIsClaimed, NoRunWithoutClaim
<1> QED BY <1>1, <1>2, WorkIsClaimedInit, ClaimInvHolds, PTL DEF Spec

-----------------------------------------------------------------------------
(* The worker's status protocol.                                           *)

LEMMA RunningHasWorkerStep == ClaimInv /\ RunningHasWorker /\ [Next]_vars => RunningHasWorker'
<1> SUFFICES ASSUME ClaimInv, RunningHasWorker, [Next]_vars, ~LedgerFaults, ~Crashes,
                    NEW k \in RunKey, claims'[k].status = "running"
             PROVE  worker'[k] = "executing"
  BY DEF RunningHasWorker
<1> USE DEF ledgerVars, handlerVars, workerVars
<1>0. /\ claims \in [RunKey -> Row]
      /\ worker \in [RunKey -> WorkerState]
      /\ LoopInv
  BY DEF ClaimInv, LoopInv, TypeOK, Table
<1>1. claims[k].status = "running" => worker[k] = "executing"
  BY DEF RunningHasWorker
<1>2. CASE UNCHANGED <<claims, worker>>
  BY <1>1, <1>2
<1>3. ASSUME NEW h \in Handler, CommitClaim(h) \/ FailClaim(h) PROVE worker'[k] = "executing"
  <2>1. UNCHANGED worker /\ (ApplyClaim(h) \/ UNCHANGED claims)
    BY <1>3 DEF CommitClaim, FailClaim
  <2>2. claims' = claims \/ claims' = [claims EXCEPT ![Job(h)] = ClaimedRow(@)]
    BY <2>1 DEF ApplyClaim, AfterClaim
  <2>3. claims'[k] = claims[k] \/ claims'[k] = ClaimedRow(claims[k])
    BY <1>0, <2>2
  <2> QED BY <1>1, <2>1, <2>3 DEF ClaimedRow
<1>4. ASSUME NEW h \in Handler, RecordStatus(h) PROVE worker'[k] = "executing"
  <2>1. todo[h] \in Seq(RunKey) /\ todo[h] # <<>> /\ pc[h] = "recording"
    BY <1>0, <1>4 DEF RecordStatus, At, LoopInv, TypeOK
  <2>2. verdict[h][Job(h)] # "running"
    BY <1>0, <2>1, ConsumedLoop DEF LoopInv, OutcomesKnown, Outcome, Job
  <2>3. /\ UNCHANGED worker
        /\ claims' = StatusWrite(claims, Job(h), verdict[h][Job(h)]) \/ UNCHANGED claims
    BY <1>4 DEF RecordStatus
  <2> QED BY <1>0, <1>1, <2>2, <2>3 DEF StatusWrite, Row
<1>5. ASSUME NEW j \in RunKey, WorkerStep(j) \/ WorkerCrash(j) PROVE worker'[k] = "executing"
  <2>1. CASE WorkerStart(j)
    BY <1>0, <1>1, <2>1 DEF WorkerStart
  <2>2. CASE WorkerBegin(j) \/ WorkerMark(j)
    BY <1>0, <1>1, <2>2 DEF WorkerBegin, WorkerMark, WorkBegin, WorkDuplicate, StatusWrite, Work, Row
  <2>3. CASE WorkerEnd(j)
    <3>1. PICK status \in {"completed", "failed"} : claims' = StatusWrite(claims, j, status)
      BY <2>3 DEF WorkerEnd
    <3>2. worker' = [worker EXCEPT ![j] = "none"]
      BY <2>3 DEF WorkerEnd, Work
    <3>3. j # k
      BY <1>0, <3>1 DEF StatusWrite, HasRow, Row
    <3> QED BY <1>0, <1>1, <3>1, <3>2, <3>3 DEF StatusWrite
  <2>4. CASE WorkerBeginFails(j) \/ WorkerCrash(j)
    BY <2>4 DEF WorkerBeginFails, WorkerCrash
  <2> QED BY <1>5, <2>1, <2>2, <2>3, <2>4 DEF WorkerStep
<1>6. ASSUME NEW j \in RunKey, ClaimExpires(j) \/ WindowEnds(j) PROVE worker'[k] = "executing"
  <2>1. UNCHANGED worker /\ (claims' = Expire(claims, j) \/ claims' = LeaveWindow(claims, j))
    BY <1>6 DEF ClaimExpires, WindowEnds
  <2>2. CASE claims' = Expire(claims, j)
    BY <1>0, <1>1, <2>1, <2>2 DEF Expire, Row
  <2>3. CASE claims' = LeaveWindow(claims, j)
    BY <1>0, <1>1, <2>1, <2>3 DEF LeaveWindow, Row
  <2> QED BY <2>1, <2>2, <2>3
<1>7. ASSUME NEW h \in Handler, HandlerStep(h),
             ~(CommitClaim(h) \/ FailClaim(h)), ~RecordStatus(h)
      PROVE  UNCHANGED <<claims, worker>>
  BY <1>7
     DEF HandlerStep, Arrive, SubmitClaim, NothingToDispatch, StartDispatch, DispatchAccepted,
         DispatchRejected, DispatchLost, DispatchThrows, LocalStart, LocalEnd, StartRecording,
         EndRecording
<1>8. ASSUME NEW a \in App, AppCrash(a) PROVE UNCHANGED <<claims, worker>>
  BY <1>8 DEF AppCrash
<1>9. CASE UNCHANGED vars
  BY <1>2, <1>9 DEF vars
<1> QED BY <1>2, <1>3, <1>4, <1>5, <1>6, <1>7, <1>8, <1>9 DEF Next

(***************************************************************************)
(* Without crashes and failing statements, a claim reads "running" only    *)
(* while a worker is executing its review.                                 *)
(***************************************************************************)
THEOREM RunningClaimsHaveWorkers == Spec => []RunningHasWorker
<1>1. Init => RunningHasWorker
  BY DEF Init, RunningHasWorker, NoTable, NoRow
<1> QED BY <1>1, RunningHasWorkerStep, ClaimInvHolds, PTL DEF Spec

LEMMA CompletedStays ==
  ASSUME ClaimInv, [Next]_vars, NEW k \in RunKey,
         ~LedgerFaults,
         worker[k] # "marking",
         claims[k].status = "completed",
         worker[k] # "executing",
         \A h \in Handler : ~Dispatching(h, k),
         ~Granted(k)
  PROVE  claims'[k].status = "completed"
<1> USE DEF ledgerVars, handlerVars, workerVars
<1>0. /\ claims \in [RunKey -> Row]
      /\ grants \in [RunKey -> Nat]
      /\ LoopInv
  BY DEF ClaimInv, LoopInv, TypeOK, Table
<1>1. ASSUME NEW h \in Handler, GrantStep(h) PROVE claims'[k].status = "completed"
  <2>1. k # Job(h)
    BY <1>0, <1>1 DEF GrantStep, Granted
  <2> QED BY <1>0, <1>1, <2>1 DEF GrantStep
<1>2. ASSUME NEW h \in Handler, RecordStatus(h) PROVE claims'[k].status = "completed"
  <2>1. todo[h] \in Seq(RunKey) /\ todo[h] # <<>> /\ pc[h] = "recording"
    BY <1>0, <1>2 DEF RecordStatus, At, LoopInv, TypeOK
  <2>2. Job(h) \in Range(granted[h])
    BY <1>0, <2>1, ConsumedLoop DEF Job, LoopInv, LoopShape
  <2>3. Job(h) # k
    BY <2>1, <2>2 DEF Dispatching
  <2> QED BY <1>0, <1>2, <2>3 DEF RecordStatus, StatusWrite
<1>3. ASSUME NEW j \in RunKey, WorkerStep(j) \/ WorkerCrash(j) PROVE claims'[k].status = "completed"
  <2>1. CASE WorkerStart(j) \/ WorkerCrash(j)
    BY <2>1 DEF WorkerStart, WorkerCrash
  <2>2. CASE WorkerBegin(j)
    BY <1>0, <2>2 DEF WorkerBegin, WorkBegin, StatusWrite
  <2>3. CASE WorkerMark(j)
    BY <1>0, <2>3 DEF WorkerMark, StatusWrite
  <2>4. CASE WorkerEnd(j)
    <3>1. j # k
      BY <2>4 DEF WorkerEnd
    <3> QED BY <1>0, <2>4, <3>1 DEF WorkerEnd, StatusWrite
  <2>5. CASE WorkerBeginFails(j)
    BY <2>5 DEF WorkerBeginFails
  <2> QED BY <1>3, <2>1, <2>2, <2>3, <2>4, <2>5 DEF WorkerStep
<1>4. CASE AgeStep
  <2>1. PICK j \in RunKey : claims' = Expire(claims, j) \/ claims' = LeaveWindow(claims, j)
    BY <1>4 DEF AgeStep
  <2>2. CASE claims' = Expire(claims, j)
    BY <1>0, <2>2 DEF Expire, Row
  <2>3. CASE claims' = LeaveWindow(claims, j)
    BY <1>0, <2>3 DEF LeaveWindow, Row
  <2> QED BY <2>1, <2>2, <2>3
<1>5. CASE UNCHANGED claims
  BY <1>5
<1>6. ASSUME NEW h \in Handler, CommitClaim(h) \/ FailClaim(h)
      PROVE  UNCHANGED claims \/ GrantStep(h)
  <2>1. todo[h] \in Seq(RunKey) /\ todo[h] # <<>> /\ pc[h] = "inClaim"
    BY <1>0, <1>6 DEF CommitClaim, FailClaim, LoopInv, TypeOK, LoopShape
  <2>2. Job(h) \in RunKey
    BY <2>1, ConsumedLoop DEF Job
  <2> QED BY <1>6, <2>1, <2>2 DEF CommitClaim, FailClaim, ApplyClaim, AfterClaim, GrantStep
<1>7. ASSUME NEW h \in Handler, HandlerStep(h),
             ~(CommitClaim(h) \/ FailClaim(h)), ~RecordStatus(h)
      PROVE  UNCHANGED claims
  BY <1>7
     DEF HandlerStep, Arrive, SubmitClaim, NothingToDispatch, StartDispatch, DispatchAccepted,
         DispatchRejected, DispatchLost, DispatchThrows, LocalStart, LocalEnd, StartRecording,
         EndRecording
<1>8. ASSUME NEW j \in RunKey, ClaimExpires(j) \/ WindowEnds(j) PROVE AgeStep
  BY <1>8 DEF ClaimExpires, WindowEnds, AgeStep
<1>9. ASSUME NEW a \in App, AppCrash(a) PROVE UNCHANGED claims
  BY <1>9 DEF AppCrash
<1>10. CASE UNCHANGED vars
  BY <1>5, <1>10 DEF vars
<1> QED BY <1>1, <1>2, <1>3, <1>4, <1>5, <1>6, <1>7, <1>8, <1>9, <1>10 DEF Next

\* The fallback update of a worker is only reached after a failed statement.
NoFallback == ~LedgerFaults => \A k \in RunKey : worker[k] # "marking"

LEMMA NoFallbackStep == ClaimInv /\ NoFallback /\ [Next]_vars => NoFallback'
<1> SUFFICES ASSUME ClaimInv, NoFallback, [Next]_vars, ~LedgerFaults, NEW k \in RunKey
             PROVE  worker'[k] # "marking"
  BY DEF NoFallback
<1> USE DEF ledgerVars, handlerVars, workerVars
<1>0. worker \in [RunKey -> WorkerState] /\ worker[k] # "marking"
  BY DEF ClaimInv, LoopInv, TypeOK, NoFallback
<1>1. ASSUME NEW h \in Handler, HandlerStep(h) PROVE UNCHANGED worker
  BY <1>1
     DEF HandlerStep, Arrive, SubmitClaim, CommitClaim, FailClaim, NothingToDispatch,
         StartDispatch, DispatchAccepted, DispatchRejected, DispatchLost, DispatchThrows,
         LocalStart, LocalEnd, StartRecording, RecordStatus, EndRecording
<1>2. ASSUME NEW a \in App, AppCrash(a) PROVE UNCHANGED worker
  BY <1>2 DEF AppCrash
<1>3. ASSUME NEW j \in RunKey, WorkerStep(j) \/ WorkerCrash(j) \/ ClaimExpires(j) \/ WindowEnds(j)
      PROVE  worker'[k] # "marking"
  BY <1>0, <1>3
     DEF WorkerStep, WorkerStart, WorkerBegin, WorkerBeginFails, WorkerMark, WorkerEnd,
         WorkerCrash, ClaimExpires, WindowEnds, Work
<1> QED BY <1>0, <1>1, <1>2, <1>3 DEF Next, vars

(***************************************************************************)
(* A completed claim is only moved by a new grant, by the worker that      *)
(* completed it or by a handler that has still to record its dispatch.     *)
(***************************************************************************)
THEOREM CompletedClaimsStay == Spec => CompletedIsFinal
<1>1. Init => NoFallback
  BY DEF Init, NoFallback
<1>2. ClaimInv /\ NoFallback /\ [Next]_vars
      => [\A k \in RunKey :
            /\ ~LedgerFaults
            /\ claims[k].status = "completed"
            /\ worker[k] # "executing"
            /\ \A h \in Handler : ~Dispatching(h, k)
            /\ ~Granted(k)
            => claims'[k].status = "completed"]_vars
  BY CompletedStays DEF NoFallback
<1> QED BY <1>1, <1>2, NoFallbackStep, ClaimInvHolds, PTL DEF Spec, CompletedIsFinal

-----------------------------------------------------------------------------
(* Without the workflow adapter a review runs inside its handler, and the  *)
(* table is only written by claims and by the outcomes the handler saw.    *)

InProcess == Adapter # "github_actions"
OneProcess == \A g, h \in Handler : HostOf[g] = HostOf[h]

Finished == {"completed", "failed", "dispatch_failed"}

\* No workflow run exists, and no outcome makes a claim active again.
NoWorkflowRuns ==
  /\ \A k \in RunKey : ~pending[k] /\ worker[k] = "none"
  /\ \A h \in Handler, k \in RunKey : verdict[h][k] \in Finished \union {"none"}

\* The dispatch loop takes the granted jobs from the first to the last.
InOrder(stage, left, jobs) ==
  /\ stage = "idle" => jobs = <<>>
  /\ stage \in {"dispatching", "inLocalRun"} =>
       /\ Len(left) <= Len(jobs)
       /\ \A i \in 1..Len(left) : left[i] = jobs[i + (Len(jobs) - Len(left))]

DispatchOrder == \A h \in Handler : InOrder(pc[h], todo[h], granted[h])

DirectInv == ClaimInv /\ NoWorkflowRuns /\ DispatchOrder

LEMMA DirectInit == Init => NoWorkflowRuns /\ DispatchOrder
BY DEF Init, NoWorkflowRuns, DispatchOrder, InOrder, NoVerdict

LEMMA NoWorkflowStep ==
  ASSUME InProcess, ClaimInv, NoWorkflowRuns, [Next]_vars
  PROVE  NoWorkflowRuns'
<1> USE DEF ledgerVars, handlerVars, workerVars
<1>0. /\ todo \in [Handler -> Seq(RunKey)]
      /\ verdict \in [Handler -> [RunKey -> ClaimStatus \union {"none"}]]
      /\ \A h \in Handler : pc[h] = "inLocalRun" => todo[h] # <<>>
  BY DEF ClaimInv, LoopInv, TypeOK, LoopShape
<1>1. ASSUME NEW h \in Handler, DispatchRejected(h) \/ LocalEnd(h) PROVE NoWorkflowRuns'
  <2>1. PICK status \in Finished : Returns(h, status)
    BY <1>1 DEF DispatchRejected, LocalEnd, Finished
  <2>2. \A g \in Handler, k \in RunKey : verdict'[g][k] \in {verdict[g][k], status}
    BY <1>0, <2>1 DEF Returns
  <2> QED BY <1>1, <2>2 DEF DispatchRejected, LocalEnd, NoWorkflowRuns
<1>2. ASSUME NEW h \in Handler, NothingToDispatch(h) \/ EndRecording(h) PROVE NoWorkflowRuns'
  BY <1>0, <1>2 DEF NothingToDispatch, EndRecording, Leave, NoVerdict, NoWorkflowRuns
<1>3. ASSUME NEW a \in App, AppCrash(a) PROVE NoWorkflowRuns'
  BY <1>3 DEF AppCrash, NoVerdict, NoWorkflowRuns
<1>4. ASSUME NEW h \in Handler, HandlerStep(h),
             ~(DispatchRejected(h) \/ LocalEnd(h)), ~(NothingToDispatch(h) \/ EndRecording(h))
      PROVE  NoWorkflowRuns'
  BY <1>4
     DEF HandlerStep, Arrive, SubmitClaim, CommitClaim, FailClaim, StartDispatch,
         DispatchAccepted, DispatchLost, DispatchThrows, LocalStart, StartRecording,
         RecordStatus, NoWorkflowRuns, InProcess
<1>5. ASSUME NEW k \in RunKey, ClaimExpires(k) \/ WindowEnds(k) PROVE NoWorkflowRuns'
  BY <1>5 DEF ClaimExpires, WindowEnds, NoWorkflowRuns
<1>6. ASSUME NEW k \in RunKey, WorkerStep(k) \/ WorkerCrash(k) PROVE NoWorkflowRuns'
  BY <1>6
     DEF WorkerStep, WorkerStart, WorkerBegin, WorkerBeginFails, WorkerMark, WorkerEnd,
         WorkerCrash, NoWorkflowRuns
<1>7. CASE UNCHANGED vars
  BY <1>7 DEF vars, NoWorkflowRuns
<1> QED BY <1>1, <1>2, <1>3, <1>4, <1>5, <1>6, <1>7 DEF Next

LEMMA DispatchOrderStep ==
  ASSUME InProcess, ClaimInv, NoWorkflowRuns, DispatchOrder, [Next]_vars
  PROVE  DispatchOrder'
<1> USE DEF ledgerVars, handlerVars, workerVars
<1>0. /\ todo \in [Handler -> Seq(RunKey)]
      /\ granted \in [Handler -> Seq(RunKey)]
      /\ pc \in [Handler -> Stage]
      /\ \A h \in Handler : pc[h] = "inLocalRun" => todo[h] # <<>>
      /\ \A h \in Handler : Len(todo[h]) \in Nat /\ Len(granted[h]) \in Nat
  BY LenProperties DEF ClaimInv, LoopInv, TypeOK, LoopShape
\* Enough: the handlers that the step touches are not dispatching after it.
<1>a. ASSUME NEW h \in Handler, InOrder(pc'[h], todo'[h], granted'[h]),
             \A g \in Handler \ {h} :
               pc'[g] = pc[g] /\ todo'[g] = todo[g] /\ granted'[g] = granted[g]
      PROVE  DispatchOrder'
  BY <1>a DEF DispatchOrder
<1>b. ASSUME NEW stage \in Stage \ {"idle", "dispatching", "inLocalRun"}, NEW left, NEW jobs
      PROVE  InOrder(stage, left, jobs)
  BY DEF InOrder
<1>1. ASSUME NEW h \in Handler, DispatchRejected(h) \/ LocalEnd(h) PROVE DispatchOrder'
  <2>1. /\ todo[h] \in Seq(RunKey) /\ todo[h] # <<>>
        /\ pc[h] \in {"dispatching", "inLocalRun"}
        /\ UNCHANGED granted
        /\ todo' = [todo EXCEPT ![h] = Tail(@)]
        /\ pc' = [pc EXCEPT ![h] = "dispatching"]
    BY <1>0, <1>1 DEF DispatchRejected, LocalEnd, Returns, At
  <2>2. PICK n \in Nat : n = Len(todo[h])
    BY <1>0
  <2>3. PICK m \in Nat : m = Len(granted[h])
    BY <1>0
  <2>4. /\ n # 0 /\ Len(Tail(todo[h])) = n - 1
        /\ \A i \in 1..(n - 1) : Tail(todo[h])[i] = todo[h][i + 1]
    BY <2>1, <2>2, ConsumedPositions
  <2>5. n <= m /\ \A i \in 1..n : todo[h][i] = granted[h][i + (m - n)]
    BY <2>1, <2>2, <2>3 DEF DispatchOrder, InOrder
  <2>6. ASSUME NEW i \in 1..(n - 1) PROVE Tail(todo[h])[i] = granted[h][i + (m - (n - 1))]
    <3>1. i + 1 \in 1..n /\ (i + 1) + (m - n) = i + (m - (n - 1))
      OBVIOUS
    <3> QED BY <2>4, <2>5, <3>1
  <2>7. todo'[h] = Tail(todo[h]) /\ pc'[h] = "dispatching"
    BY <1>0, <2>1
  <2>8. \A g \in Handler \ {h} : todo'[g] = todo[g] /\ pc'[g] = pc[g]
    BY <1>0, <2>1
  <2>9. InOrder("dispatching", Tail(todo[h]), granted[h])
    <3>1. n - 1 <= m
      BY <2>5
    <3> QED BY <2>3, <2>4, <2>6, <3>1 DEF InOrder
  <2>10. granted'[h] = granted[h]
    BY <2>1
  <2> QED BY <1>a, <2>1, <2>7, <2>8, <2>9, <2>10
<1>2. ASSUME NEW h \in Handler, NothingToDispatch(h) \/ EndRecording(h) PROVE DispatchOrder'
  <2>1. pc'[h] = "done" /\ Leave(h, "done")
    BY <1>0, <1>2 DEF NothingToDispatch, EndRecording, Leave
  <2> QED BY <1>0, <1>a, <1>b, <2>1 DEF Leave, Stage
<1>3. ASSUME NEW a \in App, AppCrash(a) PROVE DispatchOrder'
  <2>1. \A g \in Handler :
          \/ pc'[g] = "crashed"
          \/ pc'[g] = pc[g] /\ todo'[g] = todo[g] /\ granted'[g] = granted[g]
    BY <1>3 DEF AppCrash
  <2> QED BY <1>b, <2>1 DEF DispatchOrder, Stage
<1>4. ASSUME NEW h \in Handler, CommitClaim(h) \/ FailClaim(h) PROVE DispatchOrder'
  <2>1. PICK code : Decide(h, code)
    BY <1>4 DEF CommitClaim, FailClaim
  <2>2. \A g \in Handler \ {h} :
          pc'[g] = pc[g] /\ todo'[g] = todo[g] /\ granted'[g] = granted[g]
    BY <1>0, <2>1 DEF Decide
  <2>3. pc'[h] = "claiming"
    BY <1>0, <2>1 DEF Decide
  <2> QED BY <1>a, <1>b, <2>2, <2>3 DEF Stage
<1>5. ASSUME NEW h \in Handler, StartDispatch(h) PROVE DispatchOrder'
  <2>1. /\ UNCHANGED granted /\ todo' = [todo EXCEPT ![h] = granted[h]]
        /\ pc' = [pc EXCEPT ![h] = "dispatching"]
    BY <1>5 DEF StartDispatch
  <2>2. \A i \in 1..Len(granted[h]) : i + (Len(granted[h]) - Len(granted[h])) = i
    BY <1>0
  <2>3. InOrder(pc'[h], todo'[h], granted'[h])
    BY <1>0, <2>1, <2>2 DEF InOrder
  <2> QED BY <1>0, <1>a, <2>1, <2>3
<1>6. ASSUME NEW h \in Handler,
             Arrive(h) \/ SubmitClaim(h) \/ StartRecording(h) \/ RecordStatus(h)
      PROVE  DispatchOrder'
  <2>1. pc'[h] \in Stage \ {"idle", "dispatching", "inLocalRun"}
    BY <1>0, <1>6 DEF Arrive, SubmitClaim, StartRecording, RecordStatus, At, Stage
  <2>2. \A g \in Handler \ {h} :
          pc'[g] = pc[g] /\ todo'[g] = todo[g] /\ granted'[g] = granted[g]
    BY <1>0, <1>6 DEF Arrive, SubmitClaim, StartRecording, RecordStatus
  <2> QED BY <1>a, <1>b, <2>1, <2>2
<1>7. ASSUME NEW h \in Handler, LocalStart(h) PROVE DispatchOrder'
  BY <1>0, <1>7 DEF LocalStart, At, DispatchOrder, InOrder
<1>8. ASSUME NEW k \in RunKey, WorkerStep(k) \/ WorkerCrash(k) \/ ClaimExpires(k) \/ WindowEnds(k)
      PROVE  DispatchOrder'
  BY <1>8
     DEF WorkerStep, WorkerStart, WorkerBegin, WorkerBeginFails, WorkerMark, WorkerEnd,
         WorkerCrash, ClaimExpires, WindowEnds, DispatchOrder
<1>9. CASE UNCHANGED vars
  BY <1>9 DEF vars, DispatchOrder
<1> QED BY <1>1, <1>2, <1>3, <1>4, <1>5, <1>6, <1>7, <1>8, <1>9
        DEF Next, HandlerStep, DispatchAccepted, DispatchLost, DispatchThrows, InProcess

LEMMA DirectInvHolds == ASSUME InProcess PROVE Spec => []DirectInv
<1>1. Init => NoWorkflowRuns /\ DispatchOrder
  BY DirectInit
<1>2. ClaimInv /\ NoWorkflowRuns /\ DispatchOrder /\ [Next]_vars
      => (NoWorkflowRuns /\ DispatchOrder)'
  BY NoWorkflowStep, DispatchOrderStep
<1> QED BY <1>1, <1>2, ClaimInvHolds, PTL DEF Spec, DirectInv

\* Synchronous children exclude each other, and with them the statements
\* that could make a snapshot stale.
CurrentSnapshots ==
  \A h \in Handler :
    /\ pc[h] \in Blocking => \A g \in Handler \ {h} : pc[g] \notin Blocking
    /\ pc[h] = "inClaim" => snap[h] = claims

\* The slots taken, of which there are finitely many.
SlotsCounted ==
  \A s \in Scope :
    /\ IsFiniteSet(ActiveIn(claims, s))
    /\ Cardinality(ActiveIn(claims, s)) <= MaxConcurrent[s]

\* A handler's own step, seen from the processes: it had its process for itself.
LEMMA HandlersTakeTurns ==
  ASSUME TypeOK, OneProcess, CurrentSnapshots, NEW h \in Handler, HandlerStep(h)
  PROVE  /\ \A g \in Handler \ {h} : pc'[g] = pc[g] /\ pc[g] \notin Blocking
         /\ \/ pc'[h] \notin Blocking
            \/ pc'[h] = "inLocalRun"
            \/ snap'[h] = claims /\ UNCHANGED claims
<1> USE DEF ledgerVars, handlerVars, workerVars
<1>0. pc \in [Handler -> Stage] /\ snap \in [Handler -> Table]
  BY DEF TypeOK
<1>1. ASSUME NEW stage, At(h, stage) PROVE \A g \in Handler \ {h} : pc[g] \notin Blocking
  BY <1>1 DEF At, HostFree, OneProcess
<1>2. ASSUME pc[h] \in Blocking PROVE \A g \in Handler \ {h} : pc[g] \notin Blocking
  BY <1>2 DEF CurrentSnapshots
<1>3. ASSUME NEW stage \in Stage, pc' = [pc EXCEPT ![h] = stage]
      PROVE  pc'[h] = stage /\ \A g \in Handler \ {h} : pc'[g] = pc[g]
  BY <1>0, <1>3
<1>4. CASE SubmitClaim(h)
  BY <1>0, <1>1, <1>3, <1>4 DEF SubmitClaim, Stage
<1>5. CASE LocalStart(h)
  BY <1>1, <1>3, <1>5 DEF LocalStart, Stage
<1>6. CASE CommitClaim(h) \/ FailClaim(h)
  BY <1>2, <1>3, <1>6 DEF CommitClaim, FailClaim, Decide, Blocking, Stage
<1>7. CASE LocalEnd(h)
  BY <1>2, <1>3, <1>7 DEF LocalEnd, Blocking, Stage
<1>8. CASE \/ Arrive(h) \/ StartDispatch(h) \/ StartRecording(h)
           \/ DispatchThrows(h) \/ NothingToDispatch(h) \/ EndRecording(h)
  BY <1>1, <1>3, <1>8
     DEF Arrive, StartDispatch, StartRecording, DispatchThrows, NothingToDispatch,
         EndRecording, Leave, Blocking, Stage
<1>9. CASE DispatchAccepted(h) \/ DispatchRejected(h) \/ DispatchLost(h) \/ RecordStatus(h)
  BY <1>1, <1>9
     DEF DispatchAccepted, DispatchRejected, DispatchLost, RecordStatus, At, Blocking
<1> QED BY <1>4, <1>5, <1>6, <1>7, <1>8, <1>9 DEF HandlerStep

LEMMA CurrentSnapshotsStep ==
  ASSUME OneProcess, DirectInv, CurrentSnapshots, [Next]_vars
  PROVE  CurrentSnapshots'
<1> USE DEF ledgerVars, handlerVars, workerVars
<1>1. ASSUME NEW h \in Handler, HandlerStep(h) PROVE CurrentSnapshots'
  BY <1>1, HandlersTakeTurns DEF CurrentSnapshots, Blocking, DirectInv, ClaimInv, LoopInv
<1>2. ASSUME NEW a \in App, AppCrash(a) PROVE CurrentSnapshots'
  <2>1. ASSUME NEW g \in Handler, pc'[g] # "crashed" PROVE pc'[g] = pc[g] /\ snap'[g] = snap[g]
    BY <1>2, <2>1 DEF AppCrash
  <2>2. UNCHANGED claims
    BY <1>2 DEF AppCrash
  <2> QED BY <2>1, <2>2 DEF CurrentSnapshots, Blocking
<1>3. ASSUME NEW k \in RunKey, ClaimExpires(k) \/ WindowEnds(k) PROVE CurrentSnapshots'
  BY <1>3 DEF ClaimExpires, WindowEnds, NoClaimInFlight, CurrentSnapshots
<1>4. ASSUME NEW k \in RunKey PROVE ~WorkerStep(k) /\ ~WorkerCrash(k)
  BY DEF WorkerStep, WorkerStart, WorkerBegin, WorkerBeginFails, WorkerMark, WorkerEnd,
         WorkerCrash, DirectInv, NoWorkflowRuns
<1>5. CASE UNCHANGED vars
  BY <1>5 DEF vars, CurrentSnapshots
<1> QED BY <1>1, <1>2, <1>3, <1>4, <1>5 DEF Next

\* A review that ended is recorded with a status that holds no slot.
FinishStep ==
  /\ \E k \in RunKey, status \in Finished : claims' = StatusWrite(claims, k, status)
  /\ UNCHANGED grants

LEMMA DirectTableSteps ==
  ASSUME DirectInv, [Next]_vars
  PROVE  \/ UNCHANGED <<claims, grants>>
         \/ FinishStep
         \/ \E h \in Handler : GrantStep(h)
         \/ AgeStep
<1> USE DEF ledgerVars, handlerVars, workerVars
<1>0. TypeOK /\ LoopShape /\ OutcomesKnown /\ NoWorkflowRuns
  BY DEF DirectInv, ClaimInv, LoopInv
<1>1. ASSUME NEW h \in Handler, CommitClaim(h) \/ FailClaim(h)
      PROVE  UNCHANGED <<claims, grants>> \/ GrantStep(h)
  <2>1. pc[h] = "inClaim" /\ todo[h] \in Seq(RunKey) /\ todo[h] # <<>>
    BY <1>0, <1>1 DEF CommitClaim, FailClaim, TypeOK, LoopShape
  <2>2. Job(h) \in RunKey
    BY <2>1, ConsumedLoop DEF Job
  <2>3. ApplyClaim(h) \/ UNCHANGED <<claims, grants>>
    BY <1>1 DEF CommitClaim, FailClaim
  <2> QED BY <2>1, <2>2, <2>3 DEF ApplyClaim, AfterClaim, GrantStep
<1>2. ASSUME NEW h \in Handler, RecordStatus(h) PROVE UNCHANGED <<claims, grants>> \/ FinishStep
  <2>1. todo[h] \in Seq(RunKey) /\ todo[h] # <<>> /\ pc[h] = "recording"
    BY <1>0, <1>2 DEF RecordStatus, At, TypeOK
  <2>2. Job(h) \in RunKey /\ Job(h) \in Range(granted[h])
    BY <1>0, <2>1, ConsumedLoop DEF Job, LoopShape
  <2>3. verdict[h][Job(h)] \in Finished
    BY <1>0, <2>1, <2>2 DEF OutcomesKnown, NoWorkflowRuns
  <2> QED BY <1>2, <2>2, <2>3 DEF RecordStatus, FinishStep
<1>3. ASSUME NEW h \in Handler, HandlerStep(h),
             ~(CommitClaim(h) \/ FailClaim(h)), ~RecordStatus(h)
      PROVE  UNCHANGED <<claims, grants>>
  BY <1>3
     DEF HandlerStep, Arrive, SubmitClaim, NothingToDispatch, StartDispatch, DispatchAccepted,
         DispatchRejected, DispatchLost, DispatchThrows, LocalStart, LocalEnd, StartRecording,
         EndRecording
<1>4. ASSUME NEW k \in RunKey, ClaimExpires(k) \/ WindowEnds(k) PROVE AgeStep
  BY <1>4 DEF ClaimExpires, WindowEnds, AgeStep
<1>5. ASSUME NEW k \in RunKey PROVE ~WorkerStep(k) /\ ~WorkerCrash(k)
  BY <1>0 DEF WorkerStep, WorkerStart, WorkerBegin, WorkerBeginFails, WorkerMark, WorkerEnd,
              WorkerCrash, NoWorkflowRuns
<1>6. ASSUME NEW a \in App, AppCrash(a) PROVE UNCHANGED <<claims, grants>>
  BY <1>6 DEF AppCrash
<1>7. CASE UNCHANGED vars
  BY <1>7 DEF vars
<1> QED BY <1>1, <1>2, <1>3, <1>4, <1>5, <1>6, <1>7 DEF Next

LEMMA SlotsCountedStep ==
  ASSUME DirectInv, CurrentSnapshots, SlotsCounted, [Next]_vars
  PROVE  SlotsCounted'
<1> SUFFICES ASSUME NEW s \in Scope
             PROVE  /\ IsFiniteSet(ActiveIn(claims', s))
                    /\ Cardinality(ActiveIn(claims', s)) <= MaxConcurrent[s]
  BY DEF SlotsCounted
<1>0. /\ claims \in [RunKey -> Row]
      /\ MaxConcurrent[s] \in Nat
      /\ IsFiniteSet(ActiveIn(claims, s))
      /\ Cardinality(ActiveIn(claims, s)) \in Nat
      /\ Cardinality(ActiveIn(claims, s)) <= MaxConcurrent[s]
  BY LedgerAssumption, FS_CardinalityType
     DEF DirectInv, ClaimInv, LoopInv, TypeOK, Table, SlotsCounted
<1> USE DEF ActiveIn, Active, Unexpired
<1>1. ASSUME ActiveIn(claims', s) \subseteq ActiveIn(claims, s)
      PROVE  /\ IsFiniteSet(ActiveIn(claims', s))
             /\ Cardinality(ActiveIn(claims', s)) <= MaxConcurrent[s]
  <2> HIDE DEF ActiveIn
  <2> QED BY <1>0, <1>1, FewerOrAsMany
<1>2. CASE FinishStep
  <2>1. PICK k \in RunKey, status \in Finished : claims' = StatusWrite(claims, k, status)
    BY <1>2 DEF FinishStep
  <2>2. status \notin ActiveStatus
    BY DEF Finished, ActiveStatus
  <2> QED BY <1>0, <1>1, <2>1, <2>2 DEF StatusWrite, Row
<1>3. CASE AgeStep
  <2>1. PICK k \in RunKey : claims' = Expire(claims, k) \/ claims' = LeaveWindow(claims, k)
    BY <1>3 DEF AgeStep
  <2>2. CASE claims' = Expire(claims, k)
    BY <1>0, <1>1, <2>2 DEF Expire, Row
  <2>3. CASE claims' = LeaveWindow(claims, k)
    BY <1>0, <1>1, <2>3 DEF LeaveWindow, Row
  <2> QED BY <2>1, <2>2, <2>3
<1>4. ASSUME NEW h \in Handler, GrantStep(h)
      PROVE  /\ IsFiniteSet(ActiveIn(claims', s))
             /\ Cardinality(ActiveIn(claims', s)) <= MaxConcurrent[s]
  <2>1. PICK k \in RunKey : k = Job(h)
    BY <1>4 DEF GrantStep
  <2>2. \A j \in RunKey \ {k} : claims'[j] = claims[j]
    BY <1>0, <1>4, <2>1 DEF GrantStep
  <2>3. CASE s \notin ScopesOf[k]
    BY <1>1, <2>2, <2>3
  <2>4. CASE s \in ScopesOf[k]
    <3>1. snap[h] = claims /\ Exceeded(snap[h], k) = {}
      BY <1>4, <2>1 DEF GrantStep, Inserts, CurrentSnapshots
    <3>2. ~(Cardinality(ActiveIn(claims, s)) >= MaxConcurrent[s])
      BY <2>4, <3>1 DEF Exceeded
    <3>3. ActiveIn(claims', s) \subseteq ActiveIn(claims, s) \cup {k}
      BY <2>2
    <3> HIDE DEF ActiveIn
    <3>4. /\ IsFiniteSet(ActiveIn(claims, s) \cup {k})
          /\ Cardinality(ActiveIn(claims', s)) <= Cardinality(ActiveIn(claims, s)) + 1
      BY <1>0, <3>3, OneMoreAtMost, FS_AddElement
    <3>5. IsFiniteSet(ActiveIn(claims', s)) /\ Cardinality(ActiveIn(claims', s)) \in Nat
      BY <3>3, <3>4, FewerOrAsMany
    <3> QED BY <1>0, <3>2, <3>4, <3>5
  <2> QED BY <2>3, <2>4
<1>5. CASE UNCHANGED <<claims, grants>>
  BY <1>1, <1>5
<1> QED BY <1>2, <1>3, <1>4, <1>5, DirectTableSteps

(***************************************************************************)
(* The caps hold for any number of handlers on ONE process that runs its   *)
(* reviews itself (or has no worker), whichever statements fail and        *)
(* whenever the process dies.  Both hypotheses are needed: StaleSnapshot   *)
(* shows what a second process does, and a duplicate workflow run makes a  *)
(* finished claim active again.                                            *)
(***************************************************************************)
THEOREM SlotsNeverOverfilled ==
  ASSUME InProcess, OneProcess
  PROVE  Spec => []SlotsWithinCap
<1>1. Init => CurrentSnapshots /\ SlotsCounted
  <2> SUFFICES ASSUME Init PROVE CurrentSnapshots /\ SlotsCounted
    OBVIOUS
  <2>1. CurrentSnapshots
    BY DEF Init, CurrentSnapshots, Blocking
  <2>2. \A s \in Scope : ActiveIn(claims, s) = {} /\ MaxConcurrent[s] \in Nat
    BY LedgerAssumption DEF Init, NoTable, NoRow, ActiveIn, Active, Unexpired
  <2> QED BY <2>1, <2>2, FS_EmptySet DEF SlotsCounted
<1>2. DirectInv /\ CurrentSnapshots /\ SlotsCounted /\ [Next]_vars
      => (CurrentSnapshots /\ SlotsCounted)'
  BY CurrentSnapshotsStep, SlotsCountedStep
<1>3. SlotsCounted => SlotsWithinCap
  BY DEF SlotsCounted, SlotsWithinCap
<1> QED BY <1>1, <1>2, <1>3, DirectInvHolds, PTL DEF Spec

\* The positions of granted[h] whose review is still to end.
Undone(h) ==
  IF pc[h] \in {"claiming", "inClaim"} THEN 1..Len(granted[h])
  ELSE IF pc[h] \in {"dispatching", "inLocalRun"}
       THEN (Len(granted[h]) - Len(todo[h]) + 1)..Len(granted[h])
       ELSE {}

\* The reviews of k that handlers have been granted and still owe.
Owed(k) == {d \in Handler \X Nat : d[2] \in Undone(d[1]) /\ granted[d[1]][d[2]] = k}

GrantsCoverReviews ==
  \A k \in RunKey :
    /\ IsFiniteSet(Owed(k))
    /\ completions[k] + Cardinality(Owed(k)) <= grants[k]

LEMMA UndonePositions ==
  ASSUME TypeOK, DispatchOrder, NEW h \in Handler
  PROVE  /\ Len(granted[h]) \in Nat /\ Len(todo[h]) \in Nat
         /\ Undone(h) \subseteq 1..Len(granted[h])
BY LenProperties DEF TypeOK, DispatchOrder, InOrder, Undone

\* Steps that neither grant nor end a review leave no handler owing more.
LEMMA NothingMoreOwed ==
  ASSUME NEW k \in RunKey, GrantsCoverReviews, TypeOK,
         Owed(k)' \subseteq Owed(k), completions'[k] = completions[k],
         grants'[k] \in Nat, grants'[k] >= grants[k]
  PROVE  /\ IsFiniteSet(Owed(k)')
         /\ completions'[k] + Cardinality(Owed(k)') <= grants'[k]
<1>1. /\ IsFiniteSet(Owed(k))
      /\ completions[k] + Cardinality(Owed(k)) <= grants[k]
      /\ completions[k] \in Nat /\ grants[k] \in Nat
  BY DEF GrantsCoverReviews, TypeOK
<1>2. /\ IsFiniteSet(Owed(k)')
      /\ Cardinality(Owed(k)') \in Nat /\ Cardinality(Owed(k)) \in Nat
      /\ Cardinality(Owed(k)') <= Cardinality(Owed(k))
  BY <1>1, FewerOrAsMany
<1> QED BY <1>1, <1>2

\* A job that leaves the dispatch loop is no longer undone.
LEMMA DispatchLoopAdvances ==
  ASSUME TypeOK, DispatchOrder, NEW h \in Handler,
         pc[h] \in {"dispatching", "inLocalRun"}, todo[h] # <<>>,
         pc' = [pc EXCEPT ![h] = "dispatching"], todo' = [todo EXCEPT ![h] = Tail(@)],
         UNCHANGED granted
  PROVE  \E i \in Undone(h) :
           /\ granted[h][i] = Job(h)
           /\ Undone(h)' = Undone(h) \ {i}
<1>1. /\ todo[h] \in Seq(RunKey)
      /\ todo'[h] = Tail(todo[h]) /\ pc'[h] = "dispatching" /\ granted'[h] = granted[h]
  BY DEF TypeOK
<1>2. PICK n \in Nat, m \in Nat : n = Len(todo[h]) /\ m = Len(granted[h])
  BY UndonePositions
<1>3. n # 0 /\ Len(todo'[h]) = n - 1 /\ Job(h) = todo[h][1]
  BY <1>1, <1>2, ConsumedPositions DEF Job
<1>4. n <= m /\ \A i \in 1..n : todo[h][i] = granted[h][i + (m - n)]
  BY <1>2 DEF DispatchOrder, InOrder
<1>5. Undone(h) = (m - n + 1)..m
  BY <1>2 DEF Undone
<1>6. Undone(h)' = (m - (n - 1) + 1)..m
  BY <1>1, <1>2, <1>3 DEF Undone
<1>7. 1 \in 1..n /\ 1 + (m - n) = m - n + 1
  BY <1>3
<1>8. granted[h][m - n + 1] = Job(h)
  BY <1>3, <1>4, <1>7
<1>9. /\ m - n + 1 \in (m - n + 1)..m
      /\ (m - (n - 1) + 1)..m = ((m - n + 1)..m) \ {m - n + 1}
  BY <1>3, <1>4
<1> QED BY <1>5, <1>6, <1>8, <1>9

LEMMA GrantsCoverReviewsStep ==
  ASSUME RunMode = "enforce", InProcess, DirectInv, GrantsCoverReviews, [Next]_vars
  PROVE  GrantsCoverReviews'
<1> USE DEF ledgerVars, handlerVars, workerVars
<1>0. /\ TypeOK /\ TypeOK' /\ LoopShape /\ NoWorkflowRuns /\ DispatchOrder /\ DispatchOrder'
      /\ pc \in [Handler -> Stage]
      /\ todo \in [Handler -> Seq(RunKey)] /\ granted \in [Handler -> Seq(RunKey)]
      /\ grants \in [RunKey -> Nat] /\ completions \in [RunKey -> Nat]
  BY LoopInvStep, DispatchOrderStep DEF DirectInv, ClaimInv, LoopInv, TypeOK
\* Enough: a step of h after which h owes nothing it did not owe before.
<1>a. ASSUME NEW h \in Handler,
             \A g \in Handler \ {h} :
               pc'[g] = pc[g] /\ todo'[g] = todo[g] /\ granted'[g] = granted[g],
             Undone(h)' \subseteq Undone(h),
             Undone(h)' = {} \/ granted'[h] = granted[h]
      PROVE  \A k \in RunKey : Owed(k)' \subseteq Owed(k)
  <2>1. \A g \in Handler : Undone(g)' \subseteq Undone(g)
    BY <1>a DEF Undone
  <2> QED BY <1>a, <2>1 DEF Owed
<1>b. ASSUME UNCHANGED completions, \A k \in RunKey : grants'[k] >= grants[k],
             \A k \in RunKey : Owed(k)' \subseteq Owed(k)
      PROVE  GrantsCoverReviews'
  BY <1>0, <1>b, NothingMoreOwed DEF GrantsCoverReviews, TypeOK
<1>c. ASSUME UNCHANGED grants PROVE \A k \in RunKey : grants'[k] >= grants[k]
  BY <1>0, <1>c
<1>1. ASSUME NEW h \in Handler,
             \/ Arrive(h) \/ SubmitClaim(h) \/ NothingToDispatch(h) \/ StartDispatch(h)
             \/ LocalStart(h) \/ StartRecording(h) \/ RecordStatus(h) \/ EndRecording(h)
      PROVE  GrantsCoverReviews'
  <2>1. UNCHANGED <<grants, completions>>
    BY <1>1 DEF Arrive, SubmitClaim, NothingToDispatch, StartDispatch, LocalStart,
                StartRecording, RecordStatus, EndRecording
  <2>2. \A g \in Handler \ {h} :
          pc'[g] = pc[g] /\ todo'[g] = todo[g] /\ granted'[g] = granted[g]
    BY <1>0, <1>1
       DEF Arrive, SubmitClaim, NothingToDispatch, StartDispatch, LocalStart, StartRecording,
           RecordStatus, EndRecording, Leave
  <2>3. Len(granted[h]) \in Nat /\ Len(todo[h]) \in Nat
    BY <1>0, UndonePositions
  <2>4. CASE Arrive(h)
    <3>1. granted'[h] = <<>> /\ pc'[h] = "claiming"
      BY <1>0, <2>4 DEF Arrive, At, DispatchOrder, InOrder
    <3>2. Undone(h)' = {}
      BY <3>1 DEF Undone
    <3> QED BY <1>a, <1>b, <1>c, <2>1, <2>2, <3>2
  <2>5. CASE SubmitClaim(h)
    <3>1. granted'[h] = granted[h] /\ pc[h] = "claiming" /\ pc'[h] = "inClaim"
      BY <1>0, <2>5 DEF SubmitClaim, At
    <3>2. Undone(h)' = Undone(h)
      BY <3>1 DEF Undone
    <3> QED BY <1>a, <1>b, <1>c, <2>1, <2>2, <3>1, <3>2
  <2>6. CASE StartDispatch(h)
    <3>1. /\ granted'[h] = granted[h] /\ todo'[h] = granted[h]
          /\ pc[h] = "claiming" /\ pc'[h] = "dispatching"
      BY <1>0, <2>6 DEF StartDispatch, At
    <3>2. Undone(h)' = (Len(granted[h]) - Len(granted[h]) + 1)..Len(granted[h])
      BY <3>1 DEF Undone
    <3>3. Undone(h)' = Undone(h)
      BY <2>3, <3>1, <3>2 DEF Undone
    <3> QED BY <1>a, <1>b, <1>c, <2>1, <2>2, <3>1, <3>3
  <2>7. CASE LocalStart(h)
    <3>1. /\ granted'[h] = granted[h] /\ todo'[h] = todo[h]
          /\ pc[h] = "dispatching" /\ pc'[h] = "inLocalRun"
      BY <1>0, <2>7 DEF LocalStart, At
    <3>2. Undone(h)' = Undone(h)
      BY <3>1 DEF Undone
    <3> QED BY <1>a, <1>b, <1>c, <2>1, <2>2, <3>1, <3>2
  <2>8. CASE NothingToDispatch(h) \/ StartRecording(h) \/ RecordStatus(h) \/ EndRecording(h)
    <3>1. pc'[h] \in {"done", "recording"}
      BY <1>0, <2>8 DEF NothingToDispatch, StartRecording, RecordStatus, EndRecording, Leave, At
    <3>2. Undone(h)' = {}
      BY <3>1 DEF Undone
    <3> QED BY <1>a, <1>b, <1>c, <2>1, <2>2, <3>2
  <2> QED BY <1>1, <2>4, <2>5, <2>6, <2>7, <2>8
<1>2. ASSUME NEW h \in Handler, CommitClaim(h) \/ FailClaim(h) PROVE GrantsCoverReviews'
  <2>1. /\ todo[h] \in Seq(RunKey) /\ todo[h] # <<>> /\ granted[h] \in Seq(RunKey)
        /\ pc[h] = "inClaim" /\ UNCHANGED completions
    BY <1>0, <1>2 DEF CommitClaim, FailClaim, LoopShape
  <2>2. PICK k \in RunKey : k = Job(h)
    BY <2>1, ConsumedLoop DEF Job
  <2>3. PICK code : /\ Decide(h, code)
                    /\ code = "claimed" => CommitClaim(h) /\ code = ClaimResult(snap[h], claims, Job(h))
    BY <1>2 DEF CommitClaim, FailClaim
  <2>4. /\ pc'[h] = "claiming"
        /\ \A g \in Handler \ {h} :
             pc'[g] = pc[g] /\ todo'[g] = todo[g] /\ granted'[g] = granted[g]
    BY <1>0, <2>3 DEF Decide
  <2>5. grants' = [grants EXCEPT ![k] = @ + 1] \/ UNCHANGED grants
    BY <1>2, <2>2 DEF CommitClaim, FailClaim, ApplyClaim
  <2>6. CASE ~Allowed(code)
    <3>1. granted'[h] = granted[h]
      BY <2>3, <2>6 DEF Decide
    <3>2. Undone(h)' = Undone(h)
      BY <2>1, <2>4, <3>1 DEF Undone
    <3>3. \A j \in RunKey : grants'[j] >= grants[j]
      <4>1. CASE grants' = [grants EXCEPT ![k] = @ + 1]
        BY <1>0, <4>1
      <4> QED BY <1>c, <2>5, <4>1
    <3> QED BY <1>a, <1>b, <2>1, <2>4, <3>1, <3>2, <3>3
  <2>7. CASE Allowed(code)
    <3>1. CommitClaim(h) /\ Inserts(snap[h], claims, Job(h))
      BY <2>3, <2>7 DEF Allowed, ClaimResult
    <3>2. grants' = [grants EXCEPT ![k] = @ + 1]
      BY <2>2, <3>1 DEF CommitClaim, ApplyClaim
    <3>3. granted'[h] = Append(granted[h], k)
      BY <1>0, <2>2, <2>3, <2>7 DEF Decide
    <3>4. PICK n \in Nat : n = Len(granted[h])
      BY <2>1, FilledPositions
    <3>5. /\ Len(granted'[h]) = n + 1 /\ granted'[h][n + 1] = k
          /\ \A i \in 1..n : granted'[h][i] = granted[h][i]
      BY <2>1, <3>3, <3>4, FilledPositions
    <3>6. Undone(h) = 1..n /\ Undone(h)' = 1..(n + 1)
      BY <2>1, <2>4, <3>4, <3>5 DEF Undone
    <3>7. \A g \in Handler \ {h} : Undone(g)' = Undone(g)
      BY <2>4 DEF Undone
    <3>8. ASSUME NEW j \in RunKey \ {k} PROVE Owed(j)' \subseteq Owed(j)
      BY <2>4, <3>5, <3>6, <3>7 DEF Owed
    <3>9. Owed(k)' \subseteq Owed(k) \cup {<<h, n + 1>>}
      BY <2>4, <3>5, <3>6, <3>7 DEF Owed
    <3>10. /\ IsFiniteSet(Owed(k)')
           /\ completions'[k] + Cardinality(Owed(k)') <= grants'[k]
      <4>1. /\ IsFiniteSet(Owed(k))
            /\ completions[k] + Cardinality(Owed(k)) <= grants[k]
            /\ completions[k] \in Nat /\ grants[k] \in Nat /\ Cardinality(Owed(k)) \in Nat
        BY <1>0, FS_CardinalityType DEF GrantsCoverReviews
      <4>2. /\ IsFiniteSet(Owed(k) \cup {<<h, n + 1>>})
            /\ Cardinality(Owed(k)') <= Cardinality(Owed(k)) + 1
        BY <3>9, <4>1, OneMoreAtMost, FS_AddElement
      <4>3. IsFiniteSet(Owed(k)') /\ Cardinality(Owed(k)') \in Nat
        BY <3>9, <4>2, FewerOrAsMany
      <4>4. completions'[k] = completions[k] /\ grants'[k] = grants[k] + 1
        BY <1>0, <2>1, <3>2
      <4> QED BY <4>1, <4>2, <4>3, <4>4
    <3>11. ASSUME NEW j \in RunKey \ {k}
           PROVE  /\ IsFiniteSet(Owed(j)')
                  /\ completions'[j] + Cardinality(Owed(j)') <= grants'[j]
      <4>1. completions'[j] = completions[j] /\ grants'[j] = grants[j] /\ grants[j] \in Nat
        BY <1>0, <2>1, <3>2
      <4>2. grants'[j] \in Nat /\ grants'[j] >= grants[j]
        BY <4>1
      <4> QED BY <1>0, <3>8, <4>1, <4>2, NothingMoreOwed
    <3> QED BY <3>10, <3>11 DEF GrantsCoverReviews
  <2> QED BY <2>6, <2>7
<1>3. ASSUME NEW h \in Handler, DispatchRejected(h) \/ LocalEnd(h) PROVE GrantsCoverReviews'
  <2>1. /\ pc[h] \in {"dispatching", "inLocalRun"} /\ todo[h] # <<>>
        /\ pc' = [pc EXCEPT ![h] = "dispatching"] /\ todo' = [todo EXCEPT ![h] = Tail(@)]
        /\ UNCHANGED <<granted, grants>>
    BY <1>0, <1>3 DEF DispatchRejected, LocalEnd, Returns, At, LoopShape
  <2>2. PICK i \in Undone(h) : granted[h][i] = Job(h) /\ Undone(h)' = Undone(h) \ {i}
    BY <1>0, <2>1, DispatchLoopAdvances
  <2>3. \A g \in Handler \ {h} :
          pc'[g] = pc[g] /\ todo'[g] = todo[g] /\ granted'[g] = granted[g]
    BY <1>0, <2>1
  <2>4. \A k \in RunKey : Owed(k)' \subseteq Owed(k)
    BY <1>a, <2>1, <2>2, <2>3
  <2>5. CASE UNCHANGED completions
    BY <1>b, <1>c, <2>1, <2>4, <2>5
  <2>6. CASE completions' = [completions EXCEPT ![Job(h)] = @ + 1]
    <3>1. PICK k \in RunKey : k = Job(h)
      BY <1>0, <2>1, ConsumedLoop DEF Job
    <3>2. <<h, i>> \in Owed(k) /\ Owed(k)' \subseteq Owed(k) \ {<<h, i>>}
      <4>1. i \in Nat
        BY <1>0, <2>2, UndonePositions
      <4>2. <<h, i>> \in Owed(k)
        BY <2>2, <3>1, <4>1 DEF Owed
      <4>3. <<h, i>> \notin Owed(k)'
        BY <2>2 DEF Owed
      <4> QED BY <2>4, <4>2, <4>3
    <3>3. /\ IsFiniteSet(Owed(k)')
          /\ completions'[k] + Cardinality(Owed(k)') <= grants'[k]
      <4>1. /\ IsFiniteSet(Owed(k))
            /\ completions[k] + Cardinality(Owed(k)) <= grants[k]
            /\ completions[k] \in Nat /\ grants[k] \in Nat /\ Cardinality(Owed(k)) \in Nat
        BY <1>0, FS_CardinalityType DEF GrantsCoverReviews
      <4>2. Cardinality(Owed(k)') + 1 <= Cardinality(Owed(k))
        BY <3>2, <4>1, OneFewerAtLeast
      <4>3. IsFiniteSet(Owed(k)') /\ Cardinality(Owed(k)') \in Nat
        BY <2>4, <4>1, FewerOrAsMany
      <4>4. completions'[k] = completions[k] + 1 /\ grants'[k] = grants[k]
        BY <1>0, <2>1, <2>6, <3>1
      <4> QED BY <4>1, <4>2, <4>3, <4>4
    <3>4. ASSUME NEW j \in RunKey \ {k}
          PROVE  /\ IsFiniteSet(Owed(j)')
                 /\ completions'[j] + Cardinality(Owed(j)') <= grants'[j]
      <4>1. completions'[j] = completions[j] /\ grants'[j] = grants[j] /\ grants[j] \in Nat
        BY <1>0, <2>1, <2>6, <3>1
      <4>2. grants'[j] \in Nat /\ grants'[j] >= grants[j]
        BY <4>1
      <4> QED BY <1>0, <2>4, <4>1, <4>2, NothingMoreOwed
    <3> QED BY <3>3, <3>4 DEF GrantsCoverReviews
  <2> QED BY <1>3, <2>5, <2>6 DEF DispatchRejected, LocalEnd
<1>4. ASSUME NEW a \in App, AppCrash(a) PROVE GrantsCoverReviews'
  <2>1. UNCHANGED <<grants, completions>>
    BY <1>4 DEF AppCrash
  <2>2. ASSUME NEW g \in Handler, pc'[g] # "crashed"
        PROVE  pc'[g] = pc[g] /\ todo'[g] = todo[g] /\ granted'[g] = granted[g]
    BY <1>4, <2>2 DEF AppCrash
  <2>3. ASSUME NEW g \in Handler
        PROVE  \/ Undone(g)' = {}
               \/ Undone(g)' = Undone(g) /\ granted'[g] = granted[g]
    BY <2>2 DEF Undone
  <2>4. \A k \in RunKey : Owed(k)' \subseteq Owed(k)
    BY <2>3 DEF Owed
  <2> QED BY <1>b, <1>c, <2>1, <2>4
<1>5. CASE UNCHANGED <<pc, todo, granted, grants, completions>>
  BY <1>5 DEF GrantsCoverReviews, Owed, Undone
<1>6. ASSUME NEW k \in RunKey, ClaimExpires(k) \/ WindowEnds(k)
      PROVE  UNCHANGED <<pc, todo, granted, grants, completions>>
  BY <1>6 DEF ClaimExpires, WindowEnds
<1>7. ASSUME NEW k \in RunKey PROVE ~WorkerStep(k) /\ ~WorkerCrash(k)
  BY <1>0 DEF WorkerStep, WorkerStart, WorkerBegin, WorkerBeginFails, WorkerMark, WorkerEnd,
              WorkerCrash, NoWorkflowRuns
<1>8. ASSUME NEW h \in Handler
      PROVE  ~DispatchAccepted(h) /\ ~DispatchLost(h) /\ ~DispatchThrows(h)
  BY DEF InProcess, DispatchAccepted, DispatchLost, DispatchThrows
<1>9. CASE UNCHANGED vars
  BY <1>5, <1>9 DEF vars
<1> QED BY <1>1, <1>2, <1>3, <1>4, <1>5, <1>6, <1>7, <1>8, <1>9 DEF Next, HandlerStep

(***************************************************************************)
(* With enforce, and reviews that run inside the server (or no worker at   *)
(* all), a key is reviewed to success at most once per grant, on any       *)
(* number of processes, whichever statements fail and whenever a process   *)
(* dies.  Behind the workflow adapter a repeated dispatch breaks it.       *)
(***************************************************************************)
THEOREM GrantsAreReviewedOnce ==
  ASSUME InProcess, RunMode = "enforce"
  PROVE  Spec => []OneReviewPerGrant
<1>1. Init => GrantsCoverReviews
  <2> SUFFICES ASSUME Init PROVE GrantsCoverReviews
    OBVIOUS
  <2>1. \A k \in RunKey : Owed(k) = {} /\ completions[k] = 0 /\ grants[k] = 0
    BY DEF Init, Owed, Undone
  <2> QED BY <2>1, FS_EmptySet DEF GrantsCoverReviews
<1>2. DirectInv /\ GrantsCoverReviews /\ [Next]_vars => GrantsCoverReviews'
  BY GrantsCoverReviewsStep
<1>3. DirectInv /\ GrantsCoverReviews => OneReviewPerGrant
  <2> SUFFICES ASSUME DirectInv, GrantsCoverReviews, NEW k \in RunKey
               PROVE  completions[k] <= grants[k]
    BY DEF OneReviewPerGrant
  <2>1. /\ completions[k] \in Nat /\ grants[k] \in Nat
        /\ Cardinality(Owed(k)) \in Nat
        /\ completions[k] + Cardinality(Owed(k)) <= grants[k]
    BY FS_CardinalityType DEF DirectInv, ClaimInv, LoopInv, TypeOK, GrantsCoverReviews
  <2> QED BY <2>1
<1> QED BY <1>1, <1>2, <1>3, DirectInvHolds, PTL DEF Spec
=============================================================================
