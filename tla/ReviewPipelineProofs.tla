------------------------ MODULE ReviewPipelineProofs ------------------------
(***************************************************************************)
(* Theorems about ReviewPipeline, for every set of deliveries, requests,   *)
(* processors and jobs, every assignment of jobs to deliveries and of run  *)
(* keys to jobs (deliveries may share keys), every cap, every number of    *)
(* attempts of a dispatch and every number of crashes.                     *)
(***************************************************************************)
EXTENDS ReviewPipeline, CollectionLemmas, TLAPS

-----------------------------------------------------------------------------
(* Type correctness, and what an actor holds at each stage.                *)

Stage == {"idle", "hydrating", "claiming", "dispatching", "recording", "settling", "done"}
Resting == {"idle", "done"}

PipelineTypes ==
  /\ rows \in [Delivery -> InboxRow]
  /\ claims \in [RunKey -> Row]
  /\ at \in [Actor -> Stage]
  /\ \A t \in Actor : at[t] \notin Resting => work[t].delivery \in Delivery
  /\ DOMAIN work = Actor
  /\ todo \in [Actor -> Seq(Job)]
  /\ granted \in [Actor -> Seq(Job)]
  /\ held \in [Actor -> BOOLEAN]
  /\ accepted \in [Actor -> SUBSET Job]
  /\ outcome \in [Actor -> Outcome \union {"none"}]
  /\ queued \in [Job \X RunKey -> Nat]
  /\ working \subseteq RunKey
  /\ started \in [Job -> Nat]
  /\ crashes \in 0..MaxCrashes

\* An actor between two deliveries holds nothing, and what it grants, accepts
\* and ends with comes about in this order.
ActorShape ==
  \A t \in Actor :
    /\ at[t] \in Resting \cup {"hydrating"} =>
         granted[t] = <<>> /\ todo[t] = <<>> /\ ~held[t]
    /\ at[t] \in Resting \cup {"hydrating", "claiming", "dispatching"} =>
         accepted[t] = {} /\ outcome[t] = "none"
    /\ at[t] \in {"dispatching", "recording"} => todo[t] = <<>>
    /\ accepted[t] \subseteq Range(granted[t])
    /\ at[t] = "recording" => outcome[t] \in {"none", "throws"}
    /\ at[t] = "settling" => outcome[t] \in Outcome

PipelineShape == PipelineTypes /\ ActorShape

-----------------------------------------------------------------------------
(* The runs of one dispatch inside the window.                             *)

\* Actor t has been granted job j and has not dispatched it yet.
Pending(t, j) == at[t] \in {"claiming", "dispatching"} /\ j \in Range(granted[t])

GrantsHaveRows ==
  /\ \A k \in RunKey : claims[k].status # "expired"
  /\ \A t \in Actor : \A j \in Range(granted[t]) : HasRow(claims[KeyOf[j]])
  /\ \A j \in Job : started[j] > 0 => HasRow(claims[KeyOf[j]])

OneGrantInWindow ==
  \A j \in Job : claims[KeyOf[j]].fresh =>
    /\ started[j] <= DispatchAttempts
    /\ \A t \in Actor : Pending(t, j) => started[j] = 0
    /\ \A t, u \in Actor : Pending(t, j) /\ Pending(u, j) => t = u

WindowInv == Enforced /\ DedupeEnabled => GrantsHaveRows /\ OneGrantInWindow

-----------------------------------------------------------------------------
(* Nothing that was claimed is lost while the process lives.               *)

GivenUp(k) == claims[k].status \in {"dispatch_failed", "dispatch_error"}
Served(k)  == Dispatched(k) \/ Underway(k) \/ GivenUp(k)

ClaimsAreServed ==
  /\ \A k \in RunKey : HasRow(claims[k]) => Served(k)
  /\ \A j \in Job, k \in RunKey : queued[<<j, k>>] > 0 => Dispatched(k)
  /\ \A k \in working : Dispatched(k)
  /\ \A t \in Actor : \A j \in accepted[t] : started[j] > 0
  /\ \A t \in Actor : \A j \in Range(granted[t]) : HasRow(claims[KeyOf[j]])

AllHaveRows(d) == \A j \in Range(JobsOf[d]) : HasRow(claims[KeyOf[j]])

\* Every job of an actor's delivery is still to be claimed, was denied by a
\* cap, or has a row; and an actor gives up nothing that has none.
Accounted(t) ==
  /\ at[t] \in {"claiming", "dispatching", "recording"} =>
       \A j \in Range(JobsOf[work[t].delivery]) :
         j \in Range(todo[t]) \/ held[t] \/ HasRow(claims[KeyOf[j]])
  /\ at[t] = "settling" /\ outcome[t] = "nothing" => AllHaveRows(work[t].delivery)

JobsAreAccountedFor ==
  /\ \A t \in Actor : Accounted(t)
  /\ \A d \in Delivery : rows[d].status = "ignored" => AllHaveRows(d)

ServiceInv == Enforced => (crashes = 0 => ClaimsAreServed) /\ JobsAreAccountedFor

-----------------------------------------------------------------------------
(* Type correctness: the proof.                                            *)

LEMMA InboxStatementTypes ==
  ASSUME NEW table \in [Delivery -> InboxRow], NEW d \in Delivery,
         NEW result \in Outcome, NEW attempts
  PROVE  /\ ReceivedUpsert(table, d) \in [Delivery -> InboxRow]
         /\ ClaimRows(table, {d}) \in [Delivery -> InboxRow]
         /\ StatusAfter(result, attempts) \in InboxStatus
         /\ InboxWrite(table, d, StatusAfter(result, attempts)) \in [Delivery -> InboxRow]
<1>1. StatusAfter(result, attempts) \in InboxStatus
  BY DEF StatusAfter, Outcome, InboxStatus, Retryable, Settled
<1>2. ReceivedUpsert(table, d) \in [Delivery -> InboxRow]
  BY DEF ReceivedUpsert, InboxRow, InboxStatus, Retryable
<1>3. ClaimRows(table, {d}) \in [Delivery -> InboxRow]
  BY DEF ClaimRows, InboxRow, InboxStatus, Retryable
<1>4. InboxWrite(table, d, StatusAfter(result, attempts)) \in [Delivery -> InboxRow]
  BY <1>1 DEF InboxWrite, InboxRow
<1> QED BY <1>1, <1>2, <1>3, <1>4

LEMMA ClaimStatementTypes ==
  ASSUME NEW table \in [RunKey -> Row], NEW k \in RunKey, NEW status \in ClaimStatus
  PROVE  /\ AfterClaim(table, table, k) \in [RunKey -> Row]
         /\ StatusWrite(table, k, status) \in [RunKey -> Row]
         /\ WorkBegin(table, k) \in [RunKey -> Row]
         /\ Expire(table, k) \in [RunKey -> Row]
         /\ LeaveWindow(table, k) \in [RunKey -> Row]
BY DEF Row, StatusWrite, WorkBegin, AfterClaim, ClaimedRow, Expire, LeaveWindow,
       ClaimStatus, ActiveStatus, TerminalStatus

\* What Record makes of the table.
Recorded(t) ==
  [k \in RunKey |->
     IF HasRow(claims[k]) /\ \E j \in Range(granted[t]) : Key(t, j) = k
     THEN [claims[k] EXCEPT !.status =
             DispatchStatus(t, CHOOSE j \in Range(granted[t]) : Key(t, j) = k)]
     ELSE claims[k]]

LEMMA RecordedType ==
  ASSUME claims \in [RunKey -> Row], NEW t
  PROVE  /\ Recorded(t) \in [RunKey -> Row]
         /\ \A j : DispatchStatus(t, j) \in {"dispatching", "dispatch_failed", "dispatch_error"}
         /\ \A k \in RunKey : /\ HasRow(Recorded(t)[k]) <=> HasRow(claims[k])
                              /\ Recorded(t)[k].fresh = claims[k].fresh
<1>1. ASSUME NEW j
      PROVE  DispatchStatus(t, j) \in {"dispatching", "dispatch_failed", "dispatch_error"}
  BY DEF DispatchStatus
<1>2. ASSUME NEW k \in RunKey
      PROVE  /\ Recorded(t)[k] \in Row
             /\ HasRow(Recorded(t)[k]) <=> HasRow(claims[k])
             /\ Recorded(t)[k].fresh = claims[k].fresh
  <2> DEFINE j == CHOOSE j \in Range(granted[t]) : Key(t, j) = k
  <2>1. DispatchStatus(t, j) \in {"dispatching", "dispatch_failed", "dispatch_error"}
    BY <1>1
  <2> HIDE DEF j
  <2>2. claims[k] \in Row
    OBVIOUS
  <2>3. Recorded(t)[k] \in {claims[k], [claims[k] EXCEPT !.status = DispatchStatus(t, j)]}
    BY DEF Recorded, j
  <2>4. CASE HasRow(claims[k]) /\ Recorded(t)[k] = [claims[k] EXCEPT !.status = DispatchStatus(t, j)]
    BY <2>1, <2>2, <2>4 DEF Row, HasRow, ClaimStatus, ActiveStatus, TerminalStatus
  <2>5. CASE Recorded(t)[k] = claims[k]
    BY <2>2, <2>5
  <2>6. ~HasRow(claims[k]) => Recorded(t)[k] = claims[k]
    BY DEF Recorded
  <2> QED BY <2>3, <2>4, <2>5, <2>6
<1> QED BY <1>1, <1>2 DEF Recorded

LEMMA ShapeInit == Init => PipelineShape
<1> SUFFICES ASSUME Init PROVE PipelineShape
  OBVIOUS
<1>1. PipelineTypes
  BY PipelineAssumption
     DEF Init, PipelineTypes, NoDelivery, InboxRow, NoRow, Row, Stage, Resting, NoWork
<1>2. ActorShape
  BY DEF Init, ActorShape, Resting
<1> QED BY <1>1, <1>2 DEF PipelineShape

\* The parts of the invariant in the form the steps use them.
LEMMA ActorTypes ==
  ASSUME PipelineShape, NEW t \in Actor
  PROVE  /\ rows \in [Delivery -> InboxRow] /\ claims \in [RunKey -> Row]
         /\ at \in [Actor -> Stage]
         /\ todo \in [Actor -> Seq(Job)] /\ todo[t] \in Seq(Job)
         /\ granted \in [Actor -> Seq(Job)] /\ granted[t] \in Seq(Job)
         /\ held \in [Actor -> BOOLEAN] /\ accepted \in [Actor -> SUBSET Job]
         /\ outcome \in [Actor -> Outcome \union {"none"}]
         /\ started \in [Job -> Nat] /\ queued \in [Job \X RunKey -> Nat]
         /\ working \subseteq RunKey /\ DispatchAttempts \in Nat
         /\ Range(granted[t]) \subseteq Job
         /\ KeyOf \in [Job -> RunKey]
         /\ \A j \in Job : Key(t, j) \in RunKey
<1>1. granted[t] \in Seq(Job)
  BY DEF PipelineShape, PipelineTypes
<1>2. Range(granted[t]) \subseteq Job
  BY <1>1, ElementOfSeq DEF Range
<1> QED BY <1>1, <1>2, PipelineAssumption DEF PipelineShape, PipelineTypes, Key

LEMMA ShapeStep == PipelineShape /\ [Next]_vars => PipelineShape'
<1> SUFFICES ASSUME PipelineShape, [Next]_vars PROVE PipelineShape'
  OBVIOUS
<1>0. PipelineTypes /\ ActorShape
  BY DEF PipelineShape
<1>t. \A t \in Actor :
        /\ todo[t] \in Seq(Job) /\ granted[t] \in Seq(Job) /\ Range(granted[t]) \subseteq Job
        /\ \A j \in Job : Key(t, j) \in RunKey
  BY ActorTypes
<1>1. ASSUME NEW t \in Actor, NEW d \in Delivery, NEW n, TakesOn(t, d, n), at[t] = "idle",
             rows' \in [Delivery -> InboxRow], UNCHANGED <<claims, workerVars, crashes>>
      PROVE  PipelineShape'
  <2>1. DOMAIN work' = Actor
    BY <1>0, <1>1 DEF TakesOn, PipelineTypes
  <2>2. \A u \in Actor : at'[u] \notin Resting => work'[u].delivery \in Delivery
    BY <1>0, <1>1 DEF TakesOn, Goes, PipelineTypes, Resting
  <2>3. PipelineTypes'
    BY <1>0, <1>1, <2>1, <2>2 DEF TakesOn, Goes, PipelineTypes, Stage, workerVars
  <2>4. ActorShape'
    BY <1>0, <1>1 DEF TakesOn, Goes, ActorShape, PipelineTypes, Resting
  <2> QED BY <2>3, <2>4 DEF PipelineShape
<1>2. ASSUME NEW r \in Request, Receive(r) PROVE PipelineShape'
  <2>1. DeliveryOf[r] \in Delivery /\ r \in Actor /\ "throws" \in Outcome
    BY PipelineAssumption DEF Actor, Outcome
  <2>2. rows' \in [Delivery -> InboxRow]
    BY <1>0, <1>2, <2>1, InboxStatementTypes DEF Receive, PipelineTypes
  <2> QED BY <1>1, <1>2, <2>1, <2>2 DEF Receive
<1>3. ASSUME NEW p \in Processor, TakeUp(p) PROVE PipelineShape'
  <2>1. PICK d \in DueRows(rows) : /\ rows' = ClaimRows(rows, {d})
                                   /\ TakesOn(p, d, rows[d].attempts + 1)
    BY <1>3 DEF TakeUp
  <2>2. d \in Delivery /\ p \in Actor /\ "throws" \in Outcome
    BY DEF DueRows, Actor, Outcome
  <2>3. rows' \in [Delivery -> InboxRow]
    BY <1>0, <2>1, <2>2, InboxStatementTypes DEF PipelineTypes
  <2> QED BY <1>1, <1>3, <2>1, <2>2, <2>3 DEF TakeUp
<1>4. ASSUME NEW t \in Actor, Hydrate(t) PROVE PipelineShape'
  <2>1. work[t].delivery \in Delivery
    BY <1>0, <1>4 DEF Hydrate, PipelineTypes, Resting
  <2>2. JobsOf[work[t].delivery] \in Seq(Job)
    BY <2>1, PipelineAssumption
  <2>3. PipelineTypes'
    BY <1>0, <1>4, <2>2 DEF Hydrate, Goes, PipelineTypes, Stage, Resting, workerVars
  <2>4. ActorShape'
    BY <1>0, <1>4 DEF Hydrate, Goes, ActorShape, PipelineTypes, Resting
  <2> QED BY <2>3, <2>4 DEF PipelineShape
<1>5. ASSUME NEW t \in Actor, HydrationFails(t) PROVE PipelineShape'
  <2>1. PipelineTypes'
    BY <1>0, <1>5 DEF HydrationFails, Goes, PipelineTypes, Stage, Resting, Outcome, workerVars
  <2>2. ActorShape'
    BY <1>0, <1>5 DEF HydrationFails, Goes, ActorShape, PipelineTypes, Resting, Outcome
  <2> QED BY <2>1, <2>2 DEF PipelineShape
<1>6. ASSUME NEW t \in Actor, Claim(t) PROVE PipelineShape'
  <2> DEFINE job == Head(todo[t])
  <2>1. todo[t] \in Seq(Job) /\ todo[t] # <<>> /\ granted[t] \in Seq(Job) /\ at[t] = "claiming"
    BY <1>6, <1>t DEF Claim
  <2>2. job \in Job /\ Tail(todo[t]) \in Seq(Job)
    BY <2>1, ConsumedLoop
  <2>3. Append(granted[t], job) \in Seq(Job) /\ Range(granted[t]) \subseteq Range(Append(granted[t], job))
    BY <2>1, <2>2, FilledLoop
  <2>4. claims' \in [RunKey -> Row]
    <3>1. Key(t, job) \in RunKey /\ "claimed" \in ClaimStatus
      BY <1>t, <2>2 DEF ClaimStatus, ActiveStatus
    <3> QED BY <1>0, <1>6, <3>1, ClaimStatementTypes DEF Claim, PipelineTypes
  <2>5. granted' \in {granted, [granted EXCEPT ![t] = Append(@, job)]}
    BY <1>6 DEF Claim
  <2>6. \E b \in BOOLEAN : held' = [held EXCEPT ![t] = b]
    BY <1>0, <1>6 DEF Claim, PipelineTypes
  <2>7. UNCHANGED <<rows, at, work, accepted, outcome, workerVars, crashes>>
        /\ todo' = [todo EXCEPT ![t] = Tail(@)]
    BY <1>6 DEF Claim
  <2>8. PipelineTypes'
    BY <1>0, <2>2, <2>3, <2>4, <2>5, <2>6, <2>7 DEF PipelineTypes, workerVars
  <2>9. ActorShape'
    <3> SUFFICES ASSUME NEW u \in Actor
                 PROVE  /\ at[u] \in Resting \cup {"hydrating"} =>
                             granted'[u] = <<>> /\ todo'[u] = <<>> /\ ~held'[u]
                        /\ at[u] \in {"dispatching", "recording"} => todo'[u] = <<>>
                        /\ accepted[u] \subseteq Range(granted'[u])
      BY <1>0, <2>7 DEF ActorShape
    <3>1. CASE u # t
      BY <1>0, <2>5, <2>6, <2>7, <3>1 DEF ActorShape, PipelineTypes
    <3>2. CASE u = t
      BY <1>0, <2>1, <2>3, <2>5, <3>2 DEF ActorShape, PipelineTypes, Resting
    <3> QED BY <3>1, <3>2
  <2> QED BY <2>8, <2>9 DEF PipelineShape
<1>7. ASSUME NEW t \in Actor PROVE Result(t) \in Outcome
  BY DEF Result, Outcome
<1>8. ASSUME NEW t \in Actor, EndClaims(t) PROVE PipelineShape'
  <2>1. PipelineTypes'
    BY <1>0, <1>7, <1>8 DEF EndClaims, Goes, PipelineTypes, Stage, Resting, workerVars
  <2>2. ActorShape'
    BY <1>0, <1>7, <1>8 DEF EndClaims, Goes, ActorShape, PipelineTypes, Resting
  <2> QED BY <2>1, <2>2 DEF PipelineShape
<1>9. ASSUME NEW t \in Actor, Dispatch(t) PROVE PipelineShape'
  <2>1. PICK runs \in [Range(granted[t]) -> 0..DispatchAttempts], jobs \in SUBSET Range(granted[t]) :
          /\ accepted' = [accepted EXCEPT ![t] = jobs]
          /\ queued' = [run \in Job \X RunKey |->
                          IF run[1] \in Range(granted[t]) /\ run[2] = Key(t, run[1])
                          THEN queued[run] + runs[run[1]] ELSE queued[run]]
          /\ started' = [j \in Job |->
                           IF j \in Range(granted[t]) THEN started[j] + runs[j] ELSE started[j]]
    BY <1>9 DEF Dispatch
  <2>2. jobs \subseteq Job /\ \A j \in Range(granted[t]) : runs[j] \in Nat
    BY <1>t, PipelineAssumption
  <2>3. started' \in [Job -> Nat] /\ queued' \in [Job \X RunKey -> Nat]
    BY <1>0, <2>1, <2>2 DEF PipelineTypes
  <2>4. PipelineTypes'
    BY <1>0, <1>9, <2>1, <2>2, <2>3 DEF Dispatch, Goes, PipelineTypes, Stage, Resting
  <2>5. ActorShape'
    BY <1>0, <1>9, <2>1 DEF Dispatch, Goes, ActorShape, PipelineTypes, Resting
  <2> QED BY <2>4, <2>5 DEF PipelineShape
<1>10. ASSUME NEW t \in Actor, DispatchThrows(t) PROVE PipelineShape'
  <2>1. PipelineTypes'
    BY <1>0, <1>10 DEF DispatchThrows, Goes, PipelineTypes, Stage, Resting, Outcome, workerVars
  <2>2. ActorShape'
    BY <1>0, <1>10 DEF DispatchThrows, Goes, ActorShape, PipelineTypes, Resting
  <2> QED BY <2>1, <2>2 DEF PipelineShape
<1>11. ASSUME NEW t \in Actor, Record(t) PROVE PipelineShape'
  <2>1. claims' \in [RunKey -> Row]
    BY <1>0, <1>11, RecordedType DEF Record, Recorded, PipelineTypes
  <2>2. \E result \in Outcome : outcome' = [outcome EXCEPT ![t] = result]
    <3>1. "throws" \in Outcome
      BY DEF Outcome
    <3> QED BY <1>7, <1>11, <3>1 DEF Record
  <2>3. PipelineTypes'
    BY <1>0, <1>11, <2>1, <2>2 DEF Record, Goes, PipelineTypes, Stage, Resting, workerVars
  <2>4. ActorShape'
    BY <1>0, <1>11, <2>2 DEF Record, Goes, ActorShape, PipelineTypes, Resting
  <2> QED BY <2>3, <2>4 DEF PipelineShape
<1>12. ASSUME NEW t \in Actor, Settle(t) PROVE PipelineShape'
  <2>1. work[t].delivery \in Delivery /\ outcome[t] \in Outcome
    BY <1>0, <1>12 DEF Settle, PipelineTypes, ActorShape, Resting
  <2>2. rows' \in [Delivery -> InboxRow]
    BY <1>0, <1>12, <2>1, InboxStatementTypes DEF Settle, PipelineTypes
  <2>3. PICK stage \in Resting : Forget(t, stage)
    BY <1>12 DEF Settle, Resting
  <2>4. <<>> \in Seq(Job) /\ Resting \subseteq Stage /\ Range(<<>>) = {}
    BY EmptyLoop DEF Resting, Stage
  <2>5. UNCHANGED <<claims, workerVars, crashes>>
    BY <1>12 DEF Settle
  <2>6. PipelineTypes'
    BY <1>0, <2>2, <2>3, <2>4, <2>5 DEF Forget, Goes, PipelineTypes, workerVars
  <2>7. ActorShape'
    BY <1>0, <2>3, <2>4 DEF Forget, Goes, ActorShape, PipelineTypes, Resting
  <2> QED BY <2>6, <2>7 DEF PipelineShape
\* What happens at GitHub and to the claims disturbs no actor.
<1>13. ASSUME NEW k \in RunKey, Elsewhere(k) PROVE PipelineShape'
  <2>t. claims \in [RunKey -> Row] /\ queued \in [Job \X RunKey -> Nat] /\ working \subseteq RunKey
    BY <1>0 DEF PipelineTypes
  <2>1. UNCHANGED <<rows, actorVars, started, crashes>>
    BY <1>13 DEF Elsewhere, RunIsReplaced, WorkerBegins, WorkerEnds, ClaimAges, workerVars
  <2>2. claims' \in [RunKey -> Row]
    <3>1. \A status \in {"completed", "failed"} : StatusWrite(claims, k, status) \in [RunKey -> Row]
      <4>1. {"completed", "failed"} \subseteq ClaimStatus
        BY DEF ClaimStatus, TerminalStatus
      <4> QED BY <2>t, <4>1, ClaimStatementTypes
    <3>2. /\ Expire(claims, k) \in [RunKey -> Row] /\ LeaveWindow(claims, k) \in [RunKey -> Row]
          /\ WorkBegin(claims, k) \in [RunKey -> Row]
      <4>1. "completed" \in ClaimStatus
        BY DEF ClaimStatus, TerminalStatus
      <4> QED BY <2>t, <4>1, ClaimStatementTypes
    <3> QED BY <1>13, <2>t, <3>1, <3>2 DEF Elsewhere, RunIsReplaced, WorkerBegins, WorkerEnds, ClaimAges
  <2>3. queued' \in [Job \X RunKey -> Nat]
    <3>1. ASSUME NEW j \in Job, queued[<<j, k>>] > 0, queued' = [queued EXCEPT ![<<j, k>>] = @ - 1]
          PROVE  queued' \in [Job \X RunKey -> Nat]
      <4>1. queued[<<j, k>>] - 1 \in Nat
        BY <2>t, <3>1
      <4> QED BY <2>t, <3>1, <4>1
    <3> QED BY <1>13, <2>t, <3>1 DEF Elsewhere, RunIsReplaced, WorkerBegins, WorkerEnds, ClaimAges, workerVars
  <2>4. working' \subseteq RunKey
    BY <1>13, <2>t DEF Elsewhere, RunIsReplaced, WorkerBegins, WorkerEnds, ClaimAges, workerVars
  <2> QED BY <1>0, <2>1, <2>2, <2>3, <2>4 DEF PipelineShape, PipelineTypes, ActorShape, actorVars
<1>14. ASSUME Crash PROVE PipelineShape'
  <2>1. <<>> \in Seq(Job) /\ {} \subseteq Range(<<>>) /\ Resting \subseteq Stage
    BY DEF Resting, Stage
  <2>2. PICK dead \in SUBSET Actor :
          /\ at' = [t \in Actor |-> IF t \notin dead THEN at[t]
                                    ELSE IF t \in Processor THEN "idle" ELSE "done"]
          /\ work' = [t \in Actor |-> IF t \in dead THEN NoWork ELSE work[t]]
          /\ todo' = [t \in Actor |-> IF t \in dead THEN <<>> ELSE todo[t]]
          /\ granted' = [t \in Actor |-> IF t \in dead THEN <<>> ELSE granted[t]]
          /\ held' = [t \in Actor |-> t \notin dead /\ held[t]]
          /\ accepted' = [t \in Actor |-> IF t \in dead THEN {} ELSE accepted[t]]
          /\ outcome' = [t \in Actor |-> IF t \in dead THEN "none" ELSE outcome[t]]
    BY <1>14 DEF Crash
  <2>3. UNCHANGED <<rows, claims, workerVars>> /\ crashes' \in 0..MaxCrashes
    BY <1>0, <1>14, PipelineAssumption DEF Crash, PipelineTypes
  <2>4. ASSUME NEW t \in Actor, t \in dead
        PROVE  /\ at'[t] \in Resting /\ todo'[t] = <<>> /\ granted'[t] = <<>> /\ ~held'[t]
               /\ accepted'[t] = {} /\ outcome'[t] = "none"
    BY <2>2, <2>4 DEF Resting
  <2>5. ASSUME NEW t \in Actor, t \notin dead
        PROVE  /\ at'[t] = at[t] /\ work'[t] = work[t] /\ todo'[t] = todo[t]
               /\ granted'[t] = granted[t] /\ held'[t] = held[t]
               /\ accepted'[t] = accepted[t] /\ outcome'[t] = outcome[t]
    BY <1>0, <2>2, <2>5 DEF PipelineTypes
  <2>6. \A t \in Actor : /\ at'[t] \in Stage /\ todo'[t] \in Seq(Job) /\ granted'[t] \in Seq(Job)
                         /\ accepted'[t] \in SUBSET Job /\ outcome'[t] \in Outcome \union {"none"}
                         /\ at'[t] \notin Resting => work'[t].delivery \in Delivery
    BY <1>0, <2>1, <2>4, <2>5 DEF PipelineTypes
  <2>7. PipelineTypes'
    BY <1>0, <2>2, <2>3, <2>6 DEF PipelineTypes, workerVars
  <2>8. ActorShape'
    <3> SUFFICES ASSUME NEW t \in Actor
                 PROVE  /\ at'[t] \in Resting \cup {"hydrating"} =>
                             granted'[t] = <<>> /\ todo'[t] = <<>> /\ ~held'[t]
                        /\ at'[t] \in Resting \cup {"hydrating", "claiming", "dispatching"} =>
                             accepted'[t] = {} /\ outcome'[t] = "none"
                        /\ at'[t] \in {"dispatching", "recording"} => todo'[t] = <<>>
                        /\ accepted'[t] \subseteq Range(granted'[t])
                        /\ at'[t] = "recording" => outcome'[t] \in {"none", "throws"}
                        /\ at'[t] = "settling" => outcome'[t] \in Outcome
      BY DEF ActorShape
    <3>1. CASE t \in dead
      BY <2>4, <3>1 DEF Resting
    <3>2. CASE t \notin dead
      BY <1>0, <2>5, <3>2 DEF ActorShape
    <3> QED BY <3>1, <3>2
  <2> QED BY <2>7, <2>8 DEF PipelineShape
<1>15. ASSUME NEW d \in Delivery, ComesDue(d) PROVE PipelineShape'
  <2>1. rows' \in [Delivery -> InboxRow]
    BY <1>0, <1>15 DEF ComesDue, PipelineTypes, InboxRow
  <2> QED BY <1>0, <1>15, <2>1 DEF ComesDue, PipelineShape, PipelineTypes, ActorShape, actorVars, workerVars
<1>16. CASE UNCHANGED vars
  BY <1>0, <1>16 DEF vars, PipelineShape, PipelineTypes, ActorShape
<1> QED
  BY <1>2, <1>3, <1>4, <1>5, <1>6, <1>8, <1>9, <1>10, <1>11, <1>12, <1>13, <1>14, <1>15, <1>16
     DEF Next, ActorStep

LEMMA ShapeInvariant == Spec => []PipelineShape
BY ShapeInit, ShapeStep, PTL DEF Spec

-----------------------------------------------------------------------------
(* A table never loses a row, and the window of a row never reopens.       *)

LEMMA TableStep ==
  ASSUME PipelineShape, [Next]_vars, NEW k \in RunKey
  PROVE  /\ HasRow(claims[k]) => HasRow(claims'[k])
         /\ claims[k].status # "expired" => claims'[k].status # "expired"
         /\ HasRow(claims[k]) /\ claims'[k].fresh => claims[k].fresh
<1> DEFINE Kept(table) ==
      /\ HasRow(claims[k]) => HasRow(table[k])
      /\ claims[k].status # "expired" => table[k].status # "expired"
      /\ HasRow(claims[k]) /\ table[k].fresh => claims[k].fresh
<1>t. claims \in [RunKey -> Row]
  BY DEF PipelineShape, PipelineTypes
<1>1. ASSUME NEW t \in Actor, Claim(t) PROVE Kept(claims')
  <2> DEFINE key == Key(t, Head(todo[t]))
  <2>1. claims' = AfterClaim(claims, claims, key)
    BY <1>1 DEF Claim
  <2> HIDE DEF key
  <2> QED BY <1>t, <2>1 DEF AfterClaim, ClaimedRow, HasRow, Row
<1>2. ASSUME NEW t \in Actor, Record(t) PROVE Kept(claims')
  <2>1. claims' = Recorded(t)
    BY <1>2 DEF Record, Recorded
  <2>2. /\ HasRow(claims'[k]) <=> HasRow(claims[k])
        /\ claims'[k].fresh = claims[k].fresh
    BY <1>t, <2>1, RecordedType
  <2>3. claims[k].status # "expired" => claims'[k].status # "expired"
    <3> DEFINE j == CHOOSE j \in Range(granted[t]) : Key(t, j) = k
    <3>1. DispatchStatus(t, j) # "expired"
      BY <1>t, RecordedType
    <3> HIDE DEF j
    <3>2. claims'[k] \in {claims[k], [claims[k] EXCEPT !.status = DispatchStatus(t, j)]}
      BY <2>1 DEF Recorded, j
    <3> QED BY <1>t, <3>1, <3>2 DEF Row
  <2> QED BY <2>2, <2>3
<1>3. ASSUME NEW i \in RunKey, Elsewhere(i) PROVE Kept(claims')
  <2>1. \/ claims' \in {claims, Expire(claims, i), LeaveWindow(claims, i)}
        \/ \E status \in {"running", "completed", "failed"} : claims' = StatusWrite(claims, i, status)
    BY <1>3 DEF Elsewhere, RunIsReplaced, WorkerBegins, WorkerEnds, ClaimAges, WorkBegin
  <2> QED BY <1>t, <2>1 DEF StatusWrite, Expire, LeaveWindow, HasRow, Row
<1>4. CASE UNCHANGED claims
  BY <1>4
<1> QED
  BY <1>1, <1>2, <1>3, <1>4
     DEF Next, ActorStep, Receive, TakeUp, Hydrate, HydrationFails, EndClaims, Dispatch,
         DispatchThrows, Settle, ComesDue, Crash, vars

\* What a claim of job j can end with when its denial is enforced: a row of its
\* own, taken over or new, or a denial.
LEMMA ClaimOutcomes ==
  ASSUME PipelineShape, Enforced, NEW t \in Actor, Claim(t)
  PROVE  LET job == Head(todo[t])
             k   == KeyOf[job] IN
         /\ job \in Job /\ k \in RunKey /\ Key(t, job) = k /\ job \in Range(todo[t])
         /\ Range(todo'[t]) \cup {job} = Range(todo[t])
         /\ \A u \in Actor : u # t => todo'[u] = todo[u] /\ granted'[u] = granted[u] /\ held'[u] = held[u]
         /\ held[t] => held'[t]
         /\ \/ /\ Inserts(claims, claims, k)
               /\ claims' = [claims EXCEPT ![k] = ClaimedRow(@)]
               /\ Range(granted'[t]) = Range(granted[t]) \cup {job}
            \/ /\ UNCHANGED <<claims, granted>>
               /\ held'[t] \/ HasRow(claims[k])
<1> DEFINE job == Head(todo[t])
           k   == KeyOf[job]
           code == ClaimResult(claims, claims, k)
<1>1. /\ todo[t] \in Seq(Job) /\ todo[t] # <<>> /\ granted[t] \in Seq(Job)
      /\ todo \in [Actor -> Seq(Job)] /\ granted \in [Actor -> Seq(Job)]
      /\ held \in [Actor -> BOOLEAN] /\ KeyOf \in [Job -> RunKey]
  BY ActorTypes DEF Claim
<1>2. /\ job \in Job /\ Range(todo[t]) = Range(Tail(todo[t])) \cup {job} /\ job \in Range(todo[t])
  BY <1>1, ConsumedLoop
<1>3. /\ Append(granted[t], job) \in Seq(Job)
      /\ Range(Append(granted[t], job)) = Range(granted[t]) \cup {job}
  BY <1>1, <1>2, FilledLoop
<1>4. k \in RunKey /\ Key(t, job) = k
  BY <1>1, <1>2 DEF Enforced, Key
<1>5. /\ claims' = AfterClaim(claims, claims, k)
      /\ granted' = IF Allowed(code) THEN [granted EXCEPT ![t] = Append(@, job)] ELSE granted
      /\ held' = [held EXCEPT ![t] = @ \/ (code = "concurrency_limit_exceeded" /\ ~Allowed(code))]
      /\ todo' = [todo EXCEPT ![t] = Tail(@)]
    BY <1>4 DEF Claim
<1>6. Allowed(code) <=> code = "claimed"
  BY DEF Allowed, Enforced
<1>7. /\ \A u \in Actor : u # t => todo'[u] = todo[u] /\ granted'[u] = granted[u] /\ held'[u] = held[u]
      /\ todo'[t] = Tail(todo[t])
  BY <1>1, <1>5
<1>8. held[t] => held'[t]
  BY <1>1, <1>5
<1>9. CASE Inserts(claims, claims, k)
  <2>1. code = "claimed"
    BY <1>9 DEF ClaimResult, Inserts
  <2>2. /\ claims' = [claims EXCEPT ![k] = ClaimedRow(@)]
        /\ granted'[t] = Append(granted[t], job)
    BY <1>1, <1>5, <1>6, <1>9, <2>1 DEF AfterClaim
  <2> QED BY <1>2, <1>3, <1>4, <1>7, <1>8, <1>9, <2>2
<1>10. CASE ~Inserts(claims, claims, k)
  <2>1. code \in {"duplicate_run", "concurrency_limit_exceeded", "claim_conflict"}
    BY <1>10 DEF ClaimResult
  <2>2. UNCHANGED <<claims, granted>>
    BY <1>5, <1>6, <1>10, <2>1 DEF AfterClaim
  <2>3. held'[t] \/ HasRow(claims[k])
    <3>1. CASE Duplicate(claims, k)
      BY <3>1 DEF Duplicate
    <3>2. CASE ~Duplicate(claims, k) /\ Exceeded(claims, k) # {}
      <4>1. code = "concurrency_limit_exceeded"
        BY <1>10, <3>2 DEF ClaimResult
      <4> QED BY <1>1, <1>5, <1>6, <4>1
    <3>3. CASE ~Duplicate(claims, k) /\ Exceeded(claims, k) = {}
      BY <1>10, <3>3 DEF Inserts, Conflict
    <3> QED BY <3>1, <3>2, <3>3
  <2> QED BY <1>2, <1>4, <1>7, <1>8, <2>2, <2>3
<1> QED BY <1>9, <1>10

-----------------------------------------------------------------------------
(* The runs of one dispatch inside the window: the proof.                  *)

LEMMA WindowInit == Init => WindowInv
BY EmptyLoop, PipelineAssumption
   DEF Init, WindowInv, GrantsHaveRows, OneGrantInWindow, Pending, NoRow, HasRow

\* A step that grants nothing and dispatches nothing.
LEMMA WindowKept ==
  ASSUME PipelineShape, [Next]_vars, Enforced, DedupeEnabled,
         GrantsHaveRows, OneGrantInWindow, started' = started,
         \A t \in Actor : /\ Range(granted'[t]) \subseteq Range(granted[t])
                          /\ \A j \in Job : Pending(t, j)' => Pending(t, j)
  PROVE  GrantsHaveRows' /\ OneGrantInWindow'
<1>1. \A t \in Actor : Range(granted[t]) \subseteq Job
  BY ActorTypes
<1>2. \A j \in Job : KeyOf[j] \in RunKey
  BY PipelineAssumption
<1>3. \A k \in RunKey : /\ HasRow(claims[k]) => HasRow(claims'[k])
                        /\ claims[k].status # "expired" => claims'[k].status # "expired"
                        /\ HasRow(claims[k]) /\ claims'[k].fresh => claims[k].fresh
  BY TableStep
<1>4. GrantsHaveRows'
  BY <1>1, <1>2, <1>3 DEF GrantsHaveRows
<1>5. OneGrantInWindow'
  <2> SUFFICES ASSUME NEW j \in Job, claims'[KeyOf[j]].fresh
               PROVE  /\ started[j] <= DispatchAttempts
                      /\ \A t \in Actor : Pending(t, j)' => started[j] = 0
                      /\ \A t, u \in Actor : Pending(t, j)' /\ Pending(u, j)' => t = u
    BY DEF OneGrantInWindow
  <2>1. CASE HasRow(claims[KeyOf[j]])
    BY <1>2, <1>3, <2>1 DEF OneGrantInWindow
  <2>2. CASE ~HasRow(claims[KeyOf[j]])
    <3>1. ~(started[j] > 0) /\ started[j] \in Nat /\ \A t \in Actor : ~Pending(t, j)
      BY <2>2 DEF GrantsHaveRows, Pending, PipelineShape, PipelineTypes
    <3>2. started[j] = 0 /\ 0 <= DispatchAttempts
      BY <3>1, PipelineAssumption
    <3> QED BY <3>1, <3>2
  <2> QED BY <2>1, <2>2
<1> QED BY <1>4, <1>5

LEMMA WindowOfClaim ==
  ASSUME PipelineShape, Enforced, DedupeEnabled, GrantsHaveRows, OneGrantInWindow,
         [Next]_vars, NEW t \in Actor, Claim(t)
  PROVE  GrantsHaveRows' /\ OneGrantInWindow'
<1> DEFINE job == Head(todo[t])
           k   == KeyOf[job]
<1>1. /\ job \in Job /\ k \in RunKey
      /\ \A u \in Actor : u # t => granted'[u] = granted[u]
      /\ \/ /\ Inserts(claims, claims, k)
            /\ claims' = [claims EXCEPT ![k] = ClaimedRow(@)]
            /\ Range(granted'[t]) = Range(granted[t]) \cup {job}
         \/ UNCHANGED <<claims, granted>>
  BY ClaimOutcomes
<1>2. UNCHANGED <<at, started>>
  BY DEF Claim, workerVars
<1>3. CASE UNCHANGED <<claims, granted>>
  BY <1>2, <1>3, WindowKept DEF Pending
<1>4. CASE /\ Inserts(claims, claims, k)
           /\ claims' = [claims EXCEPT ![k] = ClaimedRow(@)]
           /\ Range(granted'[t]) = Range(granted[t]) \cup {job}
  <2>t. claims \in [RunKey -> Row] /\ started \in [Job -> Nat] /\ KeyOf \in [Job -> RunKey]
        /\ \A u \in Actor : Range(granted[u]) \subseteq Job
    BY ActorTypes DEF PipelineShape, PipelineTypes
  <2>1. /\ \A i \in RunKey : i # k => claims'[i] = claims[i]
        /\ claims'[k] = ClaimedRow(claims[k])
        /\ HasRow(claims'[k]) /\ claims'[k].status # "expired"
    BY <1>1, <1>4, <2>t DEF ClaimedRow, HasRow
  <2>2. GrantsHaveRows'
    <3>1. \A i \in RunKey : claims'[i].status # "expired" /\ (HasRow(claims[i]) => HasRow(claims'[i]))
      BY <2>1 DEF GrantsHaveRows
    <3>2. ASSUME NEW u \in Actor, NEW j \in Range(granted'[u]) PROVE HasRow(claims'[KeyOf[j]])
      <4>1. CASE u = t /\ j = job
        BY <2>1, <4>1
      <4>2. CASE ~(u = t /\ j = job)
        <5>1. j \in Range(granted[u])
          BY <1>1, <1>4, <3>2, <4>2
        <5> QED BY <2>t, <3>1, <5>1 DEF GrantsHaveRows
      <4> QED BY <4>1, <4>2
    <3> QED BY <1>2, <2>t, <3>1, <3>2 DEF GrantsHaveRows
  <2>3. OneGrantInWindow'
    <3> SUFFICES ASSUME NEW j \in Job, claims'[KeyOf[j]].fresh
                 PROVE  /\ started[j] <= DispatchAttempts
                        /\ \A u \in Actor : Pending(u, j)' => started[j] = 0
                        /\ \A u, w \in Actor : Pending(u, j)' /\ Pending(w, j)' => u = w
      BY <1>2 DEF OneGrantInWindow
    <3>1. CASE KeyOf[j] # k
      <4>1. claims[KeyOf[j]].fresh /\ \A u \in Actor : Pending(u, j)' => Pending(u, j)
        <5>1. KeyOf[j] \in RunKey /\ claims'[KeyOf[j]] = claims[KeyOf[j]]
          BY <2>t, <2>1, <3>1
        <5>2. ASSUME NEW u \in Actor, j \in Range(granted'[u]) PROVE j \in Range(granted[u])
          BY <1>1, <1>4, <3>1, <5>2
        <5> QED BY <1>2, <5>1, <5>2 DEF Pending
      <4> QED BY <4>1 DEF OneGrantInWindow
    <3>2. CASE KeyOf[j] = k
      \* A fresh row with a status other than "expired" would be a duplicate.
      <4>1. ~HasRow(claims[k])
        BY <1>1, <1>4, <2>1, <3>2 DEF Inserts, Duplicate, ClaimedRow, GrantsHaveRows
      <4>2. started[j] = 0
        BY <2>t, <3>2, <4>1 DEF GrantsHaveRows
      <4>3. \A u \in Actor : j \notin Range(granted[u])
        BY <3>2, <4>1 DEF GrantsHaveRows
      <4>4. \A u \in Actor : Pending(u, j)' => u = t
        BY <1>1, <4>3 DEF Pending
      <4> QED BY <4>2, <4>4, PipelineAssumption
    <3> QED BY <3>1, <3>2
  <2> QED BY <2>2, <2>3
<1> QED BY <1>1, <1>3, <1>4

LEMMA WindowOfDispatch ==
  ASSUME PipelineShape, Enforced, DedupeEnabled, GrantsHaveRows, OneGrantInWindow,
         NEW t \in Actor, Dispatch(t)
  PROVE  GrantsHaveRows' /\ OneGrantInWindow'
<1> DEFINE jobs == Range(granted[t])
<1>1. PICK runs \in [jobs -> 0..DispatchAttempts] :
        started' = [j \in Job |-> IF j \in jobs THEN started[j] + runs[j] ELSE started[j]]
  BY DEF Dispatch
<1>2. /\ at[t] = "dispatching" /\ at' = [at EXCEPT ![t] = "recording"]
      /\ UNCHANGED <<claims, granted>>
  BY DEF Dispatch, Goes
<1>3. /\ at \in [Actor -> Stage] /\ started \in [Job -> Nat] /\ DispatchAttempts \in Nat
      /\ \A u \in Actor : Range(granted[u]) \subseteq Job
  BY ActorTypes DEF PipelineShape, PipelineTypes
<1>4. \A u \in Actor, j \in Job : Pending(u, j)' => Pending(u, j) /\ u # t
  BY <1>2, <1>3 DEF Pending
<1>5. \A j \in jobs : j \in Job /\ Pending(t, j) /\ HasRow(claims[KeyOf[j]])
  BY <1>2, <1>3 DEF Pending, GrantsHaveRows
<1>6. GrantsHaveRows'
  <2>1. \A j \in Job : started'[j] > 0 => HasRow(claims[KeyOf[j]])
    BY <1>1, <1>3, <1>5 DEF GrantsHaveRows
  <2> QED BY <1>2, <2>1 DEF GrantsHaveRows
<1>7. OneGrantInWindow'
  <2> SUFFICES ASSUME NEW j \in Job, claims[KeyOf[j]].fresh
               PROVE  /\ started'[j] <= DispatchAttempts
                      /\ \A u \in Actor : Pending(u, j)' => started'[j] = 0
                      /\ \A u, w \in Actor : Pending(u, j)' /\ Pending(w, j)' => u = w
    BY <1>2 DEF OneGrantInWindow
  <2>1. CASE j \in jobs
    <3>1. started[j] = 0 /\ \A u \in Actor : ~Pending(u, j)'
      BY <1>4, <1>5, <2>1 DEF OneGrantInWindow
    <3>2. started'[j] = runs[j] /\ runs[j] \in 0..DispatchAttempts
      BY <1>1, <1>3, <2>1, <3>1
    <3> QED BY <1>3, <3>1, <3>2
  <2>2. CASE j \notin jobs
    BY <1>1, <1>4, <2>2 DEF OneGrantInWindow
  <2> QED BY <2>1, <2>2
<1> QED BY <1>6, <1>7

LEMMA WindowStep == PipelineShape /\ WindowInv /\ [Next]_vars => WindowInv'
<1> SUFFICES ASSUME PipelineShape, WindowInv, [Next]_vars, Enforced, DedupeEnabled
             PROVE  GrantsHaveRows' /\ OneGrantInWindow'
  BY DEF WindowInv, Enforced
<1>0. GrantsHaveRows /\ OneGrantInWindow
  BY DEF WindowInv
<1> DEFINE Quiet == /\ started' = started
                    /\ \A t \in Actor : /\ Range(granted'[t]) \subseteq Range(granted[t])
                                        /\ \A j \in Job : Pending(t, j)' => Pending(t, j)
<1>t. at \in [Actor -> Stage] /\ granted \in [Actor -> Seq(Job)]
  BY DEF PipelineShape, PipelineTypes
<1>1. ASSUME NEW t \in Actor, NEW d, NEW n, TakesOn(t, d, n), started' = started PROVE Quiet
  BY <1>1, <1>t DEF TakesOn, Goes, Pending
<1>2. (\E r \in Request : Receive(r)) \/ (\E p \in Processor : TakeUp(p)) => Quiet
  BY <1>1 DEF Receive, TakeUp, Actor, workerVars
<1>3. ASSUME NEW t \in Actor, Hydrate(t) \/ HydrationFails(t) PROVE Quiet
  <2>1. /\ granted[t] = <<>> /\ UNCHANGED <<granted, started>>
        /\ \E stage : at' = [at EXCEPT ![t] = stage]
    BY <1>3 DEF Hydrate, HydrationFails, Goes, PipelineShape, ActorShape, workerVars
  <2> QED BY <1>t, <2>1, EmptyLoop DEF Pending
<1>4. ASSUME NEW t \in Actor,
             EndClaims(t) \/ DispatchThrows(t) \/ Record(t)
      PROVE  Quiet
  <2>1. /\ UNCHANGED <<granted, started>>
        /\ \/ at[t] \in {"claiming", "dispatching"}
           \/ at' = [at EXCEPT ![t] = "settling"]
        /\ \E stage : at' = [at EXCEPT ![t] = stage]
    BY <1>4 DEF EndClaims, DispatchThrows, Record, Goes, workerVars
  <2> QED BY <1>t, <2>1 DEF Pending
<1>5. ASSUME NEW t \in Actor, Settle(t) PROVE Quiet
  <2>1. /\ granted' = [granted EXCEPT ![t] = <<>>] /\ UNCHANGED started
        /\ \E stage : at' = [at EXCEPT ![t] = stage]
    BY <1>5 DEF Settle, Forget, Goes, workerVars
  <2> QED BY <1>t, <2>1, EmptyLoop DEF Pending
<1>6. ASSUME Crash PROVE Quiet
  BY <1>6, <1>t, EmptyLoop DEF Crash, Pending, workerVars
<1>7. ASSUME \/ UNCHANGED vars \/ \E d \in Delivery : ComesDue(d)
             \/ \E k \in RunKey : Elsewhere(k)
      PROVE  Quiet
  <2>1. UNCHANGED <<started, granted, at>>
    BY <1>7 DEF Elsewhere, RunIsReplaced, WorkerBegins, WorkerEnds, ClaimAges, ComesDue, actorVars,
                workerVars, vars
  <2> QED BY <2>1 DEF Pending
<1>8. Quiet => GrantsHaveRows' /\ OneGrantInWindow'
  BY <1>0, WindowKept
<1>9. ASSUME NEW t \in Actor, Claim(t) PROVE GrantsHaveRows' /\ OneGrantInWindow'
  BY <1>0, <1>9, WindowOfClaim
<1>10. ASSUME NEW t \in Actor, Dispatch(t) PROVE GrantsHaveRows' /\ OneGrantInWindow'
  BY <1>0, <1>10, WindowOfDispatch
<1> HIDE DEF Quiet
<1> QED
  BY <1>2, <1>3, <1>4, <1>5, <1>6, <1>7, <1>8, <1>9, <1>10 DEF Next, ActorStep

\* Inside the dedupe window of its claim the workflow runs of a job all come from
\* one dispatch and its repeated POSTs: a job that was granted or dispatched has a
\* row, and a row inside its window is a duplicate.
\* (buildRunClaimQuery, stableReviewJobRunKey, githubApiFetchWithRetry)
THEOREM RunsComeFromOneDispatch == Spec => []RunsOfOneDispatch
<1>1. WindowInv => RunsOfOneDispatch
  BY DEF WindowInv, OneGrantInWindow, RunsOfOneDispatch
<1> QED BY <1>1, WindowInit, WindowStep, ShapeInvariant, PTL DEF Spec

-----------------------------------------------------------------------------
(* What is put aside has been dispatched: the proof.                       *)

LEMMA ServiceInit == Init => ServiceInv
BY EmptyLoop
   DEF Init, ServiceInv, ClaimsAreServed, JobsAreAccountedFor, Accounted, NoRow, HasRow,
       NoDelivery

\* A step that ends no dispatch and gives no claim.
LEMMA ServedKept ==
  ASSUME PipelineShape, ClaimsAreServed, started' = started, working' \subseteq working,
         \A run \in Job \X RunKey : queued'[run] > 0 => queued[run] > 0,
         \A k \in RunKey : claims'[k].status = claims[k].status,
         \A t \in Actor : /\ accepted'[t] \subseteq accepted[t]
                          /\ Range(granted'[t]) \subseteq Range(granted[t]),
         \A t \in Actor : at[t] \in {"claiming", "dispatching", "recording"} /\ granted[t] # <<>> =>
            at'[t] \in {"claiming", "dispatching", "recording"} /\ granted'[t] = granted[t]
  PROVE  ClaimsAreServed'
<1>t. /\ \A t \in Actor : Range(granted[t]) \subseteq Job
      /\ \A j \in Job : KeyOf[j] \in RunKey
  BY ActorTypes, PipelineAssumption
<1>1. \A k \in RunKey : /\ Dispatched(k)' <=> Dispatched(k)
                        /\ GivenUp(k)' <=> GivenUp(k)
                        /\ HasRow(claims'[k]) <=> HasRow(claims[k])
  BY DEF Dispatched, GivenUp, HasRow
<1>2. ASSUME NEW k, Underway(k) PROVE Underway(k)'
  <2>1. PICK t \in Actor : /\ at[t] \in {"claiming", "dispatching", "recording"}
                           /\ \E j \in Range(granted[t]) : KeyOf[j] = k
    BY <1>2 DEF Underway
  <2>2. granted[t] # <<>>
    BY <2>1, EmptyLoop
  <2> QED BY <2>1, <2>2 DEF Underway
<1>3. working \subseteq RunKey
  BY DEF PipelineShape, PipelineTypes
<1> QED BY <1>t, <1>1, <1>2, <1>3 DEF ClaimsAreServed, Served

\* The claim of a key is served by whoever was granted it.
LEMMA ServedAfterClaim ==
  ASSUME PipelineShape, Enforced, ClaimsAreServed, NEW t \in Actor, Claim(t)
  PROVE  ClaimsAreServed'
<1>1. PICK job \in Job, k \in RunKey :
        /\ k = KeyOf[job]
        /\ \A u \in Actor : u # t => granted'[u] = granted[u]
        /\ \/ /\ claims' = [claims EXCEPT ![k] = ClaimedRow(@)]
              /\ Range(granted'[t]) = Range(granted[t]) \cup {job}
           \/ UNCHANGED <<claims, granted>>
  BY ClaimOutcomes
<1>2. UNCHANGED <<at, started, queued, working, accepted>> /\ at[t] = "claiming"
  BY DEF Claim, workerVars
<1>3. CASE UNCHANGED <<claims, granted>>
  BY <1>2, <1>3, ServedKept
<1>4. CASE /\ claims' = [claims EXCEPT ![k] = ClaimedRow(@)]
           /\ Range(granted'[t]) = Range(granted[t]) \cup {job}
  <2>t. /\ claims \in [RunKey -> Row] /\ \A j \in Job : KeyOf[j] \in RunKey
        /\ \A u \in Actor : Range(granted[u]) \subseteq Job
    BY ActorTypes, PipelineAssumption DEF PipelineShape, PipelineTypes
  <2>1. /\ \A i \in RunKey : i # k => claims'[i] = claims[i]
        /\ HasRow(claims'[k])
    BY <1>1, <1>4, <2>t DEF ClaimedRow, HasRow
  <2>2. \A u \in Actor : Range(granted[u]) \subseteq Range(granted'[u])
    BY <1>1, <1>4
  <2>3. Underway(k)'
    BY <1>1, <1>2, <1>4 DEF Underway
  <2>4. \A i : (Underway(i) => Underway(i)') /\ (Dispatched(i) => Dispatched(i)')
    BY <1>2, <2>2 DEF Underway, Dispatched
  <2>5. ASSUME NEW i \in RunKey, HasRow(claims'[i]) PROVE Served(i)'
    <3>1. CASE i = k
      BY <2>3, <3>1 DEF Served
    <3>2. CASE i # k
      BY <2>1, <2>4, <2>5, <3>2 DEF ClaimsAreServed, Served, GivenUp
    <3> QED BY <3>1, <3>2
  <2>6. ASSUME NEW u \in Actor, NEW j \in Range(granted'[u]) PROVE HasRow(claims'[KeyOf[j]])
    <3>1. CASE j = job
      BY <1>1, <2>1, <3>1
    <3>2. CASE j # job
      <4>1. j \in Range(granted[u]) /\ KeyOf[j] \in RunKey
        BY <1>1, <1>4, <2>t, <2>6, <3>2
      <4>2. HasRow(claims[KeyOf[j]])
        BY <4>1 DEF ClaimsAreServed
      <4> QED BY <2>1, <4>1, <4>2
    <3> QED BY <3>1, <3>2
  <2> QED BY <1>2, <2>4, <2>5, <2>6 DEF ClaimsAreServed
<1> QED BY <1>1, <1>3, <1>4

LEMMA ServedAfterDispatch ==
  ASSUME PipelineShape, Enforced, ClaimsAreServed, NEW t \in Actor, Dispatch(t)
  PROVE  ClaimsAreServed'
<1>1. PICK runs \in [Range(granted[t]) -> 0..DispatchAttempts],
           jobs \in SUBSET Range(granted[t]) :
        /\ \A j \in jobs : runs[j] > 0
        /\ accepted' = [accepted EXCEPT ![t] = jobs]
        /\ queued' = [run \in Job \X RunKey |->
                        IF run[1] \in Range(granted[t]) /\ run[2] = Key(t, run[1])
                        THEN queued[run] + runs[run[1]] ELSE queued[run]]
        /\ started' = [j \in Job |->
                         IF j \in Range(granted[t]) THEN started[j] + runs[j] ELSE started[j]]
  BY DEF Dispatch
<1>2. /\ at[t] = "dispatching" /\ at' = [at EXCEPT ![t] = "recording"]
      /\ UNCHANGED <<claims, granted, working>>
  BY DEF Dispatch, Goes
<1>t. /\ at \in [Actor -> Stage] /\ started \in [Job -> Nat]
      /\ queued \in [Job \X RunKey -> Nat] /\ DispatchAttempts \in Nat
      /\ accepted \in [Actor -> SUBSET Job]
      /\ \A u \in Actor : Range(granted[u]) \subseteq Job
      /\ \A j : Key(t, j) = KeyOf[j]
  BY ActorTypes DEF PipelineShape, PipelineTypes, Enforced, Key
<1>3. \A j \in Job : /\ j \in Range(granted[t]) /\ runs[j] > 0 => started'[j] > 0
                     /\ started[j] > 0 => started'[j] > 0
  BY <1>1, <1>t
<1>4. \A k : Dispatched(k) => Dispatched(k)'
  BY <1>3 DEF Dispatched
<1>5. \A k : Underway(k) => Underway(k)'
  BY <1>2, <1>t DEF Underway
<1>6. \A k \in RunKey : HasRow(claims'[k]) => Served(k)'
  BY <1>2, <1>4, <1>5 DEF ClaimsAreServed, Served, GivenUp
<1>7. ASSUME NEW j \in Job, NEW k \in RunKey, queued'[<<j, k>>] > 0 PROVE Dispatched(k)'
  <2>1. CASE queued[<<j, k>>] > 0
    BY <1>4, <2>1 DEF ClaimsAreServed
  <2>2. CASE ~(queued[<<j, k>>] > 0)
    <3>1. <<j, k>> \in Job \X RunKey /\ queued[<<j, k>>] = 0
      BY <1>t, <2>2
    <3>2. j \in Range(granted[t]) /\ k = Key(t, j) /\ runs[j] > 0
      BY <1>1, <1>7, <1>t, <3>1
    <3> QED BY <1>3, <1>t, <3>2 DEF Dispatched
  <2> QED BY <2>1, <2>2
<1>8. \A u \in Actor : \A j \in accepted'[u] : started'[j] > 0
  BY <1>1, <1>3, <1>t DEF ClaimsAreServed
<1> QED BY <1>2, <1>4, <1>6, <1>7, <1>8 DEF ClaimsAreServed

\* The recorded status says that the dispatch was given up, unless it was made.
LEMMA ServedAfterRecord ==
  ASSUME PipelineShape, Enforced, ClaimsAreServed, NEW t \in Actor, Record(t)
  PROVE  ClaimsAreServed'
<1>1. /\ claims' = Recorded(t) /\ at' = [at EXCEPT ![t] = "settling"]
      /\ UNCHANGED <<granted, accepted, queued, working, started>>
  BY DEF Record, Recorded, Goes, workerVars
<1>t. /\ claims \in [RunKey -> Row] /\ at \in [Actor -> Stage]
      /\ accepted \in [Actor -> SUBSET Job]
      /\ \A u \in Actor : Range(granted[u]) \subseteq Job
      /\ \A j \in Job : KeyOf[j] \in RunKey
      /\ \A j : Key(t, j) = KeyOf[j]
  BY ActorTypes, PipelineAssumption DEF PipelineShape, PipelineTypes, Enforced, Key
<1>2. \A k \in RunKey : HasRow(claims'[k]) <=> HasRow(claims[k])
  BY <1>1, <1>t, RecordedType
<1>3. \A k : Dispatched(k)' <=> Dispatched(k)
  BY <1>1 DEF Dispatched
<1>4. ASSUME NEW k \in RunKey, HasRow(claims[k]) PROVE Served(k)'
  <2>1. CASE \E j \in Range(granted[t]) : KeyOf[j] = k
    <3> DEFINE j == CHOOSE j \in Range(granted[t]) : KeyOf[j] = k
    <3>1. j \in Range(granted[t]) /\ KeyOf[j] = k
      BY <2>1
    <3>2. j = CHOOSE i \in Range(granted[t]) : Key(t, i) = k
      BY <1>t
    <3> HIDE DEF j
    <3>3. claims'[k] = [claims[k] EXCEPT !.status = DispatchStatus(t, j)]
      BY <1>1, <1>4, <1>t, <3>1, <3>2 DEF Recorded
    <3>4. claims'[k].status = DispatchStatus(t, j)
      BY <1>t, <3>3 DEF Row
    <3>5. CASE outcome[t] # "throws" /\ j \in accepted[t]
      <4>1. started[j] > 0 /\ j \in Job
        BY <1>t, <3>5 DEF ClaimsAreServed
      <4> QED BY <1>3, <3>1, <4>1 DEF Served, Dispatched
    <3>6. CASE ~(outcome[t] # "throws" /\ j \in accepted[t])
      <4>1. DispatchStatus(t, j) \in {"dispatch_failed", "dispatch_error"}
        BY <3>6 DEF DispatchStatus
      <4> QED BY <3>4, <4>1 DEF Served, GivenUp
    <3> QED BY <3>5, <3>6
  <2>2. CASE ~\E j \in Range(granted[t]) : KeyOf[j] = k
    <3>1. claims'[k] = claims[k]
      BY <1>1, <1>t, <2>2 DEF Recorded
    <3>2. Underway(k) => Underway(k)'
      BY <1>1, <1>t, <2>2 DEF Underway
    <3> QED BY <1>3, <1>4, <3>1, <3>2 DEF ClaimsAreServed, Served, GivenUp
  <2> QED BY <2>1, <2>2
<1>5. \A u \in Actor : \A j \in Range(granted'[u]) : HasRow(claims'[KeyOf[j]])
  BY <1>1, <1>2, <1>t DEF ClaimsAreServed
<1> QED BY <1>1, <1>2, <1>3, <1>4, <1>5 DEF ClaimsAreServed

\* A worker begins and ends a run only of a key that was dispatched.
LEMMA ServedAfterWorker ==
  ASSUME PipelineShape, ClaimsAreServed, NEW k \in RunKey,
         WorkerEnds(k) \/ \E j \in Job : WorkerBegins(j, k)
  PROVE  ClaimsAreServed'
<1>1. \/ claims' = claims
      \/ \E status \in {"completed", "failed", "running"} : claims' = StatusWrite(claims, k, status)
  BY DEF WorkerBegins, WorkerEnds, WorkBegin
<1>2. /\ Dispatched(k)
      /\ working' \subseteq working \union {k}
      /\ \A run \in Job \X RunKey : queued'[run] > 0 => queued[run] > 0
      /\ UNCHANGED <<at, granted, accepted, started>>
  <2>1. CASE WorkerEnds(k)
    BY <2>1 DEF WorkerEnds, actorVars, ClaimsAreServed
  <2>2. ASSUME NEW j \in Job, WorkerBegins(j, k)
        PROVE  /\ Dispatched(k)
               /\ working' \subseteq working \union {k}
               /\ \A run \in Job \X RunKey : queued'[run] > 0 => queued[run] > 0
               /\ UNCHANGED <<at, granted, accepted, started>>
    BY <2>2 DEF WorkerBegins, actorVars, ClaimsAreServed, PipelineShape, PipelineTypes
  <2> QED BY <2>1, <2>2
<1>t. /\ claims \in [RunKey -> Row] /\ working \subseteq RunKey
      /\ \A j \in Job : KeyOf[j] \in RunKey
      /\ \A u \in Actor : Range(granted[u]) \subseteq Job
  BY ActorTypes, PipelineAssumption DEF PipelineShape, PipelineTypes
<1>3. /\ \A i \in RunKey : i # k => claims'[i] = claims[i]
      /\ \A i \in RunKey : HasRow(claims'[i]) <=> HasRow(claims[i])
  BY <1>1, <1>t DEF StatusWrite, HasRow, Row
<1>4. \A i : (Dispatched(i)' <=> Dispatched(i)) /\ (Underway(i)' <=> Underway(i))
  BY <1>2 DEF Dispatched, Underway
<1>5. ASSUME NEW i \in RunKey, HasRow(claims[i]) PROVE Served(i)'
  <2>1. CASE i = k
    BY <1>2, <1>4, <2>1 DEF ClaimsAreServed, Served
  <2>2. CASE i # k
    BY <1>3, <1>4, <1>5, <2>2 DEF ClaimsAreServed, Served, GivenUp
  <2> QED BY <2>1, <2>2
<1>6. \A u \in Actor : \A j \in Range(granted[u]) : HasRow(claims'[KeyOf[j]])
  BY <1>3, <1>t DEF ClaimsAreServed
<1> QED BY <1>2, <1>3, <1>4, <1>5, <1>6 DEF ClaimsAreServed

LEMMA ServedStep ==
  PipelineShape /\ Enforced /\ ClaimsAreServed /\ [Next]_vars /\ crashes' = 0 => ClaimsAreServed'
<1> SUFFICES ASSUME PipelineShape, Enforced, ClaimsAreServed, [Next]_vars, crashes' = 0
             PROVE  ClaimsAreServed'
  OBVIOUS
<1> DEFINE Quiet ==
      /\ started' = started /\ working' \subseteq working
      /\ \A run \in Job \X RunKey : queued'[run] > 0 => queued[run] > 0
      /\ \A k \in RunKey : claims'[k].status = claims[k].status
      /\ \A t \in Actor : /\ accepted'[t] \subseteq accepted[t]
                          /\ Range(granted'[t]) \subseteq Range(granted[t])
      /\ \A t \in Actor : at[t] \in {"claiming", "dispatching", "recording"} /\ granted[t] # <<>> =>
            at'[t] \in {"claiming", "dispatching", "recording"} /\ granted'[t] = granted[t]
<1>t. /\ at \in [Actor -> Stage] /\ granted \in [Actor -> Seq(Job)]
      /\ accepted \in [Actor -> SUBSET Job] /\ claims \in [RunKey -> Row]
  BY DEF PipelineShape, PipelineTypes
<1>1. ASSUME NEW t \in Actor, NEW d, NEW n, TakesOn(t, d, n), at[t] = "idle",
             UNCHANGED <<claims, workerVars>>
      PROVE  Quiet
  BY <1>1, <1>t DEF TakesOn, Goes, workerVars
<1>2. (\E r \in Request : Receive(r)) \/ (\E p \in Processor : TakeUp(p)) => Quiet
  BY <1>1 DEF Receive, TakeUp, Actor
<1>3. ASSUME NEW t \in Actor, Hydrate(t) \/ HydrationFails(t) PROVE Quiet
  <2>1. /\ at[t] = "hydrating" /\ UNCHANGED <<claims, granted, accepted, queued, working, started>>
        /\ \E stage : at' = [at EXCEPT ![t] = stage]
    BY <1>3 DEF Hydrate, HydrationFails, Goes, workerVars
  <2> QED BY <1>t, <2>1
<1>4. ASSUME NEW t \in Actor, EndClaims(t) \/ DispatchThrows(t) PROVE Quiet
  <2>1. /\ UNCHANGED <<claims, granted, accepted, queued, working, started>>
        /\ \/ granted[t] = <<>> /\ at' = [at EXCEPT ![t] = "settling"]
           \/ at' = [at EXCEPT ![t] = "dispatching"]
           \/ at' = [at EXCEPT ![t] = "recording"]
    BY <1>4 DEF EndClaims, DispatchThrows, Goes, workerVars
  <2> QED BY <1>t, <2>1
<1>5. ASSUME NEW t \in Actor, Settle(t) PROVE Quiet
  <2>1. /\ at[t] = "settling" /\ UNCHANGED <<claims, queued, working, started>>
        /\ granted' = [granted EXCEPT ![t] = <<>>] /\ accepted' = [accepted EXCEPT ![t] = {}]
        /\ \E stage : at' = [at EXCEPT ![t] = stage]
    BY <1>5 DEF Settle, Forget, Goes, workerVars
  <2> QED BY <1>t, <2>1, EmptyLoop
<1>6. ASSUME NEW k \in RunKey, ClaimAges(k) PROVE Quiet
  <2>1. claims' = Expire(claims, k) \/ claims' = LeaveWindow(claims, k)
    BY <1>6 DEF ClaimAges
  <2>2. \A i \in RunKey : claims'[i].status = claims[i].status
    <3>1. CASE claims' = Expire(claims, k)
      BY <1>t, <3>1 DEF Expire, Row
    <3>2. CASE claims' = LeaveWindow(claims, k)
      BY <1>t, <3>2 DEF LeaveWindow, Row
    <3> QED BY <2>1, <3>1, <3>2
  <2> QED BY <1>6, <2>2 DEF ClaimAges, actorVars, workerVars
<1>7. ASSUME UNCHANGED vars \/ (\E d \in Delivery : ComesDue(d)) PROVE Quiet
  BY <1>7 DEF ComesDue, actorVars, workerVars, vars
<1>r. ASSUME NEW j \in Job, NEW k \in RunKey, RunIsReplaced(j, k) PROVE Quiet
  <2>1. \A run \in Job \X RunKey : queued'[run] > 0 => queued[run] > 0
    BY <1>r DEF RunIsReplaced, PipelineShape, PipelineTypes
  <2> QED BY <1>r, <2>1 DEF RunIsReplaced, actorVars
<1>8. ASSUME Crash PROVE FALSE
  BY <1>8 DEF Crash, PipelineShape, PipelineTypes
<1>9. Quiet => ClaimsAreServed'
  BY ServedKept
<1>10. ASSUME NEW t \in Actor, Claim(t) \/ Dispatch(t) \/ Record(t) PROVE ClaimsAreServed'
  BY <1>10, ServedAfterClaim, ServedAfterDispatch, ServedAfterRecord
<1>11. ASSUME NEW k \in RunKey, WorkerEnds(k) \/ \E j \in Job : WorkerBegins(j, k)
       PROVE  ClaimsAreServed'
  BY <1>11, ServedAfterWorker
<1> HIDE DEF Quiet
<1> QED
  BY <1>2, <1>3, <1>4, <1>5, <1>6, <1>7, <1>r, <1>8, <1>9, <1>10, <1>11 DEF Next, ActorStep, Elsewhere

\* The jobs of a delivery, their keys, and that rows stay.
LEMMA JobsOfDelivery ==
  ASSUME PipelineShape, [Next]_vars, NEW d \in Delivery
  PROVE  /\ JobsOf[d] \in Seq(Job)
         /\ \A j \in Range(JobsOf[d]) :
              KeyOf[j] \in RunKey /\ (HasRow(claims[KeyOf[j]]) => HasRow(claims'[KeyOf[j]]))
         /\ AllHaveRows(d) => AllHaveRows(d)'
<1>1. JobsOf[d] \in Seq(Job)
  BY PipelineAssumption
<1>2. Range(JobsOf[d]) \subseteq Job
  BY <1>1, ElementOfSeq DEF Range
<1>3. \A j \in Range(JobsOf[d]) : KeyOf[j] \in RunKey
  BY <1>2, PipelineAssumption
<1> QED BY <1>1, <1>3, TableStep DEF AllHaveRows

LEMMA OtherActors ==
  ASSUME PipelineShape, [Next]_vars, NEW t \in Actor, Accounted(t),
         at'[t] = at[t], work'[t] = work[t], todo'[t] = todo[t],
         held'[t] = held[t], outcome'[t] = outcome[t]
  PROVE  Accounted(t)'
<1>1. CASE at[t] \in Resting
  BY <1>1 DEF Accounted, Resting
<1>2. CASE at[t] \notin Resting
  <2>1. PICK d \in Delivery : d = work[t].delivery
    BY <1>2 DEF PipelineShape, PipelineTypes
  <2>2. /\ \A j \in Range(JobsOf[d]) : HasRow(claims[KeyOf[j]]) => HasRow(claims'[KeyOf[j]])
        /\ AllHaveRows(d) => AllHaveRows(d)'
    BY JobsOfDelivery
  <2>3. work'[t].delivery = d
    BY <2>1
  <2>4. at[t] = "settling" /\ outcome[t] = "nothing" => AllHaveRows(d)'
    BY <2>1, <2>2 DEF Accounted
  <2> QED BY <2>1, <2>2, <2>3, <2>4 DEF Accounted, AllHaveRows
<1> QED BY <1>1, <1>2

\* The rest of the steps leaves the rows of the inbox, or reopens them.
LEMMA AccountedStep ==
  PipelineShape /\ Enforced /\ JobsAreAccountedFor /\ [Next]_vars => JobsAreAccountedFor'
<1> SUFFICES ASSUME PipelineShape, Enforced, JobsAreAccountedFor, [Next]_vars
             PROVE  JobsAreAccountedFor'
  OBVIOUS
<1>t. /\ rows \in [Delivery -> InboxRow] /\ claims \in [RunKey -> Row]
      /\ at \in [Actor -> Stage] /\ DOMAIN work = Actor
      /\ todo \in [Actor -> Seq(Job)] /\ held \in [Actor -> BOOLEAN]
      /\ outcome \in [Actor -> Outcome \cup {"none"}]
  BY DEF PipelineShape, PipelineTypes
<1> DEFINE Quiet == \A d \in Delivery : rows'[d].status = "ignored" => rows[d].status = "ignored"
<1>1. ASSUME Quiet, \A t \in Actor : Accounted(t)' PROVE JobsAreAccountedFor'
  BY <1>1, JobsOfDelivery DEF JobsAreAccountedFor
<1>2. ASSUME NEW t \in Actor, Accounted(t)', Quiet,
             \A u \in Actor : u # t =>
               /\ at'[u] = at[u] /\ work'[u] = work[u] /\ todo'[u] = todo[u]
               /\ held'[u] = held[u] /\ outcome'[u] = outcome[u]
      PROVE  JobsAreAccountedFor'
  <2>1. \A u \in Actor : u # t => Accounted(u)'
    BY <1>2, OtherActors DEF JobsAreAccountedFor
  <2> QED BY <1>1, <1>2, <2>1
<1>3. ASSUME NEW t \in Actor, NEW d, NEW n, TakesOn(t, d, n), Quiet PROVE JobsAreAccountedFor'
  <2>1. Accounted(t)'
    BY <1>3, <1>t DEF TakesOn, Goes, Accounted
  <2> QED BY <1>2, <1>3, <1>t, <2>1 DEF TakesOn, Goes
<1>4. ASSUME NEW r \in Request, Receive(r) PROVE JobsAreAccountedFor'
  <2>1. rows' = ReceivedUpsert(rows, DeliveryOf[r])
    BY <1>4 DEF Receive
  <2>2. DeliveryOf[r] \in Delivery
    BY PipelineAssumption
  <2>3. Quiet
    BY <1>t, <2>1, <2>2 DEF ReceivedUpsert, InboxRow
  <2> QED BY <1>3, <1>4, <2>3 DEF Receive, Actor
<1>5. ASSUME NEW p \in Processor, TakeUp(p) PROVE JobsAreAccountedFor'
  <2>1. PICK d \in DueRows(rows) : /\ rows' = ClaimRows(rows, {d})
                                   /\ TakesOn(p, d, rows[d].attempts + 1)
    BY <1>5 DEF TakeUp
  <2>2. Quiet
    BY <1>t, <2>1 DEF ClaimRows, DueRows
  <2> QED BY <1>3, <2>1, <2>2 DEF Actor
<1>6. ASSUME NEW t \in Actor, Hydrate(t) PROVE JobsAreAccountedFor'
  <2>1. /\ todo' = [todo EXCEPT ![t] = JobsOf[work[t].delivery]]
        /\ at' = [at EXCEPT ![t] = "claiming"]
        /\ UNCHANGED <<rows, work, held, outcome>>
    BY <1>6 DEF Hydrate, Goes
  <2>2. Accounted(t)'
    BY <1>t, <2>1 DEF Accounted
  <2> QED BY <1>2, <1>t, <2>1, <2>2
<1>7. ASSUME NEW t \in Actor, HydrationFails(t) PROVE JobsAreAccountedFor'
  <2>1. /\ outcome' = [outcome EXCEPT ![t] = "retry"] /\ at' = [at EXCEPT ![t] = "settling"]
        /\ UNCHANGED <<rows, work, todo, held>>
    BY <1>7 DEF HydrationFails, Goes
  <2>2. Accounted(t)'
    BY <1>t, <2>1 DEF Accounted
  <2> QED BY <1>2, <1>t, <2>1, <2>2
<1>d. ASSUME NEW t \in Actor, at[t] \notin Resting
      PROVE  /\ work[t].delivery \in Delivery
             /\ \A j \in Range(JobsOf[work[t].delivery]) :
                  HasRow(claims[KeyOf[j]]) => HasRow(claims'[KeyOf[j]])
  <2>1. work[t].delivery \in Delivery
    BY <1>d DEF PipelineShape, PipelineTypes
  <2> QED BY <2>1, JobsOfDelivery
<1>8. ASSUME NEW t \in Actor, Claim(t) PROVE JobsAreAccountedFor'
  <2>1. PICK job \in Job, k \in RunKey :
          /\ k = KeyOf[job]
          /\ Range(todo'[t]) \cup {job} = Range(todo[t])
          /\ \A u \in Actor : u # t => todo'[u] = todo[u] /\ held'[u] = held[u]
          /\ held[t] => held'[t]
          /\ \/ claims' = [claims EXCEPT ![k] = ClaimedRow(@)]
             \/ claims' = claims /\ (held'[t] \/ HasRow(claims[k]))
    BY <1>8, ClaimOutcomes
  <2>2. at[t] = "claiming" /\ UNCHANGED <<rows, at, work, outcome>>
    BY <1>8 DEF Claim
  <2>3. held'[t] \/ HasRow(claims'[k])
    BY <1>t, <2>1 DEF ClaimedRow, HasRow
  <2>4. /\ \A j \in Range(JobsOf[work[t].delivery]) :
             j \in Range(todo[t]) \/ held[t] \/ HasRow(claims[KeyOf[j]])
        /\ \A j \in Range(JobsOf[work[t].delivery]) :
             HasRow(claims[KeyOf[j]]) => HasRow(claims'[KeyOf[j]])
    BY <1>d, <2>2 DEF JobsAreAccountedFor, Accounted, Resting
  <2>5. ASSUME NEW j \in Range(JobsOf[work[t].delivery])
        PROVE  j \in Range(todo'[t]) \/ held'[t] \/ HasRow(claims'[KeyOf[j]])
    BY <2>1, <2>3, <2>4
  <2>6. Accounted(t)'
    BY <2>2, <2>5 DEF Accounted
  <2> QED BY <1>2, <2>1, <2>2, <2>6
\* An actor whose jobs are all claimed and none denied has rows for all.
<1>9. ASSUME NEW t \in Actor, at[t] \in {"claiming", "dispatching", "recording"}, todo[t] = <<>>,
             Result(t) = "nothing"
      PROVE  \A j \in Range(JobsOf[work[t].delivery]) : HasRow(claims'[KeyOf[j]])
  <2>1. ~held[t]
    BY <1>9 DEF Result
  <2>2. \A j \in Range(JobsOf[work[t].delivery]) : HasRow(claims[KeyOf[j]])
    BY <1>9, <2>1, EmptyLoop DEF JobsAreAccountedFor, Accounted
  <2> QED BY <1>9, <1>d, <2>2 DEF Resting
<1>10. ASSUME NEW t \in Actor, EndClaims(t) PROVE JobsAreAccountedFor'
  <2>1. /\ at[t] = "claiming" /\ todo[t] = <<>>
        /\ UNCHANGED <<rows, claims, work, todo, held>>
        /\ \/ at' = [at EXCEPT ![t] = "settling"] /\ outcome' = [outcome EXCEPT ![t] = Result(t)]
           \/ at' = [at EXCEPT ![t] = "dispatching"] /\ outcome' = outcome
    BY <1>10 DEF EndClaims, Goes
  <2>2. Accounted(t)'
    BY <1>t, <1>9, <2>1 DEF JobsAreAccountedFor, Accounted, AllHaveRows
  <2> QED BY <1>2, <1>t, <2>1, <2>2
<1>11. ASSUME NEW t \in Actor, Dispatch(t) \/ DispatchThrows(t) PROVE JobsAreAccountedFor'
  <2>1. /\ at[t] = "dispatching" /\ at' = [at EXCEPT ![t] = "recording"]
        /\ UNCHANGED <<rows, claims, work, todo, held>>
        /\ \/ outcome' = outcome
           \/ outcome' = [outcome EXCEPT ![t] = "throws"]
    BY <1>11 DEF Dispatch, DispatchThrows, Goes
  <2>2. Accounted(t)'
    BY <1>t, <2>1 DEF JobsAreAccountedFor, Accounted
  <2> QED BY <1>2, <1>t, <2>1, <2>2
<1>12. ASSUME NEW t \in Actor, Record(t) PROVE JobsAreAccountedFor'
  <2>1. /\ at[t] = "recording" /\ at' = [at EXCEPT ![t] = "settling"]
        /\ UNCHANGED <<rows, work, todo, held>>
        /\ outcome' = [outcome EXCEPT ![t] = IF @ = "throws" THEN @ ELSE Result(t)]
    BY <1>12 DEF Record, Goes
  <2>2. todo[t] = <<>>
    BY <2>1 DEF PipelineShape, ActorShape
  <2>3. Accounted(t)'
    <3>1. at'[t] = "settling" /\ work' = work
          /\ (outcome'[t] = "nothing" => Result(t) = "nothing")
      BY <1>t, <2>1
    <3> QED BY <1>9, <2>1, <2>2, <3>1 DEF Accounted, AllHaveRows
  <2> QED BY <1>2, <1>t, <2>1, <2>3
<1>13. ASSUME NEW t \in Actor, Settle(t) PROVE JobsAreAccountedFor'
  <2> DEFINE status == StatusAfter(outcome[t], work[t].attempts)
  <2>1. PICK stage \in Resting : Forget(t, stage)
    BY <1>13 DEF Settle, Resting
  <2>2. /\ at[t] = "settling" /\ rows' = InboxWrite(rows, work[t].delivery, status)
        /\ claims' = claims
    BY <1>13 DEF Settle
  <2>3. work[t].delivery \in Delivery /\ outcome[t] \in Outcome
    BY <2>2 DEF PipelineShape, PipelineTypes, ActorShape, Resting
  <2>4. Accounted(t)'
    BY <1>t, <2>1 DEF Forget, Goes, Accounted, Resting
  <2>5. \A u \in Actor : u # t =>
               /\ at'[u] = at[u] /\ work'[u] = work[u] /\ todo'[u] = todo[u]
               /\ held'[u] = held[u] /\ outcome'[u] = outcome[u]
    BY <1>t, <2>1 DEF Forget, Goes
  <2>6. \A u \in Actor : u # t => Accounted(u)'
    BY <2>5, OtherActors DEF JobsAreAccountedFor
  <2>7. status = "ignored" => AllHaveRows(work[t].delivery)
    <3>1. status = "ignored" => outcome[t] = "nothing"
      BY <2>3 DEF StatusAfter, Outcome
    <3> QED BY <2>2, <3>1 DEF JobsAreAccountedFor, Accounted
  <2> HIDE DEF status
  <2>8. ASSUME NEW d \in Delivery, rows'[d].status = "ignored" PROVE AllHaveRows(d)'
    <3>1. rows[d].status = "ignored" \/ (d = work[t].delivery /\ status = "ignored")
      BY <1>t, <2>2, <2>3, <2>8 DEF InboxWrite, InboxRow
    <3>2. AllHaveRows(d)
      BY <2>7, <3>1 DEF JobsAreAccountedFor
    <3> QED BY <3>2, JobsOfDelivery
  <2> QED BY <2>4, <2>6, <2>8 DEF JobsAreAccountedFor
<1>14. ASSUME NEW k \in RunKey, Elsewhere(k) PROVE JobsAreAccountedFor'
  <2>1. UNCHANGED <<rows, at, work, todo, held, outcome>>
    BY <1>14 DEF Elsewhere, RunIsReplaced, WorkerBegins, WorkerEnds, ClaimAges, actorVars
  <2> QED BY <1>1, <2>1, OtherActors DEF JobsAreAccountedFor
<1>15. ASSUME Crash PROVE JobsAreAccountedFor'
  <2>1. rows' = rows
    BY <1>15 DEF Crash
  <2>2. ASSUME NEW t \in Actor PROVE Accounted(t)'
    <3>1. \/ at'[t] \in Resting
          \/ /\ at'[t] = at[t] /\ work'[t] = work[t] /\ todo'[t] = todo[t]
             /\ held'[t] = held[t] /\ outcome'[t] = outcome[t]
      BY <1>15, <1>t DEF Crash, Resting
    <3>2. CASE at'[t] \in Resting
      BY <3>2 DEF Accounted, Resting
    <3> QED BY <3>1, <3>2, OtherActors DEF JobsAreAccountedFor
  <2> QED BY <1>1, <2>1, <2>2
<1>16. ASSUME NEW d \in Delivery, ComesDue(d) PROVE JobsAreAccountedFor'
  <2>1. Quiet /\ UNCHANGED <<at, work, todo, held, outcome>>
    BY <1>16, <1>t DEF ComesDue, actorVars, InboxRow
  <2> QED BY <1>1, <2>1, OtherActors DEF JobsAreAccountedFor
<1>17. CASE UNCHANGED vars
  <2>1. UNCHANGED <<rows, at, work, todo, held, outcome>>
    BY <1>17 DEF vars
  <2> QED BY <1>1, <2>1, OtherActors DEF JobsAreAccountedFor
<1> QED
  BY <1>4, <1>5, <1>6, <1>7, <1>8, <1>10, <1>11, <1>12, <1>13, <1>14, <1>15, <1>16, <1>17
     DEF Next, ActorStep

\* While no process has died, every review an ignored delivery asked for was
\* dispatched or given up, or is on its way: every claim was served, and an
\* actor puts aside only a delivery whose jobs all have claims.
\* (shouldRetryWebhookResult, updateWebhookInboxFromResult)
THEOREM IgnoredDeliveriesAreDispatched == Spec => []IgnoredIsDispatched
<1>1. PipelineShape /\ ServiceInv /\ [Next]_vars => ServiceInv'
  <2> SUFFICES ASSUME PipelineShape, ServiceInv, [Next]_vars, Enforced
               PROVE  (crashes' = 0 => ClaimsAreServed') /\ JobsAreAccountedFor'
    BY DEF ServiceInv, Enforced
  <2>1. crashes' = 0 => crashes = 0
    <3>1. CASE Crash
      BY <3>1 DEF Crash, PipelineShape, PipelineTypes
    <3>2. CASE \E k \in RunKey : Elsewhere(k)
      BY <3>2 DEF Elsewhere, RunIsReplaced, WorkerBegins, WorkerEnds, ClaimAges
    <3>3. CASE \E t \in Actor : ActorStep(t)
      BY <3>3 DEF ActorStep, Hydrate, HydrationFails, Claim, EndClaims, Dispatch, DispatchThrows,
                  Record, Settle
    <3> QED BY <3>1, <3>2, <3>3 DEF Next, Receive, TakeUp, ComesDue, vars
  <2> QED BY <2>1, ServedStep, AccountedStep DEF ServiceInv
<1>2. PipelineShape /\ ServiceInv => IgnoredIsDispatched
  <2> SUFFICES ASSUME PipelineShape, ServiceInv, Enforced, crashes = 0,
                      NEW d \in Delivery, Ignored(d), NEW j \in Range(JobsOf[d])
               PROVE  Dispatched(KeyOf[j]) \/ Underway(KeyOf[j]) \/ DispatchGivenUp(j)
    BY DEF IgnoredIsDispatched
  <2>1. Range(JobsOf[d]) \subseteq Job
    <3>1. JobsOf[d] \in Seq(Job)
      BY PipelineAssumption
    <3> QED BY <3>1, ElementOfSeq DEF Range
  <2>2. KeyOf[j] \in RunKey
    BY <2>1, PipelineAssumption
  <2>3. HasRow(claims[KeyOf[j]])
    BY DEF ServiceInv, JobsAreAccountedFor, Ignored, AllHaveRows
  <2> QED BY <2>2, <2>3 DEF ServiceInv, ClaimsAreServed, Served, GivenUp, DispatchGivenUp
<1> QED BY <1>1, <1>2, ServiceInit, ShapeInvariant, PTL DEF Spec
=============================================================================
