---------------------------- MODULE WebhookInbox ----------------------------
(***************************************************************************)
(* The durable webhook inbox at work: webhook requests that record their   *)
(* delivery, process it and settle its row (handleGitHubWebhook), and the  *)
(* processor of every server process that replays what is due              *)
(* (startWebhookInboxProcessor, processWebhookInboxOnce).                  *)
(*                                                                         *)
(* Processing a delivery is one step with an arbitrary outcome here;       *)
(* RunControl models what it does to the run-claim table.  A claimDue is   *)
(* one SQL statement that selects its candidates on a snapshot and then    *)
(* waits for their row locks, so it is two steps; executeStatement holds   *)
(* its process meanwhile.                                                  *)
(***************************************************************************)
EXTENDS InboxLedger

CONSTANTS
  Request,        \* webhook requests that GitHub sends
  DeliveryOf,     \* the delivery of each request; a redelivery repeats one
  App,            \* server processes
  HostOf,         \* the process that serves each request
  FailClosed,     \* settings.failClosed
  InboxFaults,    \* may inbox statements fail?
  MaxCrashes,     \* how many crashes of server processes are considered
  SlowProcessing  \* may processing outlast the delay until the next attempt?

ASSUME WebhookInboxAssumption ==
  /\ DeliveryOf \in [Request -> Delivery]
  /\ IsFiniteSet(App)
  /\ HostOf \in [Request -> App]
  /\ FailClosed \in BOOLEAN
  /\ InboxFaults \in BOOLEAN
  /\ MaxCrashes \in Nat
  /\ SlowProcessing \in BOOLEAN

VARIABLES
  rows,     \* the webhook-inbox table
  request,  \* where each request is, and the status it is going to write
  pass,     \* where each processor is
  batch,    \* the deliveries a processor has claimed and not yet replayed
  chosen,   \* the candidates of the claim statement a processor has in flight
  current,  \* the delivery a processor is replaying, and its outcome
  replays,  \* history: how often each delivery was replayed
  crashes   \* crashes so far

requestVars == request
passVars    == <<pass, batch, chosen, current>>
vars == <<rows, request, pass, batch, chosen, current, replays, crashes>>

RequestStage == {"idle", "processing", "settling", "done"}
PassStage    == {"idle", "claiming", "replaying", "processing", "settling", "catching"}
Busy         == {"processing", "settling", "catching"}
NoOutcome    == "none"
Claimed      == [delivery : Delivery, attempts : Nat]
NoClaim      == [delivery |-> "none", attempts |-> 0]
Nothing      == [claim |-> NoClaim, outcome |-> NoOutcome]

TypeOK ==
  /\ rows \in [Delivery -> InboxRow]
  /\ request \in [Request -> [at : RequestStage, status : InboxStatus \union {"none"}]]
  /\ pass \in [App -> PassStage]
  /\ batch \in [App -> SUBSET Claimed]
  /\ chosen \in [App -> SUBSET Delivery]
  /\ current \in [App -> [claim : Claimed \union {NoClaim}, outcome : Outcome \union {NoOutcome}]]
  /\ \A a \in App : pass[a] \in Busy => current[a].claim \in Claimed
  /\ replays \in [Delivery -> Nat]
  /\ crashes \in 0..MaxCrashes

Init ==
  /\ rows = [d \in Delivery |-> NoDelivery]
  /\ request = [r \in Request |-> [at |-> "idle", status |-> "none"]]
  /\ pass = [a \in App |-> "idle"]
  /\ batch = [a \in App |-> {}]
  /\ chosen = [a \in App |-> {}]
  /\ current = [a \in App |-> Nothing]
  /\ replays = [d \in Delivery |-> 0]
  /\ crashes = 0

\* A process that waits for a statement does nothing else.
Free(a) == pass[a] # "claiming"

\* A status update that commits, or fails and commits or not.
Writes(d, status) == rows' = InboxWrite(rows, d, status)
WriteLost(d, status) == InboxFaults /\ rows' \in {rows, InboxWrite(rows, d, status)}

-----------------------------------------------------------------------------
(* A webhook request.                                                      *)

At(r, stage) == request[r].at = stage /\ Free(HostOf[r])

Goes(r, stage, status) == request' = [request EXCEPT ![r] = [at |-> stage, status |-> status]]

\* recordReceived; with failClosed a failing insert fails the request.
Receive(r) ==
  /\ At(r, "idle")
  /\ \/ /\ rows' = ReceivedUpsert(rows, DeliveryOf[r])
        /\ Goes(r, "processing", "none")
     \/ /\ InboxFaults
        /\ rows' \in {rows, ReceivedUpsert(rows, DeliveryOf[r])}
        /\ Goes(r, IF FailClosed THEN "done" ELSE "processing", "none")
  /\ UNCHANGED <<passVars, replays, crashes>>

Process(r) ==
  /\ At(r, "processing")
  /\ \E outcome \in Outcome : Goes(r, "settling", StatusAfter(outcome, 0))
  /\ UNCHANGED <<rows, passVars, replays, crashes>>

\* The update that follows; if it fails, the request ends all the same.
Settle(r) ==
  /\ At(r, "settling")
  /\ \/ Writes(DeliveryOf[r], request[r].status)
     \/ WriteLost(DeliveryOf[r], request[r].status)
  /\ Goes(r, "done", "none")
  /\ UNCHANGED <<passVars, replays, crashes>>

-----------------------------------------------------------------------------
(* A pass of the processor: run, processWebhookInboxOnce.                  *)

\* The timer fires while no pass is running: claimDue starts its statement.
StartPass(a) ==
  /\ pass[a] = "idle"
  /\ pass' = [pass EXCEPT ![a] = "claiming"]
  /\ \E candidates \in Batches(rows) : chosen' = [chosen EXCEPT ![a] = candidates]
  /\ UNCHANGED <<rows, request, batch, current, replays, crashes>>

ClaimDue(a) ==
  /\ pass[a] = "claiming"
  /\ rows' = ClaimRows(rows, chosen[a])
  /\ batch' = [batch EXCEPT ![a] = ClaimedBatch(rows, chosen[a])]
  /\ chosen' = [chosen EXCEPT ![a] = {}]
  /\ pass' = [pass EXCEPT ![a] = "replaying"]
  /\ UNCHANGED <<request, current, replays, crashes>>

\* The statement fails, or commits and loses its answer: nothing is replayed.
ClaimDueFails(a) ==
  /\ InboxFaults
  /\ pass[a] = "claiming"
  /\ rows' \in {rows, ClaimRows(rows, chosen[a])}
  /\ chosen' = [chosen EXCEPT ![a] = {}]
  /\ pass' = [pass EXCEPT ![a] = "idle"]
  /\ UNCHANGED <<request, batch, current, replays, crashes>>

Replay(a) ==
  /\ pass[a] = "replaying"
  /\ \E claim \in batch[a] :
       /\ batch' = [batch EXCEPT ![a] = @ \ {claim}]
       /\ current' = [current EXCEPT ![a] = [claim |-> claim, outcome |-> NoOutcome]]
       /\ replays' = [replays EXCEPT ![claim.delivery] = @ + 1]
  /\ pass' = [pass EXCEPT ![a] = "processing"]
  /\ UNCHANGED <<rows, request, chosen, crashes>>

ReplayEnds(a) ==
  /\ pass[a] = "processing"
  /\ \E outcome \in Outcome :
       /\ current' = [current EXCEPT ![a].outcome = outcome]
       /\ pass' = [pass EXCEPT ![a] = IF outcome = "throws" THEN "catching" ELSE "settling"]
  /\ UNCHANGED <<rows, request, batch, chosen, replays, crashes>>

\* The pass goes on to its next delivery.
NextReplay(a) ==
  /\ pass' = [pass EXCEPT ![a] = "replaying"]
  /\ current' = [current EXCEPT ![a] = Nothing]
  /\ UNCHANGED batch

\* Mutant: nothing is written when no review was enqueued.
SettleEnqueued(a) ==
  LET claim  == current[a].claim
      status == StatusAfter(current[a].outcome, claim.attempts) IN
  /\ pass[a] = "settling"
  /\ IF status = "ignored" THEN UNCHANGED rows ELSE Writes(claim.delivery, status)
  /\ NextReplay(a)
  /\ UNCHANGED <<request, chosen, replays, crashes>>

\* updateWebhookInboxFromResult; with failClosed its failure is caught below.
SettleReplay(a) ==
  LET claim  == current[a].claim
      status == StatusAfter(current[a].outcome, claim.attempts) IN
  /\ pass[a] = "settling"
  /\ \/ Writes(claim.delivery, status) /\ NextReplay(a)
     \/ /\ WriteLost(claim.delivery, status)
        /\ IF FailClosed
           THEN /\ pass' = [pass EXCEPT ![a] = "catching"]
                /\ current' = [current EXCEPT ![a].outcome = "throws"]
                /\ UNCHANGED batch
           ELSE NextReplay(a)
  /\ UNCHANGED <<request, chosen, replays, crashes>>

\* The catch block; with failClosed its failure ends the pass and leaves the
\* rest of the batch to a later one.
CatchReplay(a) ==
  LET claim  == current[a].claim
      status == StatusAfter(current[a].outcome, claim.attempts) IN
  /\ pass[a] = "catching"
  /\ \/ Writes(claim.delivery, status) /\ NextReplay(a)
     \/ /\ WriteLost(claim.delivery, status)
        /\ IF FailClosed
           THEN /\ pass' = [pass EXCEPT ![a] = "idle"]
                /\ batch' = [batch EXCEPT ![a] = {}]
                /\ current' = [current EXCEPT ![a] = Nothing]
           ELSE NextReplay(a)
  /\ UNCHANGED <<request, chosen, replays, crashes>>

EndPass(a) ==
  /\ pass[a] = "replaying" /\ batch[a] = {}
  /\ pass' = [pass EXCEPT ![a] = "idle"]
  /\ UNCHANGED <<rows, request, batch, chosen, current, replays, crashes>>

-----------------------------------------------------------------------------
(* Crashes, restarts and time.                                             *)

\* The process dies and is started again; its requests are lost.
AppCrash(a) ==
  LET dead(r) == HostOf[r] = a /\ request[r].at \in {"processing", "settling"} IN
  /\ crashes < MaxCrashes
  /\ crashes' = crashes + 1
  /\ request' = [r \in Request |->
                   IF dead(r) THEN [at |-> "done", status |-> "none"] ELSE request[r]]
  /\ pass' = [pass EXCEPT ![a] = "idle"]
  /\ batch' = [batch EXCEPT ![a] = {}]
  /\ chosen' = [chosen EXCEPT ![a] = {}]
  /\ current' = [current EXCEPT ![a] = Nothing]
  /\ UNCHANGED <<rows, replays>>

\* Is somebody processing delivery d, or about to replay it?
Replaying(a, d) ==
  \/ \E claim \in batch[a] : claim.delivery = d
  \/ pass[a] \in Busy /\ current[a].claim.delivery = d

Working(d) ==
  \/ \E r \in Request : DeliveryOf[r] = d /\ request[r].at \in {"processing", "settling"}
  \/ \E a \in App : Replaying(a, d)

\* now() passes next_attempt_at.
ComesDue(d) ==
  /\ rows[d].status \in Retryable /\ ~rows[d].due
  /\ Working(d) => SlowProcessing
  /\ rows' = [rows EXCEPT ![d].due = TRUE]
  /\ UNCHANGED <<request, passVars, replays, crashes>>

-----------------------------------------------------------------------------

RequestStep(r) == Process(r) \/ Settle(r)

PassStep(a) ==
  \/ StartPass(a) \/ ClaimDue(a) \/ ClaimDueFails(a)
  \/ Replay(a) \/ ReplayEnds(a) \/ SettleReplay(a) \/ CatchReplay(a) \/ EndPass(a)

Next ==
  \/ \E r \in Request : Receive(r) \/ RequestStep(r)
  \/ \E a \in App : PassStep(a) \/ AppCrash(a)
  \/ \E d \in Delivery : ComesDue(d)

Spec == Init /\ [][Next]_vars

(***************************************************************************)
(* A process goes on with its passes while it lives, its timer fires again *)
(* and again, and time passes.  Between two claim statements, which are a  *)
(* poll interval apart, the event loop serves the requests (so SF), and a  *)
(* claim statement that is tried again and again succeeds in the end.      *)
(* Requests and crashes are not promised.                                  *)
(***************************************************************************)
Fairness ==
  /\ \A r \in Request : SF_vars(RequestStep(r))
  /\ \A a \in App : WF_vars(PassStep(a)) /\ SF_vars(ClaimDue(a))
  /\ \A d \in Delivery : WF_vars(ComesDue(d))

FairSpec == Spec /\ Fairness

-----------------------------------------------------------------------------
(* Properties.                                                             *)

(***************************************************************************)
(* However often a delivery is redelivered, retried, or left behind by a   *)
(* crash, it is replayed at most maxAttempts times, and once more for      *)
(* every further process whose claimDue selected it at the same time.      *)
(* (buildClaimDue, buildReceivedUpsert: a redelivery keeps attempt_count)  *)
(***************************************************************************)
ReplaysAreBounded ==
  \A d \in Delivery : replays[d] <= MaxAttempts + Cardinality(App) - 1

(***************************************************************************)
(* A row says "processing" only while some processor holds the delivery:   *)
(* every way a replay can end, and every write of a request that works on  *)
(* the same delivery, settles the row or hands it back.                    *)
(* (processWebhookInboxOnce, updateWebhookInboxFromResult)                 *)
(***************************************************************************)
ProcessingHasOwner ==
  ~InboxFaults /\ MaxCrashes = 0 =>
    \A d \in Delivery :
      rows[d].status = "processing" => \E a \in App : Replaying(a, d)

OneProcessor   == Cardinality(App) = 1
NoRedelivery   == \A r, s \in Request : DeliveryOf[r] = DeliveryOf[s] => r = s

(***************************************************************************)
(* A settled row stays as it is: with one processor, no redelivery and a   *)
(* retry delay that outlasts processing, neither the request nor a pass    *)
(* that still holds the delivery is left to overwrite it.                  *)
(* (buildStatusUpdate has no guard on the status it overwrites)            *)
(***************************************************************************)
SettledStaysSettled ==
  [][OneProcessor /\ NoRedelivery /\ ~SlowProcessing /\ ~FailClosed =>
       \A d \in Delivery : rows[d].status \in Settled => rows'[d] = rows[d]]_vars

(***************************************************************************)
(* A recorded delivery with attempts left is taken up until it is settled  *)
(* or its attempts are used up, whichever processes crash while they work  *)
(* on it and whichever inbox statements fail. (README.md:55)               *)
(***************************************************************************)
DeliveriesAreTakenUp ==
  \A d \in Delivery :
    rows[d].status \in Retryable /\ rows[d].attempts < MaxAttempts
      ~> rows[d].status \in Settled \/ rows[d].attempts >= MaxAttempts

(***************************************************************************)
(* Every recorded delivery ends up processed, ignored or failed.           *)
(* (docs/configuration.md:76-79)                                           *)
(***************************************************************************)
DeliveriesSettle ==
  \A d \in Delivery : rows[d].status \in Retryable ~> rows[d].status \in Settled
=============================================================================
