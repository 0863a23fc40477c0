--------------------------- MODULE ReviewPipeline ---------------------------
(***************************************************************************)
(* From a GitHub delivery to the reviews it asks for: the webhook inbox,   *)
(* the run-claim table, the worker dispatch and the worker's claim guard   *)
(* put together (handleGitHubWebhook, processNormalizedGitHubWebhook,      *)
(* processWebhookInboxOnce, runJobWithClaimStatus).  An actor is a webhook *)
(* request or the inbox processor of a server process; both process a      *)
(* delivery in the same way, and a replay may overlap the request or the   *)
(* replay before it.  Only here is it visible what the inbox's retries are *)
(* worth to the run-claim table.                                           *)
(*                                                                         *)
(* A claim is one step (RunControl has those that overlap), a processor    *)
(* takes one delivery at a time (WebhookInbox has batches), statements do  *)
(* not fail, and reviews run in GitHub Actions.                            *)
(***************************************************************************)
EXTENDS InboxLedger, RunClaimLedger, Sequences, SequencesExt

CONSTANTS
  Request,         \* webhook requests that GitHub sends
  DeliveryOf,      \* the delivery of each request
  Processor,       \* the inbox processors, one to a server process
  Job,             \* (delivery, review kind, lane)
  JobsOf,          \* the jobs createReviewJobs makes of a delivery
  KeyOf,           \* runKey of a job made from the webhook payload
  ReplayKeyOf,     \* runKey of a job made from the event kept in the inbox
  DispatchAttempts,\* githubFetchRetries + 1
  Faulty,          \* the jobs whose dispatch may be refused, or its answer lost
  TokenFaults,     \* may the dispatch token be refused?
  HydrationFaults, \* may hydration fail?
  SlowProcessing,  \* may processing outlast the delay until the next attempt?
  MaxCrashes,      \* how many crashes of the process are considered
  Expiring,        \* the run keys whose claims may expire
  Ageing           \* the run keys whose claims may leave their windows

ASSUME PipelineAssumption ==
  /\ DeliveryOf \in [Request -> Delivery]
  /\ Processor \intersect Request = {}
  /\ JobsOf \in [Delivery -> Seq(Job)]
  /\ KeyOf \in [Job -> RunKey]
  /\ ReplayKeyOf \in [Job -> RunKey]
  /\ DispatchAttempts \in Nat \ {0}
  /\ Faulty \subseteq Job
  /\ TokenFaults \in BOOLEAN
  /\ HydrationFaults \in BOOLEAN
  /\ SlowProcessing \in BOOLEAN
  /\ MaxCrashes \in Nat
  /\ Expiring \subseteq RunKey
  /\ Ageing \subseteq RunKey

VARIABLES
  rows,      \* the webhook-inbox table
  claims,    \* the run-claim table
  at,        \* where each actor is
  work,      \* the delivery an actor works on, with its attempt count
  todo,      \* the jobs left in the actor's claim loop
  granted,   \* dispatchableJobs
  held,      \* was a job denied by a concurrency limit?
  accepted,  \* the granted jobs whose dispatch was accepted
  outcome,   \* what processing ended with
  queued,    \* workflow runs that wait at GitHub, by job and run key
  working,   \* the run keys of the workflow runs at work
  started,   \* history: workflow runs that were started for each job
  crashes    \* crashes so far

actorVars == <<at, work, todo, granted, held, accepted, outcome>>
workerVars == <<queued, working, started>>
vars == <<rows, claims, at, work, todo, granted, held, accepted, outcome,
          queued, working, started, crashes>>

Actor == Request \union Processor
NoWork == [delivery |-> "none", attempts |-> 0]

Init ==
  /\ rows = [d \in Delivery |-> NoDelivery]
  /\ claims = [k \in RunKey |-> NoRow]
  /\ at = [t \in Actor |-> "idle"]
  /\ work = [t \in Actor |-> NoWork]
  /\ todo = [t \in Actor |-> <<>>]
  /\ granted = [t \in Actor |-> <<>>]
  /\ held = [t \in Actor |-> FALSE]
  /\ accepted = [t \in Actor |-> {}]
  /\ outcome = [t \in Actor |-> "none"]
  /\ queued = [run \in Job \X RunKey |-> 0]
  /\ working = {}
  /\ started = [j \in Job |-> 0]
  /\ crashes = 0

Goes(t, stage) == at' = [at EXCEPT ![t] = stage]

\* The run key the actor gives a job.
Key(t, j) == IF t \in Processor THEN ReplayKeyOf[j] ELSE KeyOf[j]

TakesOn(t, d, attempts) ==
  /\ Goes(t, "hydrating")
  /\ work' = [work EXCEPT ![t] = [delivery |-> d, attempts |-> attempts]]
  /\ UNCHANGED <<todo, granted, held, accepted, outcome>>

-----------------------------------------------------------------------------
(* Where work comes from.                                                  *)

Receive(r) ==
  /\ at[r] = "idle"
  /\ rows' = ReceivedUpsert(rows, DeliveryOf[r])
  /\ TakesOn(r, DeliveryOf[r], 0)
  /\ UNCHANGED <<claims, workerVars, crashes>>

TakeUp(p) ==
  /\ at[p] = "idle"
  /\ \E d \in DueRows(rows) :
       /\ rows' = ClaimRows(rows, {d})
       /\ TakesOn(p, d, rows[d].attempts + 1)
  /\ UNCHANGED <<claims, workerVars, crashes>>

-----------------------------------------------------------------------------
(* processNormalizedGitHubWebhook.                                         *)

Hydrate(t) ==
  /\ at[t] = "hydrating"
  /\ todo' = [todo EXCEPT ![t] = JobsOf[work[t].delivery]]
  /\ Goes(t, "claiming")
  /\ UNCHANGED <<rows, claims, work, granted, held, accepted, outcome, workerVars, crashes>>

\* The pull request cannot be loaded: retryable.
HydrationFails(t) ==
  /\ HydrationFaults
  /\ at[t] = "hydrating"
  /\ outcome' = [outcome EXCEPT ![t] = "retry"]
  /\ Goes(t, "settling")
  /\ UNCHANGED <<rows, claims, work, todo, granted, held, accepted, workerVars, crashes>>

Claim(t) ==
  LET job  == Head(todo[t])
      key  == Key(t, job)
      code == ClaimResult(claims, claims, key) IN
  /\ at[t] = "claiming" /\ todo[t] # <<>>
  /\ claims' = AfterClaim(claims, claims, key)
  /\ granted' = IF Allowed(code) THEN [granted EXCEPT ![t] = Append(@, job)] ELSE granted
  /\ held' = [held EXCEPT ![t] = @ \/ (code = "concurrency_limit_exceeded" /\ ~Allowed(code))]
  /\ todo' = [todo EXCEPT ![t] = Tail(@)]
  /\ UNCHANGED <<rows, at, work, accepted, outcome, workerVars, crashes>>

\* Mutant: a delivery with a denied job counts as done once one is dispatched.
ResultEnqueuedFirst(t) ==
  CASE accepted[t] # {} -> "enqueued"
    [] accepted[t] = {} /\ held[t] -> "retry"
    [] OTHER -> "nothing"

\* Mutant: a delivery whose jobs are all denied by a cap is put aside.
ResultNeverRetries(t) ==
  CASE accepted[t] # {} -> IF held[t] THEN "retry" ELSE "enqueued"
    [] OTHER -> "nothing"

\* shouldRetryWebhookResult comes before "enqueued".
Result(t) ==
  CASE held[t] -> "retry"
    [] ~held[t] /\ accepted[t] # {} -> "enqueued"
    [] OTHER -> "nothing"

EndClaims(t) ==
  /\ at[t] = "claiming" /\ todo[t] = <<>>
  /\ IF granted[t] = <<>>
     THEN Goes(t, "settling") /\ outcome' = [outcome EXCEPT ![t] = Result(t)]
     ELSE Goes(t, "dispatching") /\ UNCHANGED outcome
  /\ UNCHANGED <<rows, claims, work, todo, granted, held, accepted, workerVars, crashes>>

(***************************************************************************)
(* githubApiFetchWithRetry for each granted job.  A POST that times out or *)
(* is answered 5xx is sent again, though GitHub may have started a run; so *)
(* a job may end up with any number of runs up to the number of attempts,  *)
(* and a job whose dispatch is reported as failed may have runs as well.   *)
(* POSTs only add to the runs that wait, so the whole loop is one step.    *)
(***************************************************************************)
Dispatch(t) ==
  /\ at[t] = "dispatching"
  /\ \E runs \in [Range(granted[t]) -> 0..DispatchAttempts] :
     \E jobs \in SUBSET {j \in Range(granted[t]) : runs[j] > 0} :
       /\ \A j \in Range(granted[t]) \ Faulty : j \in jobs /\ runs[j] = 1
       /\ accepted' = [accepted EXCEPT ![t] = jobs]
       /\ queued' = [run \in Job \X RunKey |->
                       IF run[1] \in Range(granted[t]) /\ run[2] = Key(t, run[1])
                       THEN queued[run] + runs[run[1]] ELSE queued[run]]
       /\ started' = [j \in Job |->
                        IF j \in Range(granted[t]) THEN started[j] + runs[j] ELSE started[j]]
  /\ Goes(t, "recording")
  /\ UNCHANGED <<rows, claims, work, todo, granted, held, outcome, working, crashes>>

\* The dispatch token cannot be had: the dispatch throws.
DispatchThrows(t) ==
  /\ TokenFaults
  /\ at[t] = "dispatching"
  /\ outcome' = [outcome EXCEPT ![t] = "throws"]
  /\ Goes(t, "recording")
  /\ UNCHANGED <<rows, claims, work, todo, granted, held, accepted, workerVars, crashes>>

\* The claim status of a granted job after its dispatch.
DispatchStatus(t, j) ==
  CASE outcome[t] = "throws" -> "dispatch_error"
    [] outcome[t] # "throws" /\ j \in accepted[t] -> "dispatching"
    [] OTHER -> "dispatch_failed"

\* recordRunClaimDispatchStatuses, or recordRunClaimDispatchExceptionStatuses.
Record(t) ==
  /\ at[t] = "recording"
  /\ claims' = [k \in RunKey |->
                  IF HasRow(claims[k]) /\ \E j \in Range(granted[t]) : Key(t, j) = k
                  THEN [claims[k] EXCEPT !.status =
                          DispatchStatus(t, CHOOSE j \in Range(granted[t]) : Key(t, j) = k)]
                  ELSE claims[k]]
  /\ outcome' = [outcome EXCEPT ![t] = IF @ = "throws" THEN @ ELSE Result(t)]
  /\ Goes(t, "settling")
  /\ UNCHANGED <<rows, work, todo, granted, held, accepted, workerVars, crashes>>

\* The actor's locals go; a request is over, the processor waits for its timer.
Forget(t, stage) ==
  /\ Goes(t, stage)
  /\ work' = [work EXCEPT ![t] = NoWork]
  /\ todo' = [todo EXCEPT ![t] = <<>>]
  /\ granted' = [granted EXCEPT ![t] = <<>>]
  /\ held' = [held EXCEPT ![t] = FALSE]
  /\ accepted' = [accepted EXCEPT ![t] = {}]
  /\ outcome' = [outcome EXCEPT ![t] = "none"]

Settle(t) ==
  /\ at[t] = "settling"
  /\ rows' = InboxWrite(rows, work[t].delivery, StatusAfter(outcome[t], work[t].attempts))
  /\ Forget(t, IF t \in Processor THEN "idle" ELSE "done")
  /\ UNCHANGED <<claims, workerVars, crashes>>

-----------------------------------------------------------------------------
(* The rest of the world.                                                  *)

\* A run that is queued takes the place of one that waits in the concurrency
\* group of its run key.
RunIsReplaced(j, k) ==
  /\ queued[<<j, k>>] > 0
  /\ \E i \in Job : queued[<<i, k>>] > (IF i = j THEN 1 ELSE 0)
  /\ queued' = [queued EXCEPT ![<<j, k>>] = @ - 1]
  /\ UNCHANGED <<rows, claims, actorVars, working, started, crashes>>

\* One run of a concurrency group at a time; a duplicate of a completed review
\* leaves at once.
WorkerBegins(j, k) ==
  /\ queued[<<j, k>>] > 0 /\ k \notin working
  /\ queued' = [queued EXCEPT ![<<j, k>>] = @ - 1]
  /\ claims' = WorkBegin(claims, k)
  /\ working' = IF WorkDuplicate(claims, k) THEN working ELSE working \union {k}
  /\ UNCHANGED <<rows, actorVars, started, crashes>>

WorkerEnds(k) ==
  /\ k \in working
  /\ working' = working \ {k}
  /\ \E status \in {"completed", "failed"} : claims' = StatusWrite(claims, k, status)
  /\ UNCHANGED <<rows, actorVars, queued, started, crashes>>

\* A server process dies and is started again: the actors that it hosts.
Crash ==
  LET Busy == {t \in Actor : at[t] \notin {"idle", "done"}} IN
  /\ crashes < MaxCrashes
  /\ crashes' = crashes + 1
  /\ \E dead \in SUBSET Busy \ {{}} :
       /\ at' = [t \in Actor |-> IF t \notin dead THEN at[t]
                                 ELSE IF t \in Processor THEN "idle" ELSE "done"]
       /\ work' = [t \in Actor |-> IF t \in dead THEN NoWork ELSE work[t]]
       /\ todo' = [t \in Actor |-> IF t \in dead THEN <<>> ELSE todo[t]]
       /\ granted' = [t \in Actor |-> IF t \in dead THEN <<>> ELSE granted[t]]
       /\ held' = [t \in Actor |-> t \notin dead /\ held[t]]
       /\ accepted' = [t \in Actor |-> IF t \in dead THEN {} ELSE accepted[t]]
       /\ outcome' = [t \in Actor |-> IF t \in dead THEN "none" ELSE outcome[t]]
  /\ UNCHANGED <<rows, claims, workerVars>>

Working(d) == \E t \in Actor : work[t].delivery = d

\* now() passes next_attempt_at.
ComesDue(d) ==
  /\ rows[d].status \in Retryable /\ ~rows[d].due
  /\ Working(d) => SlowProcessing
  /\ rows' = [rows EXCEPT ![d].due = TRUE]
  /\ UNCHANGED <<claims, actorVars, workerVars, crashes>>

ClaimAges(k) ==
  /\ \/ k \in Expiring /\ claims[k].expires = "ahead" /\ claims' = Expire(claims, k)
     \/ k \in Ageing /\ claims[k].fresh /\ claims' = LeaveWindow(claims, k)
  /\ UNCHANGED <<rows, actorVars, workerVars, crashes>>

-----------------------------------------------------------------------------

ActorStep(t) ==
  \/ Hydrate(t) \/ HydrationFails(t) \/ Claim(t) \/ EndClaims(t)
  \/ Dispatch(t) \/ DispatchThrows(t) \/ Record(t) \/ Settle(t)

\* What happens to a run key at GitHub, and to its claim as time passes.
Elsewhere(k) ==
  \/ \E j \in Job : RunIsReplaced(j, k) \/ WorkerBegins(j, k)
  \/ WorkerEnds(k) \/ ClaimAges(k)

Next ==
  \/ \E r \in Request : Receive(r)
  \/ \E p \in Processor : TakeUp(p)
  \/ \E t \in Actor : ActorStep(t)
  \/ \E k \in RunKey : Elsewhere(k)
  \/ \E d \in Delivery : ComesDue(d)
  \/ Crash

Spec == Init /\ [][Next]_vars

\* Actors go on while the process lives, workers end, and time passes.
Fairness ==
  /\ \A t \in Actor : WF_vars(ActorStep(t))
  /\ \A p \in Processor : WF_vars(TakeUp(p))
  /\ \A k \in RunKey : WF_vars(WorkerEnds(k)) /\ WF_vars(\E j \in Job : WorkerBegins(j, k))
  /\ \A d \in Delivery : WF_vars(ComesDue(d))

FairSpec == Spec /\ Fairness

-----------------------------------------------------------------------------
(* Properties.                                                             *)

\* Jobs are denied what the run-claim table denies them, and a replay gives a
\* job the key that the webhook request gave it.
Enforced == RunMode = "enforce" /\ ReplayKeyOf = KeyOf

(***************************************************************************)
(* Inside the dedupe window of its claim a job is dispatched by one actor, *)
(* once: all the workflow runs that were started for it are those that the *)
(* repeated POSTs of one dispatch can start, however many redeliveries,    *)
(* overlapping replays, failing or lost dispatches and crashes its         *)
(* delivery goes through. (docs/run-control.md:53, 158-161;                *)
(* stableReviewJobRunKey, githubApiFetchWithRetry)                         *)
(***************************************************************************)
RunsOfOneDispatch ==
  Enforced /\ DedupeEnabled =>
    \A j \in Job : claims[KeyOf[j]].fresh => started[j] <= DispatchAttempts

\* The dispatch of the job failed, or threw, and the claim says so.
DispatchGivenUp(j) == claims[KeyOf[j]].status \in {"dispatch_failed", "dispatch_error"}

(***************************************************************************)
(* The inbox drains what a concurrency limit held back: while no process   *)
(* dies, a delivery that is to be retried has every one of its jobs        *)
(* dispatched in the end (or its dispatch given up), or has used up its    *)
(* attempts. (docs/worker-capacity.md:166-168)                             *)
(***************************************************************************)
BackpressureDrains ==
  \A d \in Delivery :
    rows[d].status = "retry_pending"
      ~> \/ rows[d].attempts = MaxAttempts
         \/ crashes > 0
         \/ \A j \in Range(JobsOf[d]) : started[j] > 0 \/ DispatchGivenUp(j)

Ignored(d) == rows[d].status = "ignored" /\ ~Working(d)

\* A job with the run key was dispatched, or somebody is about to dispatch one
\* or to record that its dispatch failed.
Dispatched(k) == \E j \in Job : KeyOf[j] = k /\ started[j] > 0
Underway(k) ==
  \E t \in Actor : /\ at[t] \in {"claiming", "dispatching", "recording"}
                   /\ \E j \in Range(granted[t]) : KeyOf[j] = k

(***************************************************************************)
(* A delivery is put aside as "ignored" only when the review of each of    *)
(* its jobs has been dispatched or given up, or another delivery is on its *)
(* way to dispatch it: whoever claimed a job before dispatched it, or left *)
(* the delivery to be retried. (shouldRetryWebhookResult)                  *)
(***************************************************************************)
IgnoredIsDispatched ==
  Enforced => \A d \in Delivery : Ignored(d) /\ crashes = 0 =>
    \A j \in Range(JobsOf[d]) :
      Dispatched(KeyOf[j]) \/ Underway(KeyOf[j]) \/ DispatchGivenUp(j)

(***************************************************************************)
(* docs/aws-usage-ledger.md:67-69 says that the inbox stores a delivery so *)
(* that transient GitHub API failures can be retried.  Nothing but the     *)
(* dispatch token fails in the run that checks this: a delivery is not put *)
(* aside unless all its jobs have been dispatched.                         *)
(***************************************************************************)
FailuresAreRetried ==
  \A d \in Delivery : Ignored(d) => \A j \in Range(JobsOf[d]) : started[j] > 0
=============================================================================
