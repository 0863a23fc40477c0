----------------------------- MODULE RunControl -----------------------------
(***************************************************************************)
(* From a budget-admitted job to its review: the claim loop, the worker    *)
(* dispatch and the status writes of processNormalizedGitHubWebhook        *)
(* (app-server.cjs), the worker adapters (worker-adapter.cjs) and the      *)
(* claim-guarded job runner (bin/run-review-job.cjs), over the run-claim   *)
(* table of RunClaimLedger.                                                *)
(*                                                                         *)
(* A handler is one webhook request, or one inbox replay, on one app       *)
(* instance.  A claim is one SQL statement whose snapshot is taken before  *)
(* its advisory lock is granted, so it is two steps here: SubmitClaim and  *)
(* CommitClaim.  executeStatement runs a child process synchronously, so   *)
(* nothing else runs on that instance in between.                          *)
(***************************************************************************)
EXTENDS RunClaimLedger, Sequences, SequencesExt

CONSTANTS
  Handler,           \* webhook requests and inbox replays
  App,               \* server processes
  HostOf,            \* the process each handler runs in
  JobsOf,            \* the run keys of a handler's admitted jobs, in order
  Adapter,           \* REVIEWBOT_WORKER_ADAPTER
  DispatchAttempts,  \* githubFetchRetries + 1
  LedgerFaults,      \* may run-claim statements fail?
  Crashes            \* may app processes and workers die?

ASSUME RunControlAssumption ==
  /\ HostOf \in [Handler -> App]
  /\ JobsOf \in [Handler -> Seq(RunKey)]
  /\ Adapter \in {"github_actions", "local", "noop"}
  /\ DispatchAttempts \in Nat \ {0}
  /\ LedgerFaults \in BOOLEAN
  /\ Crashes \in BOOLEAN

VARIABLES
  claims,       \* the run-claim table
  pc,           \* where each handler is
  snap,         \* the snapshot of the claim statement a handler has in flight
  todo,         \* the jobs left in the handler's current loop
  granted,      \* dispatchableJobs
  verdict,      \* the claim status each dispatched job is to be given
  tries,        \* dispatch attempts made for the head of todo
  pending,      \* is a workflow run queued in the key's concurrency group?
  worker,       \* the worker running in the key's concurrency group
  grants,       \* history: how often the ledger granted each key
  completions   \* history: how often a review of each key succeeded

ledgerVars  == <<claims, grants>>
handlerVars == <<pc, snap, todo, granted, verdict, tries>>
workerVars  == <<pending, worker, completions>>
vars == <<claims, pc, snap, todo, granted, verdict, tries, pending, worker, grants, completions>>

Table    == [RunKey -> Row]
Stage    == {"idle", "claiming", "inClaim", "dispatching", "inLocalRun", "recording", "done", "crashed"}
Blocking == {"inClaim", "inLocalRun"}
NoTable  == [k \in RunKey |-> NoRow]
NoVerdict == [k \in RunKey |-> "none"]
WorkerState == {"none", "starting", "marking", "executing"}

TypeOK ==
  /\ claims \in Table
  /\ pc \in [Handler -> Stage]
  /\ snap \in [Handler -> Table]
  /\ todo \in [Handler -> Seq(RunKey)]
  /\ granted \in [Handler -> Seq(RunKey)]
  /\ verdict \in [Handler -> [RunKey -> ClaimStatus \union {"none"}]]
  /\ tries \in [Handler -> Nat]
  /\ pending \in [RunKey -> BOOLEAN]
  /\ worker \in [RunKey -> WorkerState]
  /\ grants \in [RunKey -> Nat]
  /\ completions \in [RunKey -> Nat]

Init ==
  /\ claims = NoTable
  /\ pc = [h \in Handler |-> "idle"]
  /\ snap = [h \in Handler |-> NoTable]
  /\ todo = [h \in Handler |-> <<>>]
  /\ granted = [h \in Handler |-> <<>>]
  /\ verdict = [h \in Handler |-> NoVerdict]
  /\ tries = [h \in Handler |-> 0]
  /\ pending = [k \in RunKey |-> FALSE]
  /\ worker = [k \in RunKey |-> "none"]
  /\ grants = [k \in RunKey |-> 0]
  /\ completions = [k \in RunKey |-> 0]

-----------------------------------------------------------------------------
(* The handler, while its process is not blocked in a synchronous child.   *)

HostFree(h) ==
  \A g \in Handler \ {h} : HostOf[g] = HostOf[h] => pc[g] \notin Blocking

At(h, stage) == pc[h] = stage /\ HostFree(h)

Job(h) == Head(todo[h])

\* Budget admission has let the delivery's jobs through.
Arrive(h) ==
  /\ At(h, "idle")
  /\ pc' = [pc EXCEPT ![h] = "claiming"]
  /\ todo' = [todo EXCEPT ![h] = JobsOf[h]]
  /\ UNCHANGED <<ledgerVars, workerVars, snap, granted, verdict, tries>>

\* claimReviewJobWithLedger starts its statement.
SubmitClaim(h) ==
  /\ At(h, "claiming") /\ todo[h] # <<>>
  /\ pc' = [pc EXCEPT ![h] = "inClaim"]
  /\ snap' = [snap EXCEPT ![h] = claims]
  /\ UNCHANGED <<ledgerVars, workerVars, todo, granted, verdict, tries>>

\* The claim loop takes the decision on its job and goes on to the next one.
Decide(h, code) ==
  /\ granted' = IF Allowed(code) THEN [granted EXCEPT ![h] = Append(@, Job(h))] ELSE granted
  /\ todo' = [todo EXCEPT ![h] = Tail(@)]
  /\ pc' = [pc EXCEPT ![h] = "claiming"]
  /\ snap' = [snap EXCEPT ![h] = NoTable]

\* The statement takes effect: it holds the advisory lock and commits.
ApplyClaim(h) ==
  /\ claims' = AfterClaim(snap[h], claims, Job(h))
  /\ grants' = IF Inserts(snap[h], claims, Job(h))
               THEN [grants EXCEPT ![Job(h)] = @ + 1] ELSE grants

CommitClaim(h) ==
  /\ pc[h] = "inClaim"
  /\ ApplyClaim(h)
  /\ Decide(h, ClaimResult(snap[h], claims, Job(h)))
  /\ UNCHANGED <<workerVars, verdict, tries>>

\* The statement fails, or it commits and its answer is lost.
FailClaim(h) ==
  /\ LedgerFaults
  /\ pc[h] = "inClaim"
  /\ ApplyClaim(h) \/ UNCHANGED ledgerVars
  /\ Decide(h, "unavailable")
  /\ UNCHANGED <<workerVars, verdict, tries>>

\* The response is sent: the handler's locals are gone.
Leave(h, stage) ==
  /\ pc' = [pc EXCEPT ![h] = stage]
  /\ todo' = [todo EXCEPT ![h] = <<>>]
  /\ granted' = [granted EXCEPT ![h] = <<>>]
  /\ verdict' = [verdict EXCEPT ![h] = NoVerdict]

NothingToDispatch(h) ==
  /\ At(h, "claiming") /\ todo[h] = <<>> /\ granted[h] = <<>>
  /\ Leave(h, "done")
  /\ UNCHANGED <<ledgerVars, workerVars, snap, tries>>

StartDispatch(h) ==
  /\ At(h, "claiming") /\ todo[h] = <<>> /\ granted[h] # <<>>
  /\ pc' = [pc EXCEPT ![h] = "dispatching"]
  /\ todo' = [todo EXCEPT ![h] = granted[h]]
  /\ UNCHANGED <<ledgerVars, workerVars, snap, granted, verdict, tries>>

-----------------------------------------------------------------------------
(* enqueueReviewJobsWithAdapter.                                           *)

\* The adapter returns a result for the job at the head of the loop.
Returns(h, status) ==
  /\ verdict' = [verdict EXCEPT ![h][Job(h)] = status]
  /\ todo' = [todo EXCEPT ![h] = Tail(@)]
  /\ tries' = [tries EXCEPT ![h] = 0]

\* A run enters the key's concurrency group, where it replaces a queued one.
Enqueue(k) == pending' = [pending EXCEPT ![k] = TRUE]

DispatchAccepted(h) ==
  /\ Adapter = "github_actions" /\ At(h, "dispatching") /\ todo[h] # <<>>
  /\ Enqueue(Job(h))
  /\ Returns(h, "dispatching")
  /\ UNCHANGED <<ledgerVars, pc, snap, granted, worker, completions>>

\* Mutant: the adapter's own status is recorded, not a claim status.
DispatchRejectedRaw(h) ==
  /\ Adapter \in {"github_actions", "noop"} /\ At(h, "dispatching") /\ todo[h] # <<>>
  /\ Returns(h, "skipped")
  /\ UNCHANGED <<ledgerVars, workerVars, pc, snap, granted>>

\* GitHub refuses the dispatch, or there is no adapter to give it to.
DispatchRejected(h) ==
  /\ Adapter \in {"github_actions", "noop"} /\ At(h, "dispatching") /\ todo[h] # <<>>
  /\ Returns(h, "dispatch_failed")
  /\ UNCHANGED <<ledgerVars, workerVars, pc, snap, granted>>

\* githubApiFetchWithRetry: a timeout or a 5xx, after which GitHub may or may
\* not have queued the run; the dispatch is sent again while attempts are left.
DispatchLost(h) ==
  /\ Adapter = "github_actions" /\ At(h, "dispatching") /\ todo[h] # <<>>
  /\ Enqueue(Job(h)) \/ UNCHANGED pending
  /\ IF tries[h] + 1 < DispatchAttempts
     THEN /\ tries' = [tries EXCEPT ![h] = @ + 1]
          /\ UNCHANGED <<verdict, todo>>
     ELSE Returns(h, "dispatch_failed")
  /\ UNCHANGED <<ledgerVars, pc, snap, granted, worker, completions>>

\* getInstallationToken throws before the first dispatch (bin/server.cjs).
DispatchThrows(h) ==
  /\ Adapter = "github_actions" /\ At(h, "dispatching")
  /\ todo[h] = granted[h] /\ tries[h] = 0
  /\ verdict' = [verdict EXCEPT ![h] =
                   [k \in RunKey |-> IF k \in Range(granted[h]) THEN "dispatch_error" ELSE "none"]]
  /\ pc' = [pc EXCEPT ![h] = "recording"]
  /\ UNCHANGED <<ledgerVars, workerVars, snap, todo, granted, tries>>

\* runReviewJobLocally: spawnSync holds the process until the review ends.
LocalStart(h) ==
  /\ Adapter = "local" /\ At(h, "dispatching") /\ todo[h] # <<>>
  /\ pc' = [pc EXCEPT ![h] = "inLocalRun"]
  /\ UNCHANGED <<ledgerVars, workerVars, snap, todo, granted, verdict, tries>>

LocalEnd(h) ==
  /\ pc[h] = "inLocalRun"
  /\ \/ /\ Returns(h, "completed")
        /\ completions' = [completions EXCEPT ![Job(h)] = @ + 1]
     \/ /\ Returns(h, "failed")
        /\ UNCHANGED completions
  /\ pc' = [pc EXCEPT ![h] = "dispatching"]
  /\ UNCHANGED <<ledgerVars, snap, granted, pending, worker>>

StartRecording(h) ==
  /\ At(h, "dispatching") /\ todo[h] = <<>>
  /\ pc' = [pc EXCEPT ![h] = "recording"]
  /\ todo' = [todo EXCEPT ![h] = granted[h]]
  /\ UNCHANGED <<ledgerVars, workerVars, snap, granted, verdict, tries>>

-----------------------------------------------------------------------------
(* recordRunClaimDispatchStatuses, one update per job, after every job of  *)
(* the delivery has been dispatched.                                       *)

RecordStatus(h) ==
  /\ At(h, "recording") /\ todo[h] # <<>>
  /\ \/ claims' = StatusWrite(claims, Job(h), verdict[h][Job(h)])
     \/ LedgerFaults /\ claims' = claims
  /\ todo' = [todo EXCEPT ![h] = Tail(@)]
  /\ UNCHANGED <<workerVars, grants, pc, snap, granted, verdict, tries>>

EndRecording(h) ==
  /\ At(h, "recording") /\ todo[h] = <<>>
  /\ Leave(h, "done")
  /\ UNCHANGED <<ledgerVars, workerVars, snap, tries>>

\* The process dies: so do all its handlers.
AppCrash(a) ==
  LET dead(h) == HostOf[h] = a /\ pc[h] \notin {"idle", "done", "crashed"} IN
  /\ Crashes
  /\ \E h \in Handler : dead(h)
  /\ pc' = [h \in Handler |-> IF dead(h) THEN "crashed" ELSE pc[h]]
  /\ snap' = [h \in Handler |-> IF dead(h) THEN NoTable ELSE snap[h]]
  /\ todo' = [h \in Handler |-> IF dead(h) THEN <<>> ELSE todo[h]]
  /\ granted' = [h \in Handler |-> IF dead(h) THEN <<>> ELSE granted[h]]
  /\ verdict' = [h \in Handler |-> IF dead(h) THEN NoVerdict ELSE verdict[h]]
  /\ tries' = [h \in Handler |-> IF dead(h) THEN 0 ELSE tries[h]]
  /\ UNCHANGED <<ledgerVars, workerVars>>

-----------------------------------------------------------------------------
(* The worker workflow, one run at a time in the concurrency group of the  *)
(* run key, and runJobWithClaimStatus inside it.                           *)

WorkerStart(k) ==
  /\ pending[k] /\ worker[k] = "none"
  /\ pending' = [pending EXCEPT ![k] = FALSE]
  /\ worker' = [worker EXCEPT ![k] = "starting"]
  /\ UNCHANGED <<ledgerVars, handlerVars, completions>>

Work(k, stage) == worker' = [worker EXCEPT ![k] = stage]

\* beginRunClaimWork answers: a duplicate leaves, any other claim is executed.
WorkerBegin(k) ==
  /\ worker[k] = "starting"
  /\ claims' = WorkBegin(claims, k)
  /\ Work(k, IF WorkDuplicate(claims, k) THEN "none" ELSE "executing")
  /\ UNCHANGED <<grants, handlerVars, pending, completions>>

\* beginRunClaimWork fails, or commits and loses its answer.
WorkerBeginFails(k) ==
  /\ LedgerFaults
  /\ worker[k] = "starting"
  /\ claims' \in {claims, WorkBegin(claims, k)}
  /\ Work(k, "marking")
  /\ UNCHANGED <<grants, handlerVars, pending, completions>>

\* The plain "running" update that follows a failed begin; it may fail too.
WorkerMark(k) ==
  /\ worker[k] = "marking"
  /\ claims' \in {claims, StatusWrite(claims, k, "running")}
  /\ Work(k, "executing")
  /\ UNCHANGED <<grants, handlerVars, pending, completions>>

\* Mutant: the failing paths of the runner leave without an update.
WorkerEndSilently(k) ==
  /\ worker[k] = "executing"
  /\ \/ /\ claims' = StatusWrite(claims, k, "completed")
        /\ completions' = [completions EXCEPT ![k] = @ + 1]
     \/ UNCHANGED <<claims, completions>>
  /\ Work(k, "none")
  /\ UNCHANGED <<grants, handlerVars, pending>>

\* The review ends, and with it the run: "completed", or "failed" also when
\* runReviewJobLocally throws.  A failing update is only logged.
WorkerEnd(k) ==
  /\ worker[k] = "executing"
  /\ \E status \in {"completed", "failed"} :
       /\ \/ claims' = StatusWrite(claims, k, status)
          \/ LedgerFaults /\ claims' = claims
       /\ completions' = IF status = "completed"
                         THEN [completions EXCEPT ![k] = @ + 1] ELSE completions
  /\ Work(k, "none")
  /\ UNCHANGED <<grants, handlerVars, pending>>

\* The runner dies or hits the job timeout: no update is written.
WorkerCrash(k) ==
  /\ Crashes
  /\ worker[k] # "none"
  /\ Work(k, "none")
  /\ UNCHANGED <<ledgerVars, handlerVars, pending, completions>>

(***************************************************************************)
(* Time.  now() is fixed when a statement starts and both windows are far  *)
(* longer than a statement, so none of them ends under a statement.        *)
(***************************************************************************)
NoClaimInFlight == \A h \in Handler : pc[h] # "inClaim"

ClaimExpires(k) ==
  /\ NoClaimInFlight
  /\ claims[k].expires = "ahead"
  /\ claims' = Expire(claims, k)
  /\ UNCHANGED <<grants, handlerVars, workerVars>>

WindowEnds(k) ==
  /\ NoClaimInFlight
  /\ claims[k].fresh
  /\ claims' = LeaveWindow(claims, k)
  /\ UNCHANGED <<grants, handlerVars, workerVars>>

-----------------------------------------------------------------------------

HandlerStep(h) ==
  \/ Arrive(h) \/ SubmitClaim(h) \/ CommitClaim(h) \/ FailClaim(h)
  \/ NothingToDispatch(h) \/ StartDispatch(h)
  \/ DispatchAccepted(h) \/ DispatchRejected(h) \/ DispatchLost(h) \/ DispatchThrows(h)
  \/ LocalStart(h) \/ LocalEnd(h)
  \/ StartRecording(h) \/ RecordStatus(h) \/ EndRecording(h)

WorkerStep(k) ==
  \/ WorkerStart(k) \/ WorkerBegin(k) \/ WorkerBeginFails(k) \/ WorkerMark(k) \/ WorkerEnd(k)

Next ==
  \/ \E h \in Handler : HandlerStep(h)
  \/ \E k \in RunKey : WorkerStep(k) \/ WorkerCrash(k) \/ ClaimExpires(k) \/ WindowEnds(k)
  \/ \E a \in App : AppCrash(a)

Spec == Init /\ [][Next]_vars

(***************************************************************************)
(* A process runs its handlers and GitHub its queued runs for as long as   *)
(* they live, and time passes.  Requests, crashes and the end of a dedupe  *)
(* window are not promised.                                                *)
(***************************************************************************)
Fairness ==
  /\ \A h \in Handler : WF_vars(pc[h] # "idle" /\ HandlerStep(h))
  /\ \A k \in RunKey : WF_vars(WorkerStep(k)) /\ WF_vars(ClaimExpires(k))

FairSpec == Spec /\ Fairness

-----------------------------------------------------------------------------
(* Properties.                                                             *)

Granted(k) == grants'[k] > grants[k]

(***************************************************************************)
(* The ledger never gives one run key to two claimers inside one claim     *)
(* window, even when both claim statements took their snapshots before     *)
(* either committed: a key is granted only when it has no row, or the      *)
(* row's expiry and, with dedupe on, its dedupe window are both past.      *)
(* (docs/run-control.md:122-128, buildRunClaimQuery)                       *)
(***************************************************************************)
Available(k) ==
  \/ ~HasRow(claims[k])
  \/ claims[k].status = "expired"
  \/ ~Unexpired(claims[k]) /\ (DedupeEnabled => ~claims[k].fresh)

GrantIsExclusive == [][\A k \in RunKey : Granted(k) => Available(k)]_vars

(***************************************************************************)
(* No scope ever holds more active claims than its cap.                    *)
(* (docs/run-control.md:126-127, the active_counts and exceeded CTEs)      *)
(***************************************************************************)
SlotsWithinCap ==
  \A s \in Scope : Cardinality(ActiveIn(claims, s)) <= MaxConcurrent[s]

(***************************************************************************)
(* The run-claim table implements ClaimWindow: a key is held from a grant  *)
(* until its windows are past, and every grant is a Grant of a free key.   *)
(* (docs/run-control.md:122-128)                                           *)
(***************************************************************************)
Held == {k \in RunKey : ~Available(k)}

Windows == INSTANCE ClaimWindow WITH Key <- RunKey, held <- Held

ImplementsClaimWindow == Windows!Spec

\* Has a handler been granted k without having recorded its dispatch yet?
Dispatching(h, k) ==
  /\ pc[h] \in {"claiming", "inClaim", "dispatching", "inLocalRun", "recording"}
  /\ k \in Range(granted[h])

(***************************************************************************)
(* With enforce, no worker is ever started for a key the ledger has no     *)
(* row of: a claim that fails closes the door on dispatch instead of       *)
(* opening it. (docs/run-control.md:28-30, evaluateRunControl)             *)
(***************************************************************************)
NoRunWithoutClaim ==
  RunMode = "enforce" =>
    \A k \in RunKey : pending[k] \/ worker[k] # "none" => HasRow(claims[k])

(***************************************************************************)
(* A claim says "running" only while a worker is executing it: whichever   *)
(* way the runner ends, and whichever duplicate dispatches follow, it does *)
(* not leave a "running" row behind. (docs/run-control.md:151-154)         *)
(***************************************************************************)
RunningHasWorker ==
  ~LedgerFaults /\ ~Crashes =>
    \A k \in RunKey : claims[k].status = "running" => worker[k] = "executing"

(***************************************************************************)
(* Once a review is recorded as completed and the handlers that dispatched *)
(* it have written their statuses, no duplicate worker run moves the claim *)
(* away from "completed" again; only a new grant does.                     *)
(* (docs/run-control.md:156-165, buildRunClaimWorkBegin)                   *)
(***************************************************************************)
CompletedIsFinal ==
  [][\A k \in RunKey :
       /\ ~LedgerFaults
       /\ claims[k].status = "completed"
       /\ worker[k] # "executing"
       /\ \A h \in Handler : ~Dispatching(h, k)
       /\ ~Granted(k)
       => claims'[k].status = "completed"]_vars

(***************************************************************************)
(* A key's review is executed to success at most once per grant: duplicate *)
(* deliveries and claims of one job do not review twice.  (A workflow      *)
(* dispatch that is repeated after a lost answer can: README.)             *)
(* (docs/run-control.md:158-165)                                           *)
(***************************************************************************)
OneReviewPerGrant == \A k \in RunKey : completions[k] <= grants[k]

(***************************************************************************)
(* No crash of an app process or of a worker blocks a capped scope for     *)
(* ever: a slot that is taken is free again at some later time.            *)
(* (docs/run-control.md:131-133)                                           *)
(***************************************************************************)
SlotsAreReleased == \A k \in RunKey : Active(claims[k]) ~> ~Active(claims[k])
=============================================================================
