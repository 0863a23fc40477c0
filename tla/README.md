# A TLA+ model of 6529reviewbot

6529reviewbot is a GitHub App that turns pull-request events and comment
commands into AI reviews. A webhook server records deliveries in a durable
inbox, decides which reviews to run, claims each of them in a shared table and
dispatches it to a worker; the worker reads the pull request, calls a model or
drives a browser against a dev server, posts one comment and writes what it
spent to a ledger; that ledger feeds the budget of the next delivery, a usage
API and alerts. This directory models the control of that loop: every place where
two processes, a crash, a lost answer or a limit decides what happens.

Paths below are relative to the repository; line numbers belong to the commit the
models were written from. `PROJECT.json` maps every definition to its lines.

## 1. The system

### 1.1 Parts and how they interact

```
GitHub --webhook--> app-server --recordReceived--> webhook inbox (PostgreSQL)
                       |  ^                             |
                       |  +---- claimDue, replay -------+   every poll interval
                       |
                       +-- configuration, admission, budget  <-- usage ledger
                       +-- claim each job --> run claims (PostgreSQL)
                       +-- dispatch --> worker (GitHub Actions, or a local child)
                       |                   +-- beginRunClaimWork, review, final status
                       |                   |     review-bot | glm-swarm | responsiveness
                       |                   |                 (supervisor, then comment job)
                       |                   +-- comment on the PR, row in the usage ledger
                       +-- record the dispatch statuses --> run claims
                       +-- settle the delivery --> webhook inbox

usage ledger --pages--> usage API (response cache) | scheduled alert check
```

| Component | State it keeps | Operations | Modules |
| --- | --- | --- | --- |
| Run-claim ledger (`run-control-ledger.cjs`, `run-control.cjs`) | table `ai_review_run_claims` | claim, status update, begin work | `RunClaimLedger`, `RunControl`, `ClaimWindow` |
| Worker dispatch (`worker-adapter.cjs`, `bin/run-review-job.cjs`, `review-job.yml`) | GitHub's queue of workflow runs, the run in a concurrency group | dispatch with retries, local run, claim-guarded run | `RunControl`, `ReviewPipeline` |
| Webhook inbox (`webhook-inbox.cjs`) | table `ai_review_webhook_inbox` | recordReceived, claimDue, mark processed / ignored / retry_pending / failed | `InboxLedger`, `WebhookInbox` |
| Webhook server (`app-server.cjs`, `bin/server.cjs`) | locals of a request; one running pass | webhook handler, inbox processor, routes | `DeliveryAdmission`, `RunControl`, `WebhookInbox`, `ReviewPipeline` |
| Review jobs (`review-job.cjs`) | none | jobs of an event, run key of a job | `ReviewPolicy`, `ReviewPipeline` |
| Repository configuration, admission (`repository-config.cjs`, `admission-policy.cjs`, `runtime-control.cjs`) | none | merge of operator and repository policy, verdicts | `ReviewPolicy`, `DeliveryAdmission` |
| Budget admission (`budget-*.cjs`) | policies; spend derived from the usage table | spend snapshots, reservations within a delivery | `ReviewPolicy`, `DeliveryAdmission` |
| GitHub App integration (`github-app-auth.cjs`) | none across calls | hydrate, actor context, comment on a failure | `DeliveryAdmission`, `ReviewPipeline` |
| Webhook normalisation (`github-webhook.cjs`) | none | parse an event or a comment command | its result: `Event` of `ReviewPolicy` |
| Data API client (`data-api.cjs`) | none | a blocking SQL statement | as blocking, failing statements |
| Responsiveness runner (`responsiveness-*.cjs`) | child processes, deadline, abort reason, artifacts | sessions, supervise, abort, tear down, verdict | `Supervisor`, `ReviewCommands` |
| Review worker (`review-bot.cjs`) | none | read the PR, call a provider, post one comment, check it | `ReviewCommands` |
| GLM swarm (`glm-swarm-review.cjs`) | running cost and results | reviewers under a cost cap, synthesis | `ReviewCommands` |
| Usage API (`usage-api*.cjs`) | response cache | summary route, admin listings | `UsageReports` |
| Alerts (`scheduled-spend-check.cjs`, `spend-alerts.cjs`, ...) | none | budget utilisation, spikes, job health | `UsageReports` |
| Ledgers and prices (`usage-ledger.cjs`, `job-ledger.cjs`, ...) | append-only rows | inserts that fail open or closed | `ReviewCommands`, `UsageReports` |
| Operator and release tooling | files | offline reports | none |

### 1.2 Where it is hard

* **Concurrent claims.** Server processes are replicated and share only the
  tables. A claim is one SQL statement that reads duplicates and counts on its own
  snapshot, and inserts on the latest row.
* **Events that are delivered again.** GitHub redelivers, the inbox replays, an
  operator replays by hand. Each time the delivery goes through the same handler.
* **Effects that cannot be taken back.** A workflow dispatch that timed out may
  have been accepted, and so may a comment or a provider call. They are repeated, or
  looked up first, or counted afterwards; each command does this differently.
* **Writes in an order nobody enforces.** The server writes dispatch statuses
  after all dispatches, the worker writes `running` and a final status meanwhile,
  and both updates test the run key only.
* **Decisions on old values.** The spend snapshot of one delivery does not contain
  what another was just admitted to; a cached summary does not contain the last
  events; the pages of one reading are different statements.
* **Crashes.** A server process can die between the claims and the dispatch, or
  in the middle of a replay. A worker can die without a status, a runner between two
  of its files. What heals this is expiry (claims), `next_attempt_at` (inbox), and
  artifacts that are written early.
* **Process trees.** A dev server that ignores SIGTERM, leaves children behind, or
  exits while it is being stopped; a deadline, two signals, and a stall monitor
  that race with the sweep's own end.
* **Limits.** `maxAttempts` of the inbox, the caps of the scopes, budgets, the
  swarm's cost cap and the retries of a dispatch interact: a delivery held back by
  a cap spends inbox attempts.

### 1.3 What makes each component correct

* Run claims: one grant of a key per window; caps are kept; slots come free
  again; a completed review is not repeated; nobody works without a claim.
* Inbox: every recorded delivery is settled; replays are bounded; what is settled
  stays settled; `processing` always belongs to somebody.
* Pipeline: inside a window all workflow runs of a job come from one dispatch of it; no
  job is forgotten; what a cap held back is drained.
* Configuration and budget: a repository can tighten the operator's policy, never
  loosen it; one delivery keeps every cap; several deliveries pass one only through
  spend that no snapshot could show.
* Supervisor: one abort reason, which stays; a finished sweep is not blamed on what
  happens during its teardown; nothing is left running; the run ends; "passed" is earned.
* Review commands: completed runs did not overlap and recorded what they spent; a
  notice is not repeated; no call over the cost cap; no run hangs.
* Usage readers: what is old enough is counted, once; an answer fits its question; a
  cap that stops admission is reported before anything less urgent.

`PROJECT.json` lists under "hazards" the places where these can go wrong, with
the properties that cover them.

## 2. Modules

| Module | Models | Role |
| --- | --- | --- |
| `RunClaimLedger` | the run-claim table and its statements | operators on tables, no variables |
| `ClaimWindow` | what `docs/run-control.md` asks of any claim store | abstract specification |
| `RunControl` | claim loop, dispatch, status writes, workers | state machine; `ClaimWindow` through `Held` |
| `InboxLedger` | the inbox table and its statements, the status a result leads to | operators on tables |
| `WebhookInbox` | webhook requests and the processors of several processes | state machine |
| `ReviewPipeline` | both tables, requests, the processor and dispatch together | composition |
| `ReviewPolicy` | configuration, merges, admission, jobs, budget rules | pure operators |
| `DeliveryAdmission` | from a hydrated event to admitted jobs, workers' spend | state machine over `ReviewPolicy` |
| `Supervisor` | a responsiveness run: sessions, process trees, teardown, artifacts | state machine |
| `ReviewCommands` | the three review commands on one head | state machine |
| `UsageReports` | usage API with its cache, alert check, writers | state machine |
| `*Proofs` | theorems about each of the seven state machines | TLAPS |
| `CollectionLemmas` | lemmas on loops over sequences, counting, and sums over finite sets | TLAPS |
| `MC*` | | instances for TLC |

The chain of a review is `WebhookInbox` -> `DeliveryAdmission` -> `RunControl` ->
`ReviewCommands` / `Supervisor` -> `UsageReports`; `ReviewPipeline` composes the
two tables at its start, and `DeliveryAdmission` closes the loop from recorded spend to
the next admission.

### 2.1 Run claims: `RunClaimLedger`, `RunControl`

*State.* `claims` is the table. A row has its status; `expires` is `expires_at`
seen from `now()` (`never` when it is null, `ahead`, `past`); `fresh` says whether `created_at` is
inside the dedupe window. That is all the statements can tell of time, so no clock
is needed: `ClaimExpires` and `WindowEnds` let a window pass at any moment.
`pc`, `todo`, `granted`, `verdict`, `tries` are the locals of a handler;
`pending` and `worker` are the concurrency group of a run key (one running
workflow, one queued, a newer queued one replaces the older:
`.github/workflows/review-job.yml:80-82`). `grants` and `completions` are history.

*A claim is two steps.* `buildRunClaimQuery` takes the advisory lock in a CTE of
the very statement that reads duplicates and counts. PostgreSQL takes the snapshot
of a statement before it runs, so a statement that waits for the lock reads the
table as it was before the wait. `SubmitClaim` takes the snapshot; `CommitClaim`
decides by it, except for the `WHERE` of `ON CONFLICT`, which sees the latest row.
`executeStatement` blocks its process, so `HostFree` keeps the other handlers of
that process still meanwhile. Time does not pass under a statement in
flight: `now()` is fixed for the statement, and the windows are hours long.

| Code | Action |
| --- | --- |
| `claimReviewJobWithLedger` per job; `evaluateRunControl` | `SubmitClaim`, `CommitClaim`, `FailClaim` |
| end of the claim loop (`app-server.cjs:519-552`) | `NothingToDispatch`, `StartDispatch` |
| `enqueueReviewJobsWithAdapter`, `github_actions` | `DispatchAccepted`, `DispatchRejected`, `DispatchLost`, `DispatchThrows` |
| the same, `local` (`spawnSync`) | `LocalStart`, `LocalEnd` |
| the same, `noop` | `DispatchRejected` |
| `recordRunClaimDispatchStatuses` | `StartRecording`, `RecordStatus`, `EndRecording` |
| `runJobWithClaimStatus` | `WorkerBegin`, `WorkerBeginFails`, `WorkerMark`, `WorkerEnd` |
| process or runner dies | `AppCrash`, `WorkerCrash` |

A process that dies while its statement runs, and whose statement commits anyway,
is `CommitClaim` followed by `AppCrash`.

### 2.2 Inbox: `InboxLedger`, `WebhookInbox`

*State.* `rows` is the table: status, `attempt_count`, and `due` for
`next_attempt_at <= now()`. `request` is where each webhook request is; `pass`,
`batch`, `chosen`, `current` are the processor of each process. `replays` and
`crashes` are counters.

`claimDue` is two steps for the same reason as a claim: its candidates come from
the snapshot, the update applies to the row it finds when it has the lock, and does not
test the status again. What processing does to a delivery is an arbitrary outcome
here: jobs enqueued, none, none but to be retried, or an exception.

| Code | Action |
| --- | --- |
| `recordReceived` | `Receive` |
| `processNormalizedGitHubWebhook` (request, replay) | `Process`, `ReplayEnds` |
| `updateWebhookInboxFromResult` | `Settle`, `SettleReplay` |
| the timer, `claimDue` | `StartPass`, `ClaimDue`, `ClaimDueFails` |
| the loop of `processWebhookInboxOnce`, its catch block | `Replay`, `CatchReplay`, `EndPass` |
| `next_attempt_at` passes | `ComesDue` |
| process dies and is restarted | `AppCrash` |

With `FailClosed` a failing statement throws; without it `safeWrite` swallows it.

### 2.3 The pipeline: `ReviewPipeline`

The two tables alone hide how they react to each other: the inbox retries
because a claim was denied, and the retry meets the claims of the first attempt. In
`ReviewPipeline` webhook requests and the inbox processor run the same
handler, from the inbox row to the settled row, over the run-claim table. `KeyOf` and
`ReplayKeyOf` are the run keys a job gets from the webhook and from the event the
inbox kept; the latter differs for comment commands (section 5), so the properties about
jobs are stated where they are equal (`Enforced`), as they are for pull-request events.

| Code | Action |
| --- | --- |
| `recordReceived`, `claimDue` | `Receive`, `TakeUp` |
| `hydrateEvent`, `createReviewJobs` | `Hydrate`, `HydrationFails` |
| the claim loop and what follows it | `Claim`, `EndClaims` |
| `enqueueReviewJobsWithAdapter`, `githubApiFetchWithRetry` | `Dispatch`, `DispatchThrows` |
| the claim statuses, the result | `Record` |
| `updateWebhookInboxFromResult` | `Settle` |
| the concurrency group; `runJobWithClaimStatus` | `RunIsReplaced`; `WorkerBegins`, `WorkerEnds` |
| time; a process dies | `ComesDue`, `ClaimAges`; `Crash` |

`Dispatch` is the loop over the granted jobs with the repeated POSTs of each. A POST that
times out or is answered 5xx may have queued a workflow run and is sent again, so a job
gets between none and `DispatchAttempts` runs, and a job that is reported as failed
may have some (`docs/run-control.md:158-161`). `queued` and `working` are the concurrency
groups of the workflow, one to a run key. The runs of one dispatch may work one after
the other; that a second one does not repeat a completed review is the worker's guard
(`WorkDuplicate`), a property of `RunControl`.

Any number of server processes may host a processor (`Processor`); with `SlowProcessing`
a replay may overlap another or the request. A crash ends any of the actors at work.

It is coarser than its parts: a claim is atomic, a processor takes one delivery at a time,
and statements do not fail. Those behaviours are in `RunControl` and `WebhookInbox`.

### 2.4 Policy and admission: `ReviewPolicy`, `DeliveryAdmission`

`ReviewPolicy` has no state. Its records are the operator's settings, the repository's
config file after `normalizeRepositoryConfig`, the event and the actor context; its
operators are the merges of `repository-config.cjs` (`MergeAdmission`, `MergeBudget`,
`MergeLanes`, `MergeMaxJobs`), the kinds an event asks for, `evaluateAdmission`
(`Admits`), runtime control, the jobs of `createReviewJobs`, and the rules,
estimates and reservations of `budget-admission.cjs`. A field that the file leaves out has
the value its merge ignores; only the review kinds have defaults of their own, and
keep `Unset`. Amounts are naturals: the micro-dollars to which `roundUsd` rounds.

`DeliveryAdmission` runs `processNormalizedGitHubWebhook` from the hydrated event to
the end of budget admission, for several processings at a time; every await is a
step boundary.

| Code | Action |
| --- | --- |
| configuration and runtime control of the event | `LoadConfig`, `ConfigFails` |
| `resolveActorContext`, admission, `createReviewJobs`, `filterRuntimeControlJobs` | `ResolveActor` |
| `postIssueComment` of a refused command | `FindComment`, `CreateComment` |
| policy file; snapshot and decision of each job | `LoadBudgetPolicy`, `Snapshot`, `Evaluate` |
| job events, and what run control lets pass | `EndBudget` |
| a worker writes its usage row; a budget period is over | `WorkerRecords`, `PeriodEnds` |

`spent` is the sum the ledger would return for an account (a budget scope with its value and
period). `unseen` records that some snapshot was read while spend was admitted and
not recorded; `raced` that two processings had both looked for the failure
comment before either posted it, or that the POST was repeated. Both are history variables
and guard nothing.

### 2.5 Responsiveness runs: `Supervisor`

`superviseBenchmark`, the loop over the sessions in `runResponsiveness`, and the verdict the
comment job reads from the files. The runner is one JavaScript thread: from an
event to the next await is one step, so deciding to abort and entering the teardown are one
step, and the other events come in at awaits. `at` is the await the runner is in;
`server` and `playwright` are process trees: the leader, whether its exit event has been
delivered (`seen`), the rest of its group, and a grandchild that left the group and still
holds the pipes. `disk` is `summary.md` and `exit-code.txt`.

| Code | Action |
| --- | --- |
| readiness probe, spawn, `waitForServerReady` | `AlreadyAvailable`, `ReuseServer`, `SpawnServer`, `ServerReady`, `ServerCannotStart` |
| monitor and sweep are started | `StartSweep`, `SetupThrows` |
| `abort` from exits, stall, deadline, signals | `ServerExits`, `ServerStalls`, `SweepEnds`, `SweepCannotStart`, `DeadlineFires`, `Signal` |
| `terminateProcessTree` of the sweep and of the server, drain | `StopSweep` ... `KillOfServerEnds`, `DrainEnds` |
| the loop; final artifacts | `NextSession`, `WriteSummary`, `WriteExitCode` |
| children die at will; clock; host | `ServerProcessDies`, `SweepProcessDies`, `StoppedSweepExits`, `GlobalTimeoutNears`, `DeadlinePasses`, `HostStops` |

### 2.6 The commands of a worker: `ReviewCommands`

One module for `main` of `review-bot.cjs`, `runGlmSwarmReview` and `main` of
`responsiveness-review.cjs`: they differ in which lookups they make (`kind`), and share
the comments and the usage ledger. `Run` are runs of one command on one head, which carry
the same hidden marker. A step is one call to GitHub, a provider or the ledger, with
what the command does until the next one. Any of them may fail; the answer to a POST
or an insert may be lost although it was accepted; a worker may be killed anywhere.
A listing of issue comments that fails is not thrown on: `getPrComments` then takes the
comments of `gh pr view`, where the bot's login lacks the `[bot]` that the default list of
trusted authors asks for, so none of its markers counts (`MarkersSeen`). This may happen to
every listing: before a notice, before the review, and in the check after the post.
`billed` (what the providers reported), `earlier` (who had ended when a run
began) and `fellBack` (who looked up a notice in that fallback) are observations.

### 2.7 Who reads the ledger: `UsageReports`

Rows are written in two steps, since `created_at` is the time at which an insert begins.
The server process and the alert check read ranges in pages, one statement each
(`StartReading`, `ReadPage`, `FinishAnswer`, `FinishCheck`); ties of `created_at` may come in
another order in every statement. The response cache is a sequence in insertion order with
`set`, expiry on lookup, and eviction of the oldest. A question is a route with the `days`
parameters of its query, in their order: the range is the first of them (`RangeDays`), while
the key of the cache sorts them (`KeyOf`, a bag), as the code does. The alert check makes
budget alerts from a warning threshold on (`BudgetAlerts`), sorts them together with whatever
spend spikes there are, and keeps the first `MaxAlerts` (`Before`, `Reports`).
`served` and `alerts` show what is answered in a step. Authorisation precedes the cache and is not modelled; a public
summary names only public repositories (`NamesIn`).

## 3. What TLC checks

`tlc -config <run>.cfg <module>.tla`; every run takes from a second to about two minutes.

| Run (module) | Instance | Properties |
| --- | --- | --- |
| `RunControlGithub` (`MCRunControl`) | one process, a delivery with two jobs and a redelivery of one, two dispatch attempts, cap 1 | `TypeOK`, `RunningHasWorker`, `CompletedIsFinal` |
| `RunControlFaults` (`MCRunControl`) | two processes race for one key; statements fail; processes and workers die; fair | `NoRunWithoutClaim`, `GrantIsExclusive`, `ImplementsClaimWindow`, `SlotsAreReleased` |
| `RunControlLocal` (`MCRunControl`) | one process, three deliveries, local adapter, cap 1 | `SlotsWithinCap`, `OneReviewPerGrant` |
| `InboxSettles` (`MCWebhookInbox`) | one process, two deliveries, batches of two, no failures; fair | `TypeOK`, `ProcessingHasOwner`, `SettledStaysSettled`, `DeliveriesSettle` |
| `InboxRecovery` (`MCWebhookInbox`) | two processes, a delivery and its redelivery, failing statements, a crash, processing that outlasts the retry delay, failClosed; fair | `ReplaysAreBounded`, `DeliveriesAreTakenUp` |
| `Pipeline` (`MCReviewPipeline`) | a delivery with two jobs under a cap of 1, a redelivery that overlaps the replays, two POSTs for a dispatch, which may be refused, lost, repeated or throw, failing hydrations, a crash, one claim may expire and one may leave its window; fair | `RunsOfOneDispatch`, `IgnoredIsDispatched`, `BackpressureDrains` |
| `Admission` (`MCDeliveryAdmission`) | two processings of one delivery, two operator policies, two config files, four events, two actors, faults, a period that ends | `TypeOK`, `ConfigOnlyTightens`, `DeliveryWithinCaps`, `OverspendWasUnseen`, `OneFailureComment` |
| `Supervisor` (`MCSupervisor`) | two sessions, two signals, children that do anything; fair | `TypeOK`, `StoppedTreesAreGone`, `FinishedSweepStands`, `CleanVerdictIsEarned`, `FirstReasonStands`, `RunEnds` |
| `ReviewCommands` (`MCReviewCommands`) | two runs of each command, three reviewer threads, cost cap 2, any listing may fall back; fair | `TypeOK`, `CompletedRunsDoNotOverlap`, `CompletedRunsRecordTheirSpend`, `RerunsRepeatNothing`, `NoCallOverTheCap`, `RunsEnd` |
| `UsageReports` (`MCUsageReports`) | a public and a private repository, three questions, two of which name two ranges in either order, two events, pages of one, a cache of one entry, two spikes, one alert is kept | `TypeOK`, `OldEventsAreCounted`, `EventsAreCountedOnce`, `AnswersFitTheQuestion`, `CapsReachedAreCritical` |
| `StaleSnapshot` (`MCRunControl`) | two processes, two keys, cap 1 | `SlotsWithinCap` is violated |
| `LostDispatch` (`MCReviewPipeline`) | one delivery with two jobs and room for both; nothing fails but the dispatch token | `FailuresAreRetried` is violated |

### 3.1 Bounds

* *Run control.* Two keys and one capped scope of size one are the smallest instance in
  which a cap denies anything and a delivery is dispatched in part. Two handlers on
  two processes are the smallest race for a key; three on one process let a denied key
  come back after the slot is free. `DispatchAttempts = 2` is one lost dispatch and
  its repetition. No bound on crashes is needed, since each handler can crash only once.
* *Inbox and pipeline.* `MaxAttempts = 2` (6 in production) has a first
  attempt that is retried and a last one. `MaxCrashes` bounds the crashes to one.
  Requests run once each, which bounds `replays` and `started`. `Expiring` and `Ageing` name
  the keys whose claims may expire or leave their window, `Faulty` the jobs whose dispatch
  may be refused or lose its answer: one key or job each, since more add states and no
  new case. `Pipeline` has one processor that is done before a delivery is due again; a
  replay overlaps a redelivery there. Two replays of one delivery that overlap are in
  `InboxRecovery`, and in the theorems of section 4.3, which hold for any `Processor` and
  for `SlowProcessing`.
* *Admission.* The strict operator has a cap of 3 on the pull request and of 1 on one
  lane, with an estimate of 1 (2 for `responsiveness`): a delivery with three
  jobs meets each cap in the middle of its jobs. The lenient one only warns, disables a kind
  and a lane, and requires an author. One config file selects a lane the operator does
  not have and leaves its kinds out, the other tightens everything. `MaxPeriods = 1`.
* *Supervisor.* Two sessions are the fewest in which one is followed by another; two
  signals are one that is handled and one that meets the teardown. There is no other
  bound: timers may fire at any moment.
* *Review commands.* Two runs overlap or follow one another.
  `Threads = 3`, `CostCap = 2` and calls that cost 0, 1 or 2 reach the cap exactly, pass it,
  and pass it with the last thread.
* *Usage reports.* `PageSize = 1` makes every event a page of its own; `MaxEvents = 3` is
  above the `MaxRows = 2` that are written, and reached only when a page boundary repeats a row;
  `MaxEntries = 1` makes each new key evict the other; `MaxTime = 2` days are a period of 2,
  a lookback of 2 days, and one day more than an entry lives. The queries `days=2&days=1`
  and `days=1&days=2` share an entry. `MaxAlerts = 1` is the smallest list that cuts; the caps
  of 1 and 2 give scores of 50, 100 and 200, and the two `SpikeAlerts`, a critical one and a
  warning with a score of 150, stand between them. The largest run: 3 million states.

*Deadlock* is not checked where the system rests when no request is left. `Supervisor`
checks it: only a runner that has ended may stop (`Over`).

### 3.2 Fairness

* `RunControl`: a process goes on with its handlers and a runner with its
  job as long as they live (weak fairness of a started handler, of a worker), and
  claims age. Nothing is promised of requests, crashes, or faults. GitHub starts queued
  runs.
* `WebhookInbox`: weak fairness of a pass and of time; strong fairness of the
  requests of a process, since a process is blocked again and again by its
  claim statements, which are a poll interval apart and let the event loop run between
  them; strong fairness of `ClaimDue`: a statement that is tried every 15 s does not
  fail for ever. A crash can end a pass, but `MaxCrashes` keeps crashes from being
  infinitely frequent.
* `ReviewPipeline`: weak fairness of every actor, of workers and time.
* `Supervisor`: weak fairness of `Runner`, which holds only what the runner does by
  itself (its timers and its own continuations), and of the clock passing the deadline. No
  event of a child, a probe or a signal is promised, so `RunEnds` does not rest on
  children that die, answer or close their pipes.
* `ReviewCommands`: weak fairness of `Progress` for each run. GitHub and ledger calls
  come back, with an answer or an error (`gh` and `git` run without a timeout in
  the code, so this is an assumption about them); a provider need not answer (`Answered`
  has no fairness), but its request times out after `providerTimeoutMs` (`CallFails`).

### 3.3 Mutants

Each property of a passing run has a mutant in the module of the definition
it changes, an operator defined just before it with the comment "Mutant". The
runs with the mutated definition violate the property. For liveness these are, for
example, a claim that never expires, a teardown that waits for the exit without a
timer, and a provider request without a timeout.

## 4. What is proved

Every safety invariant and action property that a passing run checks is also a
theorem, and so is the refinement; only the six liveness properties are not. The
theorems are for every value of the constants, under the assumptions the modules name
(`LedgerAssumption`, `RunControlAssumption`, `InboxAssumption`, `WebhookInboxAssumption`,
`PipelineAssumption`, `PolicyAssumption`, `DeliveryAssumption`, `SupervisorAssumption`,
`CommandsAssumption`, `ReportsAssumption`), which type the constants and ask that some
sets be finite. Where a theorem needs more, the hypothesis is in its statement (below)
or in the property itself.

| Module | Theorem | States |
| --- | --- | --- |
| `RunControlProofs` | `TypeCorrect` | `[]TypeOK` |
| | `GrantExclusive` | `GrantIsExclusive` |
| | `LedgerImplementsClaimWindow` | `ImplementsClaimWindow`, a refinement |
| | `RunsAreClaimed` | `[]NoRunWithoutClaim` |
| | `RunningClaimsHaveWorkers` | `[]RunningHasWorker` |
| | `CompletedClaimsStay` | `CompletedIsFinal` |
| | `SlotsNeverOverfilled` | `[]SlotsWithinCap`, for one process that runs its reviews itself |
| | `GrantsAreReviewedOnce` | `[]OneReviewPerGrant`, with `enforce`, for processes that run their reviews themselves |
| `WebhookInboxProofs` | `InboxTypeCorrect` | `[]TypeOK` |
| | `ReplaysStayBounded` | `[]ReplaysAreBounded` |
| | `ProcessingAlwaysHasOwner` | `[]ProcessingHasOwner` |
| | `SettledRowsStaySettled` | `SettledStaysSettled` |
| `ReviewPipelineProofs` | `RunsComeFromOneDispatch` | `[]RunsOfOneDispatch` |
| | `IgnoredDeliveriesAreDispatched` | `[]IgnoredIsDispatched` |
| `DeliveryAdmissionProofs` | `AdmissionTypes` | `[]TypeOK` |
| | `CapsHoldPerDelivery` | `[]DeliveryWithinCaps` |
| | `RepositoryConfigOnlyTightens` | `[]ConfigOnlyTightens` |
| | `FailureIsAnsweredOnce` | `[]OneFailureComment` |
| | `OverspendNeedsOverlap` | `[]OverspendWasUnseen` |
| `SupervisorProofs` | `SupervisorTypes` | `[]TypeOK` |
| | `TreesAreStopped` | `[]StoppedTreesAreGone` |
| | `FinishedSweepsStand` | `[]FinishedSweepStands` |
| | `CleanVerdictsAreEarned` | `[]CleanVerdictIsEarned` |
| | `FirstReasonsStand` | `FirstReasonStands` |
| `ReviewCommandsProofs` | `CommandTypes` | `[]TypeOK` |
| | `NoOverlapCompletes` | `[]CompletedRunsDoNotOverlap` |
| | `SpendIsRecorded` | `[]CompletedRunsRecordTheirSpend` |
| | `RerunsThatListRepeatNothing` | `[]RerunsRepeatNothing` |
| | `CapStopsCalls` | `NoCallOverTheCap` |
| `UsageReportsProofs` | `ReportTypes` | `[]TypeOK` |
| | `AnswersMatch` | `[]AnswersFitTheQuestion` |
| | `NoEventTwice` | `[]EventsAreCountedOnce` |
| | `NoEventHidden` | `[]OldEventsAreCounted` |
| | `CapsAlert` | `[]CapsReachedAreCritical`, for a check that looks back over the period |

The larger inductive invariants (`ReportsInv`, `ReservationsCover` with `SnapshotsSuffice`)
were checked by TLC on the instances of section 3 before they were proved.

### 4.1 Run claims

* `LoopInv` is the inductive form of `TypeOK`. `Head(todo[h])` is a run
  key only if the loop is not empty (`LoopShape`), and what `RecordStatus` writes is
  a claim status only if every job that has left the dispatch loop has an outcome
  (`OutcomesKnown`).
* `SnapshotInv` relates a snapshot to the table that has moved on since. Rows are
  never deleted, no window ends while a claim is in flight, and nobody but a claim
  inserts. So a key that was available on the snapshot and that
  `ON CONFLICT` may take over now is available now. With that,
  `GrantedWasAvailable` gives `GrantExclusive`, although the duplicate check
  itself may have read a stale table. The strengthening is needed: of the snapshot alone
  nothing follows about the row that is overwritten.
* The refinement maps `held` to the keys that are not `Available`. A claim maps to
  `Grant`, the end of the last window (or of the only one, without dedupe) to
  `Release`, everything else to a stutter.
* `WorkIsClaimed`: with `enforce` only granted jobs reach the dispatch loop, a
  granted job has a row, and rows stay. This gives `RunsAreClaimed`.
* `RunningHasWorker` is inductive together with `ClaimInv`; `CompletedIsFinal` needs
  `NoFallback`, that the unconditional `running` update is not reached without ledger
  faults.
* `SlotsNeverOverfilled` assumes one process, and an adapter that is not the workflow.
  `CurrentSnapshots` says that a claim statement in flight has the table as it is:
  one process has one statement in flight, and time does not pass under it. A grant then
  adds a key to a scope that was counted below its cap; `NoWorkflowRuns` says that
  no later status write makes a claim active again. Both hypotheses are needed:
  without the first, `StaleSnapshot` is the counterexample; without the second, a
  recorded dispatch status re-occupies the slot of a review that has finished.
* `GrantsAreReviewedOnce` holds for any number of processes. A grant is *owed* a review as
  long as its job is still before the handler's position in its dispatch loop (`Owed`,
  `Undone`); `GrantsCoverReviews` is that the reviews of a key and those that are owed are
  together no more than its grants. Each of claim, local run and crash moves one unit, or
  drops some. With the workflow adapter a repeated dispatch breaks this (section 5).

### 4.2 The inbox

* `Bookkeeping` is the inductive form of `TypeOK`: what a pass writes is a status only if
  its outcome is known (`OutcomeKnown`), and `EndPass` leaves nothing behind (`PassShape`).
* `ReplaysStayBounded`: a statement that has selected a delivery counts an attempt
  when it commits, whether or not others have selected it too. `AttemptsInHand` bounds the
  attempts counted so far plus the statements in flight that will count another, for
  each process can have only one in flight; `ReplaysArePaid` says that each replay, and each
  claim a pass still holds, was paid for by an attempt. Crashes and failures only lose claims.
* `ProcessingAlwaysHasOwner` needs that no request writes `processing`.
* `SettledRowsStaySettled`: the update tests no status, so the proof is about who is left
  to write. `SoleWriter` says, for one process, no redelivery and an unhurried
  processor, that a request's delivery is not due and not held by the pass, and that a pass
  holds a delivery once and the row says so.

### 4.3 The pipeline

* `RunsComeFromOneDispatch`: a job that was granted or dispatched has a row
  (`GrantsHaveRows`), rows keep `created_at`, and a row inside its window is a duplicate, so
  one actor at most has a grant it has not dispatched, and then no run of the job was
  started before (`OneGrantInWindow`). The one dispatch that follows starts at most
  `DispatchAttempts` runs. That there may be more than one is the code's behaviour; the
  theorem says that they have one origin, for any number of processors whose replays overlap.
  `Enforced` is needed: in `observe` a denied job is dispatched all the same, and with a
  replay key of its own a replayed job meets no row.
* `IgnoredDeliveriesAreDispatched`: `ClaimsAreServed` says that every row in the claim
  table was dispatched, is being dispatched, or was given up; `JobsAreAccountedFor` that
  each job of a delivery in work is still to be claimed, was held back by a cap, or has a
  row, so what ends as `ignored` has rows for all its jobs. A crash ends the first of
  the two (a claim whose handler died serves nobody), hence `crashes = 0`.

### 4.4 Admission and budget

* The lemmas are about the merges alone: of two modes the stricter one, of two caps the
  smaller (`MergedAdmissionIsStricter`, `MergedCapsAreStricter`).
* `DeliveryWithinCaps` is inductive with `TypeOK`: a snapshot is never negative, so a
  job that fits on top of snapshot and reservations fits on top of the reservations
  (`AdmittedFits`), and the merged cap is at most the operator's.
* `ConfigOnlyTightens` needs `JobsAreSelected`: from the step that admits an event on,
  the jobs a handler still has, evaluates or has admitted are a subset of what
  `ResolveActor` selected, and config and actor have not changed since. The bound on their
  number comes from that subset, not from a count of the loop.
* `FailureIsAnsweredOnce`: for a delivery nobody raced for, whoever is about to post is
  alone and finds no comment (`CommentsAreDue`).
* `OverspendNeedsOverlap` is about sums over all running jobs and all reservations.
  `ReservationsCover` says that what a handler has admitted costs no more than what it
  reserved, so a job that starts to run moves its share from the second sum to
  the first. `SnapshotsSuffice` says that, as long as no snapshot has missed anything, a
  handler between its snapshot and the end of its budgeting is alone, nothing runs,
  and what it read is at least what is spent. `Committed` then grows only by a decision
  that was taken on it (`NoGrowth`).
* The sums are `MapThenSumSet` of the community modules. `CollectionLemmas` proves what is
  needed of it (`SumOfNothing`, `SumOneMore`, `SumOfPart`, `SumIsMonotonic`, `SumOfPairs`)
  without the library's induction theorems, which take operators as arguments: a sum
  that lacks the property has a smallest set on which it does
  (`SmallestSubset`), and there is none.

### 4.5 The supervisor

`IInv` is `TypeOK` with `Undecided` (no reason to abort and no result
until the teardown), `SessionsInOrder` (the sessions before this one
passed, or `firstFailure` is set), `ThrownBeforeSweep`, `TreesInOrder` (how far each
tree has been stopped at each stage of the teardown), `FinishedSweepStands` itself, and
`DiskInOrder` (what each file may say at each stage, given what has been decided). The
last one is what a crash needs: between any two writes, the pair of files is one of a
few that read as "passed" only when every session has passed. All five theorems follow
from it.

### 4.6 Review commands

`IInv` is `Shape`, `StagesOfKind`, `MarkersAddUp`, `NoEarlyReview`, `PassedDiffer`,
`Spending`, `Recorded` and `Notices`. The core of `NoOverlapCompletes` is `MarkersAddUp`:
a run counts before it posts, comments only grow, so once it has posted there is at
least its own marker on top of what it counted. Two runs that counted the same number
and have both posted put two markers on top of it; the check for exactly one then fails for
whichever checks last, and `PassedDiffer` carries this through. `Spending` says that what
a run has in hand is what it was billed, and is used by `SpendIsRecorded` and
`CapStopsCalls`; `Notices` says that a run that begins after a comment was accepted
finds it, unless its lookup fell back. A fallback does not harm `MarkersAddUp`: it
makes a run count too little before it posts, and its own check too little afterwards. `CommandTypes` adds `Costs`: a run that still calls reviewers has calls left and
was billed at most `MaxCost` for each, so a row of the ledger holds at most the cost of
`Threads + 1` calls; markers are counted up to the number of runs, since each posts one.

### 4.7 The readers of the ledger

`ReportsInv` relates what has been read so far to the rows that match now. A row that shares
its moment with no other has one place in every order of the matching rows: the number of newer
ones plus one (`Place`, `PlaceInOrder`). Pages come from orders that have nothing to do with
each other, and rows are committed between them; but a row is moved only back, by a newer
one. So, of the rows that were committed before the reading began, each has been read
or has its place beyond the offset (`ReadSoFar`), and after the last page, which reaches the
number of matching rows, each has been read: `NoEventHidden`. While nothing in the range is
committed places do not move, and a row is read at its place only: `NoEventTwice`.

`Reading` says the same of a finished reading, by ids, and is kept by a ledger that only
grows (`ReadingStays`); answers carry it into the cache and out of it (`AnswerInv`,
`EntryInv`, `ServedInv`), with `expiresAt` bounding how much later. `WithoutOne` and
`SetOne` say that deletion, replacement and eviction keep the entries that stay and the
limit.

`AnswersMatch` says which entries two questions can share: their keys are equal, so they are
of one route, and as the bags of their `days` are equal, whatever range the one has is among
those that the other names (`SameKey`). That it is the range that was asked for is
not true (section 5).

`CapsAlert` counts: the rows a budget snapshot would have seen are among those the check
has read (`SpentIsRead`), if it looks back to the start of the period. The hypothesis
`PeriodDays <= LookbackDays + 1` holds for the default, which is at least the longest
period, and is needed: the setting allows less (section 5). A cap that is reached has an
alert that is critical and has a score of at least 100 (`PercentOfCap`); if the cut dropped
it, nothing that was kept comes after it in the order, so all that was kept is critical and
scores no less (`DroppedAlert`).

### 4.8 Only model-checked

Liveness (`SlotsAreReleased`, `DeliveriesSettle`, `DeliveriesAreTakenUp`,
`BackpressureDrains`, `RunEnds`, `RunsEnd`): it rests on fairness, and fairness on ENABLED,
which are out of the prover's reach.

## 5. Disagreements between code and documents

Two runs end in a violation; each is a behaviour of the code that a document
excludes. `PROJECT.json` quotes the documents.

* `StaleSnapshot`. The advisory lock orders claim statements and not their
  snapshots: two processes both pass a cap of one.
* `LostDispatch`. A dispatch that throws, because the token for it cannot be had, marks the
  delivery for retry; but the claims that it leaves, now `dispatch_error`, make every
  job of the replay a duplicate, the delivery ends `ignored`, and no review runs. The
  inbox is there so that "transient GitHub API failures [...] can be retried"
  (`docs/aws-usage-ledger.md:67-69`).

Further observations, made while the models were written and not kept as runs.

*Run claims and dispatch*

* The dispatch status is written WHERE run_key only (`run-control-ledger.cjs:446`). On
  GitHub Actions it can replace the `completed` of a fast worker, after which the second
  run of a repeated dispatch reviews again (`docs/run-control.md:162-165`), and it can
  re-occupy the slot of a review that has finished. With the local adapter the
  recorded status is the final one; hence `OneReviewPerGrant` is checked there.
* A dispatch that is repeated can start several workflow runs, as `docs/run-control.md:158-161`
  says, and one that is reported as failed may have started some: a claim
  `dispatch_failed` does not mean that no worker runs (compare `docs/worker-adapters.md`,
  "A dispatch failure does not call a provider"). `RunsOfOneDispatch` bounds them by
  the attempts of one dispatch.
* A claim that takes over an expired row keeps `created_at`, so only the first
  claim of a key has a dedupe window.
* `recordRunControlJobEvents` may throw after the claims were made; the claims then stay
  `claimed`, and the delivery is as lost as in `LostDispatch`.
* The responsiveness workflow writes its run-claim statuses without `beginRunClaimWork`
  (`responsiveness-review.cjs:47`, `:93`, `:104`), so a repeated run overwrites `completed`.

*Inbox*

* A process that dies in the last attempt leaves a `processing` row that no later pass
  selects (`webhook-inbox.cjs:248`). `DeliveriesSettle` is therefore stated without crashes.
* The stored event lacks `event.command` (`webhook-inbox.cjs:327`): a replayed comment
  command gets other run keys and is not recognised as a duplicate
  (`docs/run-control.md:53`). `RunsOfOneDispatch` and `IgnoredIsDispatched` therefore ask
  for equal keys, and `Pipeline` has pull-request events.
* A redelivery reopens a `failed` row and keeps its attempts. If it then
  asks for a retry, the row stays `retry_pending` with no attempt left. Two
  processors that hold one delivery can leave the same row, when the older replay
  settles last.
* A redelivery that is still at work when a delivery is `processed` may end it `ignored`;
  the reviews themselves are not repeated (`RunsOfOneDispatch`).

*Configuration and budget*

* A config file without `reviewKinds.initial` asks for all configurable kinds,
  `glm-swarm` included (`repository-config.cjs:391-406`, against
  `docs/repository-config.md:146-148`); with the default limit of 12 jobs an opened pull
  request can then be refused for too many jobs.
* Lanes of which the operator has none lead to an empty merge, which `createReviewJobs`
  reads as "all the operator's lanes" (`repository-config.cjs:291-306`,
  `review-job.cjs:100-131`, against `docs/repository-config.md:172-173`). The
  repository's restriction is lost, but nothing is gained beyond the operator's lanes, so
  `ConfigOnlyTightens` holds.
* The lists of trusted users are united: the one setting by which a repository adds to
  what the operator allows. `OperatorAllows` states this exception.
* A configuration that cannot be loaded ends the delivery with 200 and `ignored`.
* The failure comment's POST is repeated after a lost answer, hence `raced`. The lookup
  reads the first and the last five pages of comments (`github-app-auth.cjs:371-416`), so
  a long pull request can hide the earlier answer; the model has none that long.
* Spend that was admitted and is not recorded yet is in no snapshot, hence `unseen`.

*Responsiveness supervisor*

* A sweep that exited on its own is not killed as a group, so browsers it leaves behind
  outlive the session (header, lines 5-9); `StoppedTreesAreGone` states it for the
  sweeps that were stopped, and for every dev server.
* The signal handlers are removed when a teardown begins, and between sessions; a signal
  then ends the runner without a final summary (`docs/responsiveness-runner.md:310-313`).
* The deadline is not enforced within the teardown, which has its own timers.

*Review commands*

* Of two runs that overlap, both can fail after having posted.
* Runs that fail or are killed record no usage, although the providers have billed it
  (`docs/budget-admission.md:104-105`, `docs/architecture.md:105`); so are empty answers
  of a provider or of the visual review, and a swarm whose reviewer call fails loses
  what earlier reviewers cost. `CompletedRunsRecordTheirSpend` is about completed runs.
* A listing of issue comments that fails falls back to one in which the bot's markers do
  not count (`review-bot.cjs:892-895`, `:929-940`, `:1036-1038`; default list at `:33`). A
  notice is then posted again, so `RerunsRepeatNothing` exempts the runs in `fellBack`; and a
  review whose check falls back fails after it has been posted, with its spend unrecorded.
* The swarm posts its skip notice without a lookup; `RerunsRepeatNothing` excludes it.
* A call whose cost is unknown does not count towards the swarm's cap.

*Usage API and alerts*

* The cache key sorts repeated parameters (`usage-api.cjs:1111-1120`), while the range is the
  first `days` of the query (`:399`): `days=1&days=30` and `days=30&days=1` share an
  entry, and for its lifetime one of them is answered with the range of the other.
  `AnswersFitTheQuestion` therefore says that the range is one of those the query names;
  the stronger form, the first, is false in the model.
* `policy.maxAlerts` (50, may be set to 1) cuts the sorted alerts (`spend-alerts.cjs:80`): a
  cap that is reached goes unreported when as many critical alerts with higher
  scores come before it, spend spikes included. `CapsReachedAreCritical` says that nothing
  else can displace it.
* Beyond `maxEvents` the oldest events are left out without a notice; rows with one
  `created_at` may be read twice or not at all at a page boundary; a row that began
  before `to` and is committed during the reading shifts the pages.
* A cap of 0 is never reported by the alerts (`spend-alerts.cjs:88`).
* `REVIEWBOT_ALERTS_LOOKBACK_DAYS` may be set below the longest budget period
  (`scheduled-spend-check.cjs:18-22`); the check then misses what was spent before.
  The default covers every period. `CapsAlert` has this as its hypothesis.

## 6. Not modelled

* Run mode `off`: the table is not consulted and nothing is shared.
* A local review that outlives its dead server process.
* The exact lengths of TTLs, retry delays and poll intervals; the order in
  which `claimDue` prefers rows (`updated_at`): it may choose any batch.
* Deletion of rows by an operator; the budget policy file, whose statements are applied
  one by one by an operator's command.
* Signatures, comment-command parsing, prompts, context files, diffs, report rendering,
  public summaries, schema text, price tables: text without control.
* Route inference and the browser probes of the responsiveness runner: the probes are
  generated as source text and run inside Playwright; here a sweep ends with one of three codes.
* A failing write of the supervisor's final artifacts, which ends the runner as an exception.
* Admin listings, the thresholds of spend spikes and job health, notification channels: single
  read-only statements and arithmetic that keep no state.
* Trusted teams, which the App's actor context never has.
* Operator and release tooling (28 files of checklists that turn files and environment
  variables into a report) and `scripts/`: about half of the repository's code is
  contract checks and smoke tests, which test the program rather than being part of it.
  For this reason the share of all lines that the map covers stays small, while the files that
  carry the control are covered (`run-control-ledger.cjs`, `repository-config.cjs`,
  `admission-policy.cjs`, `budget-admission.cjs`, `responsiveness-supervisor.cjs`,
  `webhook-inbox.cjs`, and the webhook handler of `app-server.cjs`).

## 7. Plan

Done: run claims with `ClaimWindow` and its refinement; the inbox; the pipeline over
both tables; policy, admission and budget; the supervisor; the review commands; the readers
of the ledger; a proof of every safety property (section 4).

Left, in this order:

1. An abstract specification of what the budget promises to an account (spend, reservation,
   release), with `DeliveryAdmission` shown to implement it while `unseen` is false.
2. An abstract specification of the inbox as a work queue with a bounded number of attempts,
   implemented by `WebhookInbox`; `AttemptsInHand` and `ReplaysArePaid` are its mapping.
3. The claim windows of `ReviewPipeline` as a refinement of `ClaimWindow`, as for `RunControl`.
4. The order of a sweep's routes with its retries and readiness checks
   (`responsiveness-runner.cjs`), composed with `Supervisor` in the place of `SweepEnds`.
