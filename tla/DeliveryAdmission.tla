-------------------------- MODULE DeliveryAdmission --------------------------
(***************************************************************************)
(* From a hydrated event to the jobs of a delivery: the front half of      *)
(* processNormalizedGitHubWebhook (app-server.cjs), with the decisions of  *)
(* ReviewPolicy.  Deliveries are processed concurrently: every await of    *)
(* the function is a step boundary.                                        *)
(*                                                                         *)
(* The spend of an account is what the workers have recorded in the usage  *)
(* ledger (budget-ledger.cjs).  A worker records its cost when its review  *)
(* is over; what is admitted and not recorded yet is in no snapshot.       *)
(***************************************************************************)
EXTENDS ReviewPolicy, FiniteSetsExt

CONSTANTS
  Handler,     \* processings of deliveries: requests, redeliveries, replays
  Delivery,
  DeliveryOf,  \* the delivery each handler processes
  Operators,   \* policies the operator may have set
  Files,       \* config files a repository may have
  Events,      \* hydrated events
  Actors,      \* actor contexts GitHub may answer
  MaxPeriods,  \* bound on PeriodEnds
  Faults       \* may GitHub and the ledgers fail?

ASSUME DeliveryAssumption ==
  /\ DeliveryOf \in [Handler -> Delivery]
  /\ Operators \subseteq Operator
  /\ \A f \in Files : Normalize(f) \in Config
  /\ Events \subseteq Event
  /\ Actors \subseteq Actor
  /\ MaxPeriods \in Nat
  /\ Faults \in BOOLEAN

VARIABLES
  operator,   \* the operator's policy: settings do not change while a server runs
  event,      \* the event of each delivery
  at,         \* where each handler is
  config,     \* the repository config it has loaded
  actor,      \* the actor context it has resolved
  todo,       \* jobs whose budget it has yet to evaluate
  current,    \* the job it evaluates
  snapshot,   \* the spend snapshot for that job
  reserved,   \* deliveryBudgetReservations
  admitted,   \* admittedJobs
  spent,      \* what the usage ledger has for each account in its period
  running,    \* jobs that are enqueued and have recorded no usage yet
  periods,    \* how many periods have ended
  comments,   \* failure comments on the pull request of each delivery
  unseen,     \* history: has a snapshot missed spend that was already admitted?
  raced       \* history: deliveries whose failure comment two handlers were
              \* about to post, or whose request was repeated

handlerVars == <<at, config, actor, todo, current, snapshot, reserved, admitted>>
spendVars   == <<spent, running, periods, unseen>>
commentVars == <<comments, raced>>
vars == <<operator, event, at, config, actor, todo, current, snapshot, reserved,
          admitted, spent, running, periods, comments, unseen, raced>>

Stage  == {"idle", "config", "actor", "find", "create", "policy", "snapshot",
           "evaluate", "events", "done", "failed"}
Budgeting == {"snapshot", "evaluate", "events"}
NoActor == [permission |-> 0, member |-> FALSE]
Nothing == [a \in Account |-> 0]

TypeOK ==
  /\ operator \in Operators
  /\ event \in [Delivery -> Events]
  /\ at \in [Handler -> Stage]
  /\ config \in [Handler -> Config]
  /\ actor \in [Handler -> Actor]
  /\ todo \in [Handler -> SUBSET Job]
  /\ current \in [Handler -> Job \cup {Unset}]
  /\ \A h \in Handler : at[h] = "evaluate" => current[h] \in Job
  /\ snapshot \in [Handler -> [Account -> Nat] \cup {Unavailable}]
  /\ reserved \in [Handler -> [Account -> Nat]]
  /\ admitted \in [Handler -> SUBSET Job]
  /\ spent \in [Account -> Nat]
  /\ running \subseteq Handler \X Job
  /\ periods \in 0 .. MaxPeriods
  /\ comments \in [Delivery -> Nat]
  /\ unseen \in BOOLEAN
  /\ raced \subseteq Delivery

Init ==
  /\ operator \in Operators
  /\ event \in [Delivery -> Events]
  /\ at = [h \in Handler |-> "idle"]
  /\ config = [h \in Handler |-> DefaultConfig]
  /\ actor = [h \in Handler |-> NoActor]
  /\ todo = [h \in Handler |-> {}]
  /\ current = [h \in Handler |-> Unset]
  /\ snapshot = [h \in Handler |-> Unavailable]
  /\ reserved = [h \in Handler |-> Nothing]
  /\ admitted = [h \in Handler |-> {}]
  /\ spent = Nothing
  /\ running = {}
  /\ periods = 0
  /\ comments = [d \in Delivery |-> 0]
  /\ unseen = FALSE
  /\ raced = {}

-----------------------------------------------------------------------------
EventOf(h) == event[DeliveryOf[h]]
Goes(h, s) == at' = [at EXCEPT ![h] = s]

\* The kinds of an event under a config and the operator's runtime control.
KindsOf(e, c) == ControlledKinds(ConfiguredKinds(e, c), operator)
JobsOf(e, c) == CandidateJobs(KindsOf(e, c), MergeLanes(operator.lanes, c.lanes), operator)
Admitted(e, c, a) ==
  Admits(e, a, MergeAdmission(operator.admission, c.admission), operator.authors)
BudgetOf(h) == MergeBudget(operator.budget, config[h].budget)

\* A handler begins: the event is hydrated and asks for reviews.
Arrive(h) ==
  /\ at[h] = "idle"
  /\ Goes(h, "config")
  /\ UNCHANGED <<operator, event, config, actor, todo, current, snapshot, reserved,
                 admitted, spendVars, commentVars>>

\* loadRepositoryConfig finds no file, or one it normalises; configuration
\* and runtime control may then leave the event nothing to review.
LoadConfig(h) ==
  /\ at[h] = "config"
  /\ \E c \in {DefaultConfig} \cup {Normalize(f) : f \in Files} :
       /\ config' = [config EXCEPT ![h] = c]
       /\ Goes(h, IF KindsOf(EventOf(h), c) = {} THEN "done" ELSE "actor")
  /\ UNCHANGED <<operator, event, actor, todo, current, snapshot, reserved, admitted,
                 spendVars, commentVars>>

\* An invalid or unavailable config blocks the work (the delivery ends
\* ignored); without an installation token the handler throws.
ConfigFails(h) ==
  /\ Faults
  /\ at[h] = "config"
  /\ \E s \in {"done", "failed"} : Goes(h, s)
  /\ UNCHANGED <<operator, event, config, actor, todo, current, snapshot, reserved,
                 admitted, spendVars, commentVars>>

\* Where admission, createReviewJobs and filterRuntimeControlJobs lead to.
AfterActor(h, a) ==
  LET e == EventOf(h)
      jobs == JobsOf(e, config[h])
  IN  CASE ~Admitted(e, config[h], a) -> "done"
        [] Admitted(e, config[h], a)
           /\ TooManyJobs(jobs, MergeMaxJobs(operator.maxJobs, config[h].maxJobs)) ->
             IF e.trigger = "comment" THEN "find" ELSE "failed"
        [] OTHER ->
             IF RuntimeControlJobs(jobs, operator) = {} THEN "done" ELSE "policy"

\* resolveActorContext: faults leave an actor without permission.
ResolveActor(h) ==
  /\ at[h] = "actor"
  /\ \E a \in Actors \cup (IF Faults THEN {NoActor} ELSE {}) :
       /\ actor' = [actor EXCEPT ![h] = a]
       /\ Goes(h, AfterActor(h, a))
       /\ todo' = [todo EXCEPT ![h] =
            IF AfterActor(h, a) = "policy"
            THEN RuntimeControlJobs(JobsOf(EventOf(h), config[h]), operator)
            ELSE {}]
  /\ UNCHANGED <<operator, event, config, current, snapshot, reserved, admitted,
                 spendVars, commentVars>>

-----------------------------------------------------------------------------
(* A command that asks for too many jobs is answered with a comment.       *)

\* Mutant: a search that overlooks the comment of an earlier attempt.
FindNothing(h) ==
  /\ at[h] = "find"
  /\ Goes(h, "create")
  /\ raced' = raced \cup {DeliveryOf[g] : g \in
       {g \in Handler \ {h} : at[g] = "create" /\ DeliveryOf[g] = DeliveryOf[h]}}
  /\ UNCHANGED <<operator, event, config, actor, todo, current, snapshot, reserved,
                 admitted, spendVars, comments>>

\* postIssueComment looks for the delivery's marker first.
FindComment(h) ==
  /\ at[h] = "find"
  /\ Goes(h, IF comments[DeliveryOf[h]] > 0 THEN "done" ELSE "create")
  /\ raced' = raced \cup {DeliveryOf[g] : g \in
       {g \in Handler \ {h} : at[g] = "create" /\ DeliveryOf[g] = DeliveryOf[h]}}
  /\ UNCHANGED <<operator, event, config, actor, todo, current, snapshot, reserved,
                 admitted, spendVars, comments>>

\* createIssueComment is a POST that githubFetchWithRetry repeats: it may
\* leave no comment, one, or, after an answer that was lost, two.
CreateComment(h) ==
  /\ at[h] = "create"
  /\ \E n \in IF Faults THEN {0, 1, 2} ELSE {1} :
       /\ comments' = [comments EXCEPT ![DeliveryOf[h]] = @ + n]
       /\ raced' = IF n = 2 THEN raced \cup {DeliveryOf[h]} ELSE raced
  /\ Goes(h, "done")
  /\ UNCHANGED <<operator, event, config, actor, todo, current, snapshot, reserved,
                 admitted, spendVars>>

-----------------------------------------------------------------------------
(* Budgets.                                                                *)

LoadBudgetPolicy(h) ==
  /\ at[h] = "policy"
  /\ \E s \in {"snapshot"} \cup (IF Faults THEN {"failed"} ELSE {}) : Goes(h, s)
  /\ UNCHANGED <<operator, event, config, actor, todo, current, snapshot, reserved,
                 admitted, spendVars, commentVars>>

\* resolveBudgetSnapshot for the next job, in the order of the code or any
\* other.  It fails with an exception, or is unavailable where none is set up.
Snapshot(h) ==
  /\ at[h] = "snapshot"
  /\ \E j \in todo[h] :
       /\ current' = [current EXCEPT ![h] = j]
       /\ todo' = [todo EXCEPT ![h] = @ \ {j}]
  /\ \/ /\ \E s \in {spent} \cup (IF Faults THEN {Unavailable} ELSE {}) :
             snapshot' = [snapshot EXCEPT ![h] = s]
        /\ Goes(h, "evaluate")
        /\ unseen' = (\/ unseen
                      \/ running # {}
                      \/ \E g \in Handler \ {h} : at[g] \in Budgeting)
     \/ /\ Faults
        /\ Goes(h, "failed")
        /\ UNCHANGED <<snapshot, unseen>>
  /\ UNCHANGED <<operator, event, config, actor, reserved, admitted, spent, running,
                 periods, commentVars>>

\* Mutant: a loop that does not remember what it has admitted.
EvaluateUnreserved(h) ==
  /\ at[h] = "evaluate"
  /\ IF BudgetAllows(current[h], BudgetOf(h), WithReservations(snapshot[h], reserved[h]))
     THEN admitted' = [admitted EXCEPT ![h] = @ \cup {current[h]}]
     ELSE UNCHANGED admitted
  /\ Goes(h, IF todo[h] = {} THEN "events" ELSE "snapshot")
  /\ UNCHANGED <<operator, event, config, actor, todo, current, snapshot, reserved,
                 spendVars, commentVars>>

\* evaluateBudgetAdmission, and the reservation of an admitted job.
Evaluate(h) ==
  /\ at[h] = "evaluate"
  /\ IF BudgetAllows(current[h], BudgetOf(h), WithReservations(snapshot[h], reserved[h]))
     THEN /\ admitted' = [admitted EXCEPT ![h] = @ \cup {current[h]}]
          /\ reserved' = [reserved EXCEPT ![h] = Reserve(@, current[h], BudgetOf(h))]
     ELSE UNCHANGED <<admitted, reserved>>
  /\ Goes(h, IF todo[h] = {} THEN "events" ELSE "snapshot")
  /\ UNCHANGED <<operator, event, config, actor, todo, current, snapshot, spendVars,
                 commentVars>>

\* The job events are written, and run control lets some of the admitted
\* jobs pass (RunControl has the rest of the handler); either may throw.
EndBudget(h) ==
  /\ at[h] = "events"
  /\ \/ /\ \E granted \in SUBSET admitted[h] : running' = running \cup ({h} \X granted)
        /\ Goes(h, "done")
     \/ Faults /\ Goes(h, "failed") /\ UNCHANGED running
  /\ UNCHANGED <<operator, event, config, actor, todo, current, snapshot, reserved,
                 admitted, spent, periods, unseen, commentVars>>

\* Mutant: a worker that books the difference to the estimate.
WorkerRecordsDifference(h, j) ==
  /\ <<h, j>> \in running
  /\ running' = running \ {<<h, j>>}
  /\ \E cost \in {0, EstimateCost(j, BudgetOf(h))} :
       spent' = [a \in Account |->
         spent[a] + (IF a \in AccountsOf[j] THEN cost - EstimateCost(j, BudgetOf(h)) ELSE 0)]
  /\ UNCHANGED <<operator, event, handlerVars, periods, unseen, commentVars>>

\* A worker records what its review cost: at most the estimate, or nothing
\* when it is skipped, fails, or dies.
WorkerRecords(h, j) ==
  /\ <<h, j>> \in running
  /\ running' = running \ {<<h, j>>}
  /\ \E cost \in {0, EstimateCost(j, BudgetOf(h))} :
       spent' = [a \in Account |-> spent[a] + (IF a \in AccountsOf[j] THEN cost ELSE 0)]
  /\ UNCHANGED <<operator, event, handlerVars, periods, unseen, commentVars>>

\* The day, week or month of an account is over (date_trunc).
PeriodEnds(a) ==
  /\ periods < MaxPeriods
  /\ spent[a] > 0
  /\ periods' = periods + 1
  /\ spent' = [spent EXCEPT ![a] = 0]
  /\ UNCHANGED <<operator, event, handlerVars, running, unseen, commentVars>>

Process(h) ==
  \/ Arrive(h) \/ LoadConfig(h) \/ ConfigFails(h) \/ ResolveActor(h)
  \/ FindComment(h) \/ CreateComment(h)
  \/ LoadBudgetPolicy(h) \/ Snapshot(h) \/ Evaluate(h) \/ EndBudget(h)

Next ==
  \/ \E h \in Handler : Process(h)
  \/ \E h \in Handler, j \in Job : WorkerRecords(h, j)
  \/ \E a \in Account : PeriodEnds(a)

Spec == Init /\ [][Next]_vars
-----------------------------------------------------------------------------
(* Properties.                                                             *)

\* What the operator's own settings allow of a delivery, given whom the
\* repository trusts besides.
OperatorAllows(h, j) ==
  /\ Admits(EventOf(h), actor[h],
            [operator.admission EXCEPT !.trusted = @ \cup config[h].admission.trusted],
            operator.authors)
  /\ operator.enabled
  /\ j.kind \notin operator.disabledKinds
  /\ j.lane \notin operator.disabledLanes
  /\ j.lane \in LanesForReviewKind(j.kind, operator.lanes)

\* Whatever a repository's config file says, a job that is admitted is one
\* the operator's settings admit on their own, apart from the config's
\* list of trusted users: merging the two never loosens the draft, author,
\* mode and permission rules, brings in a lane, revives a disabled one, or
\* raises the number of jobs per delivery.
ConfigOnlyTightens ==
  \A h \in Handler :
    /\ \A j \in admitted[h] : OperatorAllows(h, j)
    /\ Cardinality(admitted[h]) <= operator.maxJobs

\* The operator's caps, and those of the repository, in one set of rules.
CapsOf(budget) ==
  {[account |-> a, cap |-> budget.caps[a]] : a \in {b \in Account : budget.caps[b] # NoCap}}
  \cup budget.explicit

\* One delivery never reserves more than a cap allows: each job is measured
\* against what the jobs before it were admitted for, so that a delivery
\* with many jobs cannot pass a cap that each of them alone would keep.
\* With 'enforce' this holds for the operator's caps under any config file.
DeliveryWithinCaps ==
  operator.budget.mode = "enforce" =>
    \A h \in Handler : \A r \in CapsOf(operator.budget) : reserved[h][r.account] <= r.cap

CostIn(a, j, h) == IF a \in AccountsOf[j] THEN EstimateCost(j, BudgetOf(h)) ELSE 0

\* Spend, what runs, and what is about to: the account's eventual spend.
Committed(a) ==
  spent[a] + MapThenSumSet(LAMBDA r : CostIn(a, r[2], r[1]), running)
           + MapThenSumSet(LAMBDA h : reserved[h][a], {h \in Handler : at[h] \in Budgeting})

\* A cap is passed only by spend that was admitted and not recorded when
\* another delivery read its snapshot: without such an overlap (and with
\* workers that cost no more than their estimate) the operator's caps hold
\* across deliveries, periods and failures.
OverspendWasUnseen ==
  operator.budget.mode = "enforce" /\ ~unseen =>
    \A r \in CapsOf(operator.budget) : Committed(r.account) <= r.cap

\* A delivery gets one comment for its failed command, however often it is
\* processed, unless two handlers looked for it before either had posted,
\* or the POST was repeated after it had succeeded.
OneFailureComment == \A d \in Delivery : comments[d] <= 1 \/ d \in raced
=============================================================================
