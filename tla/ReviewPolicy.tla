---------------------------- MODULE ReviewPolicy ----------------------------
(***************************************************************************)
(* What a delivery may have reviewed: the operator's policy (environment   *)
(* and budget rows), the repository's config file, and how the two are     *)
(* merged (repository-config.cjs), the decisions on them                   *)
(* (admission-policy.cjs, runtime-control.cjs, budget-admission.cjs) and   *)
(* the jobs they leave (review-job.cjs), as operators.                     *)
(*                                                                         *)
(* A setting the config file leaves out has the value that changes nothing *)
(* in its merge: "open", "off", no trigger excluded, permission 0, no cap. *)
(* Only the review kinds have defaults of their own, so there Unset is     *)
(* kept.  Trusted teams and organizations are left out: the App's actor    *)
(* context has no teams, and an organization only for a member, who is     *)
(* trusted without it.  Amounts are naturals, the micro-dollars roundUsd   *)
(* rounds to.                                                              *)
(***************************************************************************)
EXTENDS Integers, FiniteSets

CONSTANTS
  Kind,          \* REVIEW_KINDS
  Followup,      \* "followup"
  InitialKinds,  \* INITIAL_REVIEW_KINDS
  FixedKinds,    \* kinds with a lane of their own: glm-swarm, responsiveness
  FixedLane,     \* that lane
  Lane,          \* provider and model
  User,
  Account,       \* a budget scope, with its value, in one period
  AccountsOf,    \* the accounts a job's cost counts in
  OwnEstimate,   \* estimateBudgetCost, for the kinds that have one
  Unset,         \* a field the config file does not have
  Unavailable    \* a spend snapshot that could not be read

Job == [kind : Kind, lane : Lane]
NoCap == -1

ASSUME PolicyAssumption ==
  /\ IsFiniteSet(Job)
  /\ Followup \in Kind
  /\ InitialKinds \subseteq Kind
  /\ FixedKinds \subseteq Kind
  /\ FixedLane \in [FixedKinds -> Lane]
  /\ AccountsOf \in [Job -> SUBSET Account]
  /\ DOMAIN OwnEstimate \subseteq Kind
  /\ \A k \in DOMAIN OwnEstimate : OwnEstimate[k] \in Nat
  /\ Unavailable \notin [Account -> Nat]

RepoMode   == {"off", "trusted", "open"}
BudgetMode == {"off", "warn", "enforce"}
Trigger    == {"pull_request", "comment"}
Permission == 0 .. 5            \* TRUSTED_PERMISSION_ORDER
Cap        == Nat \cup {NoCap}
Rule       == [account : Account, cap : Nat]

AdmissionPolicy ==
  [publicMode : RepoMode, privateMode : RepoMode, draft : SUBSET Trigger,
   trusted : SUBSET User, permission : Permission, deny : SUBSET User]
BudgetPolicy ==
  [mode : BudgetMode, estimate : Nat, caps : [Account -> Cap], explicit : SUBSET Rule]
Operator ==
  [admission : AdmissionPolicy, authors : SUBSET User, budget : BudgetPolicy,
   lanes : SUBSET Lane, maxJobs : Nat \ {0},
   enabled : BOOLEAN, disabledKinds : SUBSET Kind, disabledLanes : SUBSET Lane]
Config ==
  [enabled : BOOLEAN, commands : BOOLEAN,
   allowed : SUBSET Kind, initial : SUBSET Kind, followup : SUBSET Kind,
   lanes : SUBSET Lane, maxJobs : Nat,
   admission : AdmissionPolicy, budget : BudgetPolicy]
Event ==
  [trigger : Trigger, synchronize : BOOLEAN, kinds : SUBSET Kind, draft : BOOLEAN,
   private : BOOLEAN, actor : User, author : User]
Actor == [permission : Permission, member : BOOLEAN]

-----------------------------------------------------------------------------
(* The repository config.                                                  *)

Given(x, default) == IF x = Unset THEN default ELSE x

DefaultConfig ==
  [enabled |-> TRUE, commands |-> TRUE,
   allowed |-> Kind, initial |-> InitialKinds, followup |-> {Followup},
   lanes |-> {}, maxJobs |-> 0,
   admission |-> [publicMode |-> "open", privateMode |-> "open", draft |-> Trigger,
                  trusted |-> {}, permission |-> 0, deny |-> {}],
   budget |-> [mode |-> "off", estimate |-> 0,
               caps |-> [a \in Account |-> NoCap], explicit |-> {}]]

\* A config file: like a config, but its kinds may be Unset.
Normalize(file) ==
  LET allowed == Given(file.allowed, Kind)
  IN  [file EXCEPT !.allowed  = allowed,
                   !.initial  = Given(@, Kind \ {Followup}) \cap allowed,
                   !.followup = Given(@, {Followup}) \cap allowed]

MostRestrictive(order, base, override) ==
  IF order[override] > order[base] THEN override ELSE base

RestrictiveRepoMode(base, override) ==
  MostRestrictive([off |-> 3, trusted |-> 2, open |-> 1], base, override)
RestrictiveBudgetMode(base, override) ==
  MostRestrictive([enforce |-> 3, warn |-> 2, off |-> 1], base, override)

StricterPermission(base, override) == IF override > base THEN override ELSE base
Lower(a, b)  == IF a < b THEN a ELSE b
Higher(a, b) == IF a < b THEN b ELSE a

\* Mutant: the repository's cap replaces the central one.
MinNullableOverride(a, b) == IF b = NoCap THEN a ELSE b

MinNullable(a, b) ==
  IF a = NoCap THEN b ELSE IF b = NoCap THEN a ELSE Lower(a, b)

\* reviewKindsForConfiguredEvent: a pull request gets the kinds the config
\* wants for it, a comment those it asked for, in either case of the allowed.
ReviewKindsForConfiguredEvent(event, config) ==
  (CASE event.trigger = "comment" -> event.kinds
     [] event.trigger = "pull_request" /\ event.synchronize -> config.followup
     [] OTHER -> config.initial) \cap config.allowed

\* applyRepositoryConfigToEvent: no kinds, nothing to enqueue.
ConfiguredKinds(event, config) ==
  IF ~config.enabled \/ (event.trigger = "comment" /\ ~config.commands)
  THEN {}
  ELSE ReviewKindsForConfiguredEvent(event, config)

MergeAdmission(base, over) ==
  [publicMode  |-> RestrictiveRepoMode(base.publicMode, over.publicMode),
   privateMode |-> RestrictiveRepoMode(base.privateMode, over.privateMode),
   draft       |-> base.draft \cap over.draft,
   trusted     |-> base.trusted \cup over.trusted,
   permission  |-> StricterPermission(base.permission, over.permission),
   deny        |-> base.deny \cup over.deny]

MergeBudget(base, over) ==
  [mode     |-> RestrictiveBudgetMode(base.mode, over.mode),
   estimate |-> Higher(base.estimate, over.estimate),
   caps     |-> [a \in Account |-> MinNullable(base.caps[a], over.caps[a])],
   explicit |-> base.explicit \cup over.explicit]

\* Mutant: the repository's lanes replace the operator's.
MergeLanesOverride(base, over) == IF over = {} THEN base ELSE over

MergeLanes(base, over) == IF over = {} THEN base ELSE over \cap base
MergeMaxJobs(base, over) == IF over = 0 THEN base ELSE Lower(base, over)

-----------------------------------------------------------------------------
(* Admission, jobs and runtime control.                                    *)

Trusted(event, actor, policy) ==
  \/ event.actor \in policy.trusted
  \/ actor.member
  \/ actor.permission >= policy.permission

\* evaluateAdmission, for an event with review kinds.
Admits(event, actor, policy, authors) ==
  /\ event.actor \notin policy.deny
  /\ event.draft => event.trigger \in policy.draft
  /\ authors # {} => event.author \in authors
  /\ LET mode == IF event.private THEN policy.privateMode ELSE policy.publicMode
     IN  \/ mode = "open"
         \/ mode = "trusted" /\ Trusted(event, actor, policy)

\* applyRuntimeControlToEvent
ControlledKinds(kinds, operator) ==
  IF operator.enabled THEN kinds \ operator.disabledKinds ELSE {}

LanesForReviewKind(kind, lanes) ==
  IF kind \in FixedKinds THEN {FixedLane[kind]} ELSE lanes

\* The jobs createReviewJobs builds: an empty list of lanes stands for all
\* the operator's.
CandidateJobs(kinds, lanes, operator) ==
  LET from == IF lanes = {} THEN operator.lanes ELSE lanes
  IN  {j \in Job : j.kind \in kinds /\ j.lane \in LanesForReviewKind(j.kind, from)}

TooManyJobs(jobs, maxJobs) == Cardinality(jobs) > maxJobs

\* filterRuntimeControlJobs
RuntimeControlJobs(jobs, operator) ==
  {j \in jobs : j.lane \notin operator.disabledLanes /\ j.kind \notin operator.disabledKinds}

-----------------------------------------------------------------------------
(* Budgets.                                                                *)

EstimateCost(job, policy) ==
  IF job.kind \in DOMAIN OwnEstimate THEN OwnEstimate[job.kind] ELSE policy.estimate

\* budgetPoliciesForSubject
RulesFor(job, policy) ==
  {[account |-> a, cap |-> policy.caps[a]] :
     a \in {b \in AccountsOf[job] : policy.caps[b] # NoCap}}
  \cup {r \in policy.explicit : r.account \in AccountsOf[job]}

Exceeded(job, policy, current) ==
  {r \in RulesFor(job, policy) : current[r.account] + EstimateCost(job, policy) > r.cap}

\* evaluateBudgetAdmission
BudgetAllows(job, policy, current) ==
  \/ policy.mode \in {"off", "warn"}
  \/ RulesFor(job, policy) = {}
  \/ current # Unavailable /\ Exceeded(job, policy, current) = {}

\* applyBudgetReservationsToSnapshot
WithReservations(snapshot, reserved) ==
  IF snapshot = Unavailable THEN Unavailable
  ELSE [a \in Account |-> snapshot[a] + reserved[a]]

\* budgetReservationForDecision and mergeBudgetReservations
Reserve(reserved, job, policy) ==
  [a \in Account |->
     reserved[a] + (IF a \in AccountsOf[job] THEN EstimateCost(job, policy) ELSE 0)]
=============================================================================
