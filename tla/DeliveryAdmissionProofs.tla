----------------------- MODULE DeliveryAdmissionProofs -----------------------
(***************************************************************************)
(* Theorems about DeliveryAdmission and ReviewPolicy, for every set of     *)
(* handlers, users, lanes, kinds and accounts, every policy an operator    *)
(* can set and every config file a repository can have.                    *)
(***************************************************************************)
EXTENDS DeliveryAdmission, CollectionLemmas, TLAPS

-----------------------------------------------------------------------------
(* The merges of ReviewPolicy.                                             *)

LEMMA RepoModes ==
  ASSUME NEW b \in RepoMode, NEW o \in RepoMode
  PROVE  /\ RestrictiveRepoMode(b, o) \in RepoMode
         /\ RestrictiveRepoMode(b, o) = "open" => b = "open"
         /\ RestrictiveRepoMode(b, o) = "trusted" => b \in {"open", "trusted"}
BY SMT DEF RestrictiveRepoMode, MostRestrictive, RepoMode

LEMMA BudgetModes ==
  ASSUME NEW b \in BudgetMode, NEW o \in BudgetMode
  PROVE  /\ RestrictiveBudgetMode(b, o) \in BudgetMode
         /\ b = "enforce" => RestrictiveBudgetMode(b, o) = "enforce"
BY SMT DEF RestrictiveBudgetMode, MostRestrictive, BudgetMode

LEMMA MergedAdmissionType ==
  ASSUME NEW b \in AdmissionPolicy, NEW o \in AdmissionPolicy
  PROVE  /\ MergeAdmission(b, o) \in AdmissionPolicy
         /\ MergeAdmission(b, o).permission >= b.permission
<1>1. /\ b.publicMode \in RepoMode /\ o.publicMode \in RepoMode
      /\ b.privateMode \in RepoMode /\ o.privateMode \in RepoMode
      /\ b.permission \in Permission /\ o.permission \in Permission
  BY DEF AdmissionPolicy
<1>2. /\ RestrictiveRepoMode(b.publicMode, o.publicMode) \in RepoMode
      /\ RestrictiveRepoMode(b.privateMode, o.privateMode) \in RepoMode
  BY <1>1, RepoModes
<1>3. /\ StricterPermission(b.permission, o.permission) \in Permission
      /\ StricterPermission(b.permission, o.permission) >= b.permission
  BY <1>1, SMT DEF StricterPermission, Permission
<1> QED BY <1>2, <1>3 DEF MergeAdmission, AdmissionPolicy

LEMMA MergedBudgetType ==
  ASSUME NEW b \in BudgetPolicy, NEW o \in BudgetPolicy
  PROVE  MergeBudget(b, o) \in BudgetPolicy
<1>1. RestrictiveBudgetMode(b.mode, o.mode) \in BudgetMode
  BY BudgetModes DEF BudgetPolicy
<1>2. Higher(b.estimate, o.estimate) \in Nat
  BY DEF BudgetPolicy, Higher
<1>3. ASSUME NEW a \in Account PROVE MinNullable(b.caps[a], o.caps[a]) \in Cap
  <2>1. b.caps[a] \in Cap /\ o.caps[a] \in Cap
    BY DEF BudgetPolicy
  <2> QED BY <2>1 DEF MinNullable, Lower, Cap
<1>4. b.explicit \cup o.explicit \in SUBSET Rule
  BY DEF BudgetPolicy
<1> QED BY <1>1, <1>2, <1>3, <1>4 DEF MergeBudget, BudgetPolicy

\* Merging admission policies only tightens, but for the list of trusted
\* users: whom the merged policy admits, the base policy with that list does.
LEMMA MergedAdmissionIsStricter ==
  ASSUME NEW e \in Event, NEW a \in Actor, NEW authors,
         NEW b \in AdmissionPolicy, NEW o \in AdmissionPolicy,
         Admits(e, a, MergeAdmission(b, o), authors)
  PROVE  Admits(e, a, [b EXCEPT !.trusted = @ \cup o.trusted], authors)
<1> DEFINE m == MergeAdmission(b, o)
           t == [b EXCEPT !.trusted = @ \cup o.trusted]
<1>1. /\ e.actor \notin m.deny
      /\ e.draft => e.trigger \in m.draft
      /\ authors # {} => e.author \in authors
  BY DEF Admits
<1>2. /\ m.deny = b.deny \cup o.deny
      /\ m.draft = b.draft \cap o.draft
      /\ m.trusted = b.trusted \cup o.trusted
      /\ m.publicMode = RestrictiveRepoMode(b.publicMode, o.publicMode)
      /\ m.privateMode = RestrictiveRepoMode(b.privateMode, o.privateMode)
  BY DEF MergeAdmission
<1>3. /\ t.deny = b.deny /\ t.draft = b.draft /\ t.trusted = b.trusted \cup o.trusted
      /\ t.publicMode = b.publicMode /\ t.privateMode = b.privateMode
      /\ t.permission = b.permission
  BY DEF AdmissionPolicy
<1>4. /\ b.publicMode \in RepoMode /\ o.publicMode \in RepoMode
      /\ b.privateMode \in RepoMode /\ o.privateMode \in RepoMode
  BY DEF AdmissionPolicy
<1>5. Trusted(e, a, m) => Trusted(e, a, t)
  <2>1. m.permission >= b.permission /\ m.permission \in Permission
    BY MergedAdmissionType DEF AdmissionPolicy
  <2>2. a.permission \in Permission /\ b.permission \in Permission
    BY DEF Actor, AdmissionPolicy
  <2>3. a.permission >= m.permission => a.permission >= b.permission
    BY <2>1, <2>2, SMT DEF Permission
  <2> QED BY <1>2, <1>3, <2>3 DEF Trusted
<1>6. CASE e.private
  <2>1. \/ m.privateMode = "open"
        \/ m.privateMode = "trusted" /\ Trusted(e, a, m)
    BY <1>6 DEF Admits
  <2>2. \/ b.privateMode = "open"
        \/ b.privateMode = "trusted" /\ Trusted(e, a, t)
    BY <1>2, <1>4, <1>5, <2>1, RepoModes
  <2> QED BY <1>1, <1>2, <1>3, <1>6, <2>2 DEF Admits
<1>7. CASE ~e.private
  <2>1. \/ m.publicMode = "open"
        \/ m.publicMode = "trusted" /\ Trusted(e, a, m)
    BY <1>7 DEF Admits
  <2>2. \/ b.publicMode = "open"
        \/ b.publicMode = "trusted" /\ Trusted(e, a, t)
    BY <1>2, <1>4, <1>5, <2>1, RepoModes
  <2> QED BY <1>1, <1>2, <1>3, <1>7, <2>2 DEF Admits
<1> QED BY <1>6, <1>7

\* Where the base policy has a cap, the merged one has a rule as strict.
LEMMA MergedCapsAreStricter ==
  ASSUME NEW b \in BudgetPolicy, NEW o \in BudgetPolicy, NEW j \in Job,
         NEW r \in CapsOf(b), r.account \in AccountsOf[j]
  PROVE  \E q \in RulesFor(j, MergeBudget(b, o)) :
           q.account = r.account /\ q.cap \in Nat /\ q.cap <= r.cap
<1> DEFINE m == MergeBudget(b, o)
<1>1. CASE r \in b.explicit
  <2>1. r \in m.explicit /\ r \in Rule
    BY <1>1 DEF MergeBudget, BudgetPolicy
  <2>2. r \in RulesFor(j, m)
    BY <2>1 DEF RulesFor
  <2>3. r.cap \in Nat
    BY <2>1 DEF Rule
  <2> QED BY <2>2, <2>3
<1>2. CASE r \notin b.explicit
  <2>1. PICK a \in Account : b.caps[a] # NoCap /\ r = [account |-> a, cap |-> b.caps[a]]
    BY <1>2 DEF CapsOf
  <2>2. b.caps[a] \in Nat /\ o.caps[a] \in Cap
    BY <2>1 DEF BudgetPolicy, Cap
  <2>3. m.caps[a] = MinNullable(b.caps[a], o.caps[a])
    BY DEF MergeBudget
  <2>4. m.caps[a] \in Nat /\ m.caps[a] <= b.caps[a]
    BY <2>1, <2>2, <2>3, SMT DEF MinNullable, Lower, Cap, NoCap
  <2>5. m.caps[a] # NoCap
    BY <2>4, SMT DEF NoCap
  <2> DEFINE q == [account |-> a, cap |-> m.caps[a]]
  <2>6. a \in AccountsOf[j]
    BY <2>1
  <2>7. q \in RulesFor(j, m)
    BY <2>5, <2>6 DEF RulesFor
  <2> QED BY <2>1, <2>4, <2>7
<1> QED BY <1>1, <1>2

LEMMA EstimateType ==
  ASSUME NEW p \in BudgetPolicy, NEW j \in Job
  PROVE  EstimateCost(j, p) \in Nat
BY PolicyAssumption DEF EstimateCost, BudgetPolicy

LEMMA ReserveType ==
  ASSUME NEW p \in BudgetPolicy, NEW j \in Job, NEW s \in [Account -> Nat]
  PROVE  Reserve(s, j, p) \in [Account -> Nat]
<1>1. EstimateCost(j, p) \in Nat
  BY EstimateType
<1> QED BY <1>1 DEF Reserve

LEMMA DefaultConfigType == DefaultConfig \in Config
<1>1. DefaultConfig.admission \in AdmissionPolicy
  BY SMT DEF DefaultConfig, AdmissionPolicy, RepoMode, Permission
<1>2. DefaultConfig.budget \in BudgetPolicy
  BY SMT DEF DefaultConfig, BudgetPolicy, BudgetMode, Cap, NoCap
<1> QED BY <1>1, <1>2, PolicyAssumption DEF DefaultConfig, Config

-----------------------------------------------------------------------------
(* Types.                                                                  *)

LEMMA BudgetOfType ==
  ASSUME TypeOK, NEW h \in Handler
  PROVE  BudgetOf(h) \in BudgetPolicy
<1>1. operator.budget \in BudgetPolicy
  BY DeliveryAssumption DEF TypeOK, Operator
<1>2. config[h].budget \in BudgetPolicy
  BY DEF TypeOK, Config
<1> QED BY <1>1, <1>2, MergedBudgetType DEF BudgetOf

LEMMA InitType == Init => TypeOK
<1> SUFFICES ASSUME Init PROVE TypeOK
  OBVIOUS
<1>1. DefaultConfig \in Config
  BY DefaultConfigType
<1>2. NoActor \in Actor
  BY SMT DEF NoActor, Actor, Permission
<1>3. /\ at \in [Handler -> Stage] /\ \A h \in Handler : at[h] # "evaluate"
  BY DEF Init, Stage
<1>4. /\ config \in [Handler -> Config]
      /\ actor \in [Handler -> Actor]
      /\ snapshot \in [Handler -> [Account -> Nat] \cup {Unavailable}]
  BY <1>1, <1>2 DEF Init
<1>5. /\ todo \in [Handler -> SUBSET Job]
      /\ admitted \in [Handler -> SUBSET Job]
      /\ current \in [Handler -> Job \cup {Unset}]
  BY DEF Init
<1>6. /\ reserved \in [Handler -> [Account -> Nat]]
      /\ spent \in [Account -> Nat]
      /\ comments \in [Delivery -> Nat]
      /\ periods \in 0 .. MaxPeriods
  BY DeliveryAssumption DEF Init, Nothing
<1> QED BY <1>3, <1>4, <1>5, <1>6 DEF Init, TypeOK

\* A step to another stage than the evaluation keeps the stages' types.
LEMMA StageType ==
  ASSUME TypeOK, NEW h \in Handler, NEW s \in Stage \ {"evaluate"},
         Goes(h, s), current' = current
  PROVE  /\ at' \in [Handler -> Stage]
         /\ \A g \in Handler : at'[g] = "evaluate" => current'[g] \in Job
BY DEF TypeOK, Goes

LEMMA NextType == TypeOK /\ [Next]_vars => TypeOK'
<1> SUFFICES ASSUME TypeOK, [Next]_vars PROVE TypeOK'
  OBVIOUS
<1> USE DEF handlerVars, spendVars, commentVars
<1>1. ASSUME NEW h \in Handler, Arrive(h) PROVE TypeOK'
  BY <1>1 DEF TypeOK, Arrive, Goes, Stage
<1>2. ASSUME NEW h \in Handler, LoadConfig(h) PROVE TypeOK'
  <2>1. PICK c \in {DefaultConfig} \cup {Normalize(f) : f \in Files} :
          /\ config' = [config EXCEPT ![h] = c]
          /\ Goes(h, IF KindsOf(EventOf(h), c) = {} THEN "done" ELSE "actor")
    BY <1>2 DEF LoadConfig
  <2>2. c \in Config
    BY DefaultConfigType, DeliveryAssumption
  <2>3. \E s \in {"done", "actor"} : Goes(h, s)
    BY <2>1
  <2>4. /\ at' \in [Handler -> Stage]
        /\ \A g \in Handler : at'[g] = "evaluate" => current'[g] \in Job
    BY <1>2, <2>3, StageType DEF LoadConfig, Stage
  <2> QED BY <1>2, <2>1, <2>2, <2>4 DEF TypeOK, LoadConfig
<1>3. ASSUME NEW h \in Handler, ConfigFails(h) PROVE TypeOK'
  BY <1>3 DEF TypeOK, ConfigFails, Goes, Stage
<1>4. ASSUME NEW h \in Handler, ResolveActor(h) PROVE TypeOK'
  <2>1. PICK a \in Actors \cup (IF Faults THEN {NoActor} ELSE {}) :
          /\ actor' = [actor EXCEPT ![h] = a]
          /\ Goes(h, AfterActor(h, a))
          /\ todo' = [todo EXCEPT ![h] =
               IF AfterActor(h, a) = "policy"
               THEN RuntimeControlJobs(JobsOf(EventOf(h), config[h]), operator)
               ELSE {}]
    BY <1>4 DEF ResolveActor
  <2>2. a \in Actor
    <3>1. NoActor \in Actor
      BY SMT DEF NoActor, Actor, Permission
    <3> QED BY <2>1, <3>1, DeliveryAssumption
  <2>3. AfterActor(h, a) \in Stage \ {"evaluate"}
    BY DEF AfterActor, Stage
  <2>6. /\ at' \in [Handler -> Stage]
        /\ \A g \in Handler : at'[g] = "evaluate" => current'[g] \in Job
    BY <1>4, <2>1, <2>3, StageType DEF ResolveActor
  <2>4. RuntimeControlJobs(JobsOf(EventOf(h), config[h]), operator) \subseteq Job
    BY DEF RuntimeControlJobs, JobsOf, CandidateJobs
  <2>5. todo' \in [Handler -> SUBSET Job]
    BY <2>1, <2>4 DEF TypeOK
  <2> QED BY <1>4, <2>1, <2>2, <2>5, <2>6 DEF TypeOK, ResolveActor
<1>5. ASSUME NEW h \in Handler, FindComment(h) PROVE TypeOK'
  <2>1. raced' \subseteq Delivery
    BY <1>5, DeliveryAssumption DEF TypeOK, FindComment
  <2>2. \E s \in {"done", "create"} : Goes(h, s)
    BY <1>5 DEF FindComment
  <2>3. /\ at' \in [Handler -> Stage]
        /\ \A g \in Handler : at'[g] = "evaluate" => current'[g] \in Job
    BY <1>5, <2>2, StageType DEF FindComment, Stage
  <2> QED BY <1>5, <2>1, <2>3 DEF TypeOK, FindComment
<1>6. ASSUME NEW h \in Handler, CreateComment(h) PROVE TypeOK'
  <2>1. PICK n \in IF Faults THEN {0, 1, 2} ELSE {1} :
          /\ comments' = [comments EXCEPT ![DeliveryOf[h]] = @ + n]
          /\ raced' = IF n = 2 THEN raced \cup {DeliveryOf[h]} ELSE raced
    BY <1>6 DEF CreateComment
  <2>2. n \in Nat /\ DeliveryOf[h] \in Delivery
    BY DeliveryAssumption
  <2>3. comments' \in [Delivery -> Nat] /\ raced' \subseteq Delivery
    BY <2>1, <2>2 DEF TypeOK
  <2> QED BY <1>6, <2>3 DEF TypeOK, CreateComment, Goes, Stage
<1>7. ASSUME NEW h \in Handler, LoadBudgetPolicy(h) PROVE TypeOK'
  BY <1>7 DEF TypeOK, LoadBudgetPolicy, Goes, Stage
<1>8. ASSUME NEW h \in Handler, Snapshot(h) PROVE TypeOK'
  <2>1. PICK j \in todo[h] : /\ current' = [current EXCEPT ![h] = j]
                             /\ todo' = [todo EXCEPT ![h] = @ \ {j}]
    BY <1>8 DEF Snapshot
  <2>2. j \in Job
    BY <2>1 DEF TypeOK
  <2>3. current' \in [Handler -> Job \cup {Unset}] /\ todo' \in [Handler -> SUBSET Job]
    BY <2>1, <2>2 DEF TypeOK
  <2>4. snapshot' \in [Handler -> [Account -> Nat] \cup {Unavailable}]
    <3>1. CASE snapshot' = snapshot
      BY <3>1 DEF TypeOK
    <3>2. CASE snapshot' # snapshot
      <4>1. PICK s \in {spent} \cup (IF Faults THEN {Unavailable} ELSE {}) :
              snapshot' = [snapshot EXCEPT ![h] = s]
        BY <1>8, <3>2 DEF Snapshot
      <4>2. s \in [Account -> Nat] \cup {Unavailable}
        BY DEF TypeOK
      <4> QED BY <4>1, <4>2 DEF TypeOK
    <3> QED BY <3>1, <3>2
  <2>5. \E s \in {"evaluate", "failed"} : at' = [at EXCEPT ![h] = s]
    BY <1>8 DEF Snapshot, Goes
  <2>6. at' \in [Handler -> Stage]
    BY <2>5 DEF TypeOK, Stage
  <2>7. ASSUME NEW g \in Handler, at'[g] = "evaluate" PROVE current'[g] \in Job
    BY <2>1, <2>2, <2>5, <2>7 DEF TypeOK
  <2>8. unseen' \in BOOLEAN
    BY <1>8 DEF TypeOK, Snapshot
  <2> QED BY <1>8, <2>3, <2>4, <2>6, <2>7, <2>8 DEF TypeOK, Snapshot
<1>9. ASSUME NEW h \in Handler, Evaluate(h) PROVE TypeOK'
  <2>1. current[h] \in Job
    BY <1>9 DEF TypeOK, Evaluate
  <2>2. Reserve(reserved[h], current[h], BudgetOf(h)) \in [Account -> Nat]
    BY <2>1, BudgetOfType, ReserveType DEF TypeOK
  <2>3. reserved' \in [Handler -> [Account -> Nat]] /\ admitted' \in [Handler -> SUBSET Job]
    <3>1. CASE UNCHANGED <<admitted, reserved>>
      BY <3>1 DEF TypeOK
    <3>2. CASE ~UNCHANGED <<admitted, reserved>>
      <4>1. /\ admitted' = [admitted EXCEPT ![h] = @ \cup {current[h]}]
            /\ reserved' = [reserved EXCEPT ![h] = Reserve(@, current[h], BudgetOf(h))]
        BY <1>9, <3>2 DEF Evaluate
      <4> QED BY <4>1, <2>1, <2>2 DEF TypeOK
    <3> QED BY <3>1, <3>2
  <2>4. \E s \in {"snapshot", "events"} : at' = [at EXCEPT ![h] = s]
    BY <1>9 DEF Evaluate, Goes
  <2>5. at' \in [Handler -> Stage] /\ current' = current
    BY <1>9, <2>4 DEF TypeOK, Stage, Evaluate
  <2>6. ASSUME NEW g \in Handler, at'[g] = "evaluate" PROVE current'[g] \in Job
    BY <2>4, <2>5, <2>6 DEF TypeOK
  <2> QED BY <1>9, <2>3, <2>5, <2>6 DEF TypeOK, Evaluate
<1>10. ASSUME NEW h \in Handler, EndBudget(h) PROVE TypeOK'
  <2>1. \E s \in {"done", "failed"} : at' = [at EXCEPT ![h] = s]
    BY <1>10 DEF EndBudget, Goes
  <2>2. running' \subseteq Handler \X Job
    BY <1>10 DEF TypeOK, EndBudget
  <2> QED BY <1>10, <2>1, <2>2 DEF TypeOK, EndBudget, Stage
<1>11. ASSUME NEW h \in Handler, NEW j \in Job, WorkerRecords(h, j) PROVE TypeOK'
  <2>1. PICK cost \in {0, EstimateCost(j, BudgetOf(h))} :
          spent' = [a \in Account |-> spent[a] + (IF a \in AccountsOf[j] THEN cost ELSE 0)]
    BY <1>11 DEF WorkerRecords
  <2>2. cost \in Nat
    BY BudgetOfType, EstimateType
  <2>3. spent' \in [Account -> Nat]
    BY <2>1, <2>2 DEF TypeOK
  <2> QED BY <1>11, <2>3 DEF TypeOK, WorkerRecords
<1>12. ASSUME NEW a \in Account, PeriodEnds(a) PROVE TypeOK'
  <2>1. periods' \in 0 .. MaxPeriods
    BY <1>12, DeliveryAssumption, SMT DEF TypeOK, PeriodEnds
  <2> QED BY <1>12, <2>1 DEF TypeOK, PeriodEnds
<1>13. CASE UNCHANGED vars
  BY <1>13 DEF TypeOK, vars
<1> QED
  BY <1>1, <1>2, <1>3, <1>4, <1>5, <1>6, <1>7, <1>8, <1>9, <1>10, <1>11, <1>12, <1>13
     DEF Next, Process

\* Every state of the front half is type-correct.
THEOREM AdmissionTypes == Spec => []TypeOK
BY InitType, NextType, PTL DEF Spec

-----------------------------------------------------------------------------
(* The operator's caps: the inductive invariant is the property itself.    *)

\* With 'enforce', a job that is admitted fits under every cap it counts in.
LEMMA AdmittedFits ==
  ASSUME TypeOK, NEW h \in Handler, NEW j \in Job,
         operator.budget.mode = "enforce",
         BudgetAllows(j, BudgetOf(h), WithReservations(snapshot[h], reserved[h])),
         NEW r \in CapsOf(operator.budget), r.account \in Account,
         r.account \in AccountsOf[j]
  PROVE  /\ snapshot[h] # Unavailable
         /\ snapshot[h][r.account] + reserved[h][r.account] + EstimateCost(j, BudgetOf(h)) <= r.cap
         /\ reserved[h][r.account] + EstimateCost(j, BudgetOf(h)) <= r.cap
<1> DEFINE p == BudgetOf(h)
           a == r.account
<1>1. operator.budget \in BudgetPolicy /\ config[h].budget \in BudgetPolicy
  BY DeliveryAssumption DEF TypeOK, Operator, Config
<1>2. p.mode = "enforce"
  BY <1>1, BudgetModes DEF BudgetOf, MergeBudget, BudgetPolicy
<1>3. PICK q \in RulesFor(j, p) : q.account = a /\ q.cap \in Nat /\ q.cap <= r.cap
  BY <1>1, MergedCapsAreStricter DEF BudgetOf
<1>4. /\ WithReservations(snapshot[h], reserved[h]) # Unavailable
      /\ Exceeded(j, p, WithReservations(snapshot[h], reserved[h])) = {}
  BY <1>2, <1>3 DEF BudgetAllows
<1>5. /\ snapshot[h] # Unavailable
      /\ snapshot[h] \in [Account -> Nat]
      /\ reserved[h] \in [Account -> Nat]
  BY <1>4 DEF WithReservations, TypeOK
<1>6. WithReservations(snapshot[h], reserved[h])[a] = snapshot[h][a] + reserved[h][a]
  BY <1>5 DEF WithReservations
<1>7. ~(snapshot[h][a] + reserved[h][a] + EstimateCost(j, p) > q.cap)
  BY <1>3, <1>4, <1>6 DEF Exceeded
<1>8. EstimateCost(j, p) \in Nat
  BY BudgetOfType, EstimateType
<1>9. r.cap \in Nat
  BY <1>1 DEF CapsOf, BudgetPolicy, Rule, Cap
<1> HIDE DEF p
<1> QED BY <1>3, <1>5, <1>7, <1>8, <1>9, SMT DEF p

LEMMA CapsType ==
  ASSUME TypeOK, NEW r \in CapsOf(operator.budget)
  PROVE  r.account \in Account /\ r.cap \in Nat
<1>1. operator.budget \in BudgetPolicy
  BY DeliveryAssumption DEF TypeOK, Operator
<1> QED BY <1>1 DEF CapsOf, BudgetPolicy, Rule, Cap

LEMMA InitCaps == Init /\ TypeOK => DeliveryWithinCaps
BY CapsType, SMT DEF Init, DeliveryWithinCaps, Nothing

LEMMA NextCaps == TypeOK /\ TypeOK' /\ DeliveryWithinCaps /\ [Next]_vars => DeliveryWithinCaps'
<1> SUFFICES ASSUME TypeOK, TypeOK', DeliveryWithinCaps, [Next]_vars,
                    operator'.budget.mode = "enforce",
                    NEW h \in Handler, NEW r \in CapsOf(operator'.budget)
             PROVE  reserved'[h][r.account] <= r.cap
  BY DEF DeliveryWithinCaps
<1>1. operator' = operator
  BY DEF Next, Process, Arrive, LoadConfig, ConfigFails, ResolveActor, FindComment,
         CreateComment, LoadBudgetPolicy, Snapshot, Evaluate, EndBudget, WorkerRecords,
         PeriodEnds, vars
<1>2. reserved[h][r.account] <= r.cap
  BY <1>1 DEF DeliveryWithinCaps
<1>3. ASSUME NEW g \in Handler, Evaluate(g) PROVE reserved'[h][r.account] <= r.cap
  <2>1. CASE reserved'[h] = reserved[h]
    BY <1>2, <2>1
  <2>2. CASE reserved'[h] # reserved[h]
    <3>1. /\ BudgetAllows(current[g], BudgetOf(g), WithReservations(snapshot[g], reserved[g]))
          /\ reserved' = [reserved EXCEPT ![g] = Reserve(@, current[g], BudgetOf(g))]
      BY <1>3, <2>2 DEF Evaluate
    <3>2. g = h /\ reserved'[h] = Reserve(reserved[h], current[h], BudgetOf(h))
      BY <2>2, <3>1 DEF TypeOK
    <3>3. current[h] \in Job
      BY <1>3, <3>2 DEF Evaluate, TypeOK
    <3>4. r.account \in Account
      BY <1>1, CapsType
    <3>5. reserved'[h][r.account] = reserved[h][r.account]
            + (IF r.account \in AccountsOf[current[h]]
               THEN EstimateCost(current[h], BudgetOf(h)) ELSE 0)
      BY <3>2, <3>4 DEF Reserve
    <3>6. CASE r.account \in AccountsOf[current[h]]
      BY <1>1, <3>1, <3>2, <3>3, <3>4, <3>5, <3>6, AdmittedFits
    <3>7. CASE r.account \notin AccountsOf[current[h]]
      <4>1. reserved[h][r.account] \in Nat
        BY <3>4 DEF TypeOK
      <4> QED BY <1>2, <3>5, <3>7, <4>1
    <3> QED BY <3>6, <3>7
  <2> QED BY <2>1, <2>2
<1>4. CASE reserved' = reserved
  BY <1>2, <1>4
<1> QED
  BY <1>3, <1>4 DEF Next, Process, Arrive, LoadConfig, ConfigFails, ResolveActor,
    FindComment, CreateComment, LoadBudgetPolicy, Snapshot, EndBudget, WorkerRecords,
    PeriodEnds, handlerVars, vars

\* One delivery stays within every cap the operator enforces, whatever the
\* repository's config file and however deliveries overlap.
THEOREM CapsHoldPerDelivery == Spec => []DeliveryWithinCaps
<1>1. Spec => []TypeOK
  BY AdmissionTypes
<1>2. Init /\ TypeOK => DeliveryWithinCaps
  BY InitCaps
<1>3. TypeOK /\ TypeOK' /\ DeliveryWithinCaps /\ [Next]_vars => DeliveryWithinCaps'
  BY NextCaps
<1> QED BY <1>1, <1>2, <1>3, PTL DEF Spec

-----------------------------------------------------------------------------
(* What is admitted was selected and admitted under the merged policy.     *)

Early == {"idle", "config", "actor"}

\* The jobs a handler may choose from, once its actor is resolved.
Selected(h) == RuntimeControlJobs(JobsOf(EventOf(h), config[h]), operator)

\* The handler passed admission and the limit of jobs.
Accepted(h) ==
  /\ Admitted(EventOf(h), config[h], actor[h])
  /\ ~TooManyJobs(JobsOf(EventOf(h), config[h]),
                  MergeMaxJobs(operator.maxJobs, config[h].maxJobs))

\* The jobs a handler still has to evaluate, evaluates, or has admitted.
InHand(h) ==
  todo[h] \cup admitted[h] \cup (IF at[h] = "evaluate" THEN {current[h]} ELSE {})

\* The jobs in hand are chosen when the actor is resolved, from a config
\* and an actor that do not change afterwards.
JobsAreSelected ==
  \A h \in Handler :
    /\ at[h] \in Early => InHand(h) = {}
    /\ InHand(h) \subseteq Selected(h)
    /\ InHand(h) # {} => Accepted(h)

LEMMA InitSelected == Init => JobsAreSelected
BY DEF Init, JobsAreSelected, InHand, Early

\* A step that leaves the policies, the event and what a handler has loaded
\* alone, and takes no new job in hand.
LEMMA KeepsSelected ==
  ASSUME JobsAreSelected, NEW h \in Handler,
         operator' = operator, event' = event,
         config'[h] = config[h], actor'[h] = actor[h],
         InHand(h)' \subseteq InHand(h),
         at'[h] \in Early => at[h] \in Early
  PROVE  /\ at'[h] \in Early => InHand(h)' = {}
         /\ InHand(h)' \subseteq Selected(h)'
         /\ InHand(h)' # {} => Accepted(h)'
<1>1. EventOf(h)' = EventOf(h)
  BY DEF EventOf
<1>2. JobsOf(EventOf(h), config[h])' = JobsOf(EventOf(h), config[h])
  BY <1>1 DEF JobsOf, KindsOf
<1>3. Selected(h)' = Selected(h)
  BY <1>2 DEF Selected
<1>4. Accepted(h)' = Accepted(h)
  BY <1>1, <1>2 DEF Accepted, Admitted
<1> QED BY <1>3, <1>4 DEF JobsAreSelected

LEMMA NextSelected == TypeOK /\ JobsAreSelected /\ [Next]_vars => JobsAreSelected'
<1> SUFFICES ASSUME TypeOK, JobsAreSelected, [Next]_vars, NEW h \in Handler
             PROVE  /\ at'[h] \in Early => InHand(h)' = {}
                    /\ InHand(h)' \subseteq Selected(h)'
                    /\ InHand(h)' # {} => Accepted(h)'
  BY DEF JobsAreSelected
<1> USE DEF handlerVars, spendVars, commentVars
\* What h has in hand comes from JobsAreSelected; another handler's step
\* leaves all that concerns h alone.
<1>1. ASSUME operator' = operator, event' = event, config'[h] = config[h],
             actor'[h] = actor[h], at'[h] = at[h], todo'[h] = todo[h],
             current'[h] = current[h], admitted'[h] = admitted[h]
      PROVE  /\ at'[h] \in Early => InHand(h)' = {}
             /\ InHand(h)' \subseteq Selected(h)'
             /\ InHand(h)' # {} => Accepted(h)'
  <2>1. InHand(h)' \subseteq InHand(h)
    BY <1>1 DEF InHand
  <2> QED BY <1>1, <2>1, KeepsSelected
<1>2. ASSUME NEW g \in Handler, Arrive(g) PROVE
             /\ at'[h] \in Early => InHand(h)' = {}
             /\ InHand(h)' \subseteq Selected(h)'
             /\ InHand(h)' # {} => Accepted(h)'
  <2>1. InHand(h)' \subseteq InHand(h) /\ (at'[h] \in Early => at[h] \in Early)
    BY <1>2 DEF Arrive, Goes, TypeOK, InHand, Early
  <2> QED BY <1>2, <2>1, KeepsSelected DEF Arrive
<1>3. ASSUME NEW g \in Handler, LoadConfig(g) PROVE
             /\ at'[h] \in Early => InHand(h)' = {}
             /\ InHand(h)' \subseteq Selected(h)'
             /\ InHand(h)' # {} => Accepted(h)'
  <2>1. CASE g = h
    <3>1. InHand(h) = {} /\ at[h] # "evaluate"
      BY <1>3, <2>1 DEF JobsAreSelected, LoadConfig, Early
    <3>2. at'[h] \in {"done", "actor"}
      BY <1>3, <2>1 DEF LoadConfig, Goes, TypeOK
    <3>3. InHand(h)' = {}
      BY <1>3, <3>1, <3>2 DEF InHand, LoadConfig
    <3> QED BY <3>3
  <2>2. CASE g # h
    <3>1. at'[h] = at[h] /\ config'[h] = config[h]
      BY <1>3, <2>2 DEF LoadConfig, Goes, TypeOK
    <3> QED BY <1>3, <3>1, <1>1 DEF LoadConfig
  <2> QED BY <2>1, <2>2
<1>4. ASSUME NEW g \in Handler, ConfigFails(g) PROVE
             /\ at'[h] \in Early => InHand(h)' = {}
             /\ InHand(h)' \subseteq Selected(h)'
             /\ InHand(h)' # {} => Accepted(h)'
  <2>1. InHand(h)' \subseteq InHand(h) /\ (at'[h] \in Early => at[h] \in Early)
    BY <1>4 DEF ConfigFails, Goes, TypeOK, InHand, Early
  <2> QED BY <1>4, <2>1, KeepsSelected DEF ConfigFails
<1>5. ASSUME NEW g \in Handler, ResolveActor(g) PROVE
             /\ at'[h] \in Early => InHand(h)' = {}
             /\ InHand(h)' \subseteq Selected(h)'
             /\ InHand(h)' # {} => Accepted(h)'
  <2>1. CASE g = h
    <3>1. PICK a \in Actors \cup (IF Faults THEN {NoActor} ELSE {}) :
            /\ actor' = [actor EXCEPT ![h] = a]
            /\ at' = [at EXCEPT ![h] = AfterActor(h, a)]
            /\ todo' = [todo EXCEPT ![h] = IF AfterActor(h, a) = "policy"
                                           THEN Selected(h) ELSE {}]
      BY <1>5, <2>1 DEF ResolveActor, Goes, Selected
    <3>2. actor'[h] = a /\ at'[h] = AfterActor(h, a)
          /\ todo'[h] = IF AfterActor(h, a) = "policy" THEN Selected(h) ELSE {}
      BY <3>1 DEF TypeOK
    <3>3. admitted'[h] = {}
      BY <1>5, <2>1 DEF ResolveActor, JobsAreSelected, Early, InHand
    <3>4. AfterActor(h, a) \notin Early \cup {"evaluate"}
      BY DEF AfterActor, Early
    <3>5. InHand(h)' = todo'[h]
      BY <3>2, <3>3, <3>4 DEF InHand
    <3>6. /\ EventOf(h)' = EventOf(h)
          /\ JobsOf(EventOf(h), config[h])' = JobsOf(EventOf(h), config[h])
          /\ Selected(h)' = Selected(h)
      BY <1>5 DEF ResolveActor, EventOf, JobsOf, KindsOf, Selected
    <3>7. AfterActor(h, a) = "policy" => Accepted(h)'
      <4>1. AfterActor(h, a) = "policy" =>
              /\ Admitted(EventOf(h), config[h], a)
              /\ ~TooManyJobs(JobsOf(EventOf(h), config[h]),
                              MergeMaxJobs(operator.maxJobs, config[h].maxJobs))
        BY DEF AfterActor
      <4> QED BY <1>5, <3>2, <3>6, <4>1 DEF ResolveActor, Accepted, Admitted
    <3> QED BY <3>2, <3>4, <3>5, <3>6, <3>7
  <2>2. CASE g # h
    <3>1. at'[h] = at[h] /\ actor'[h] = actor[h] /\ todo'[h] = todo[h]
      BY <1>5, <2>2 DEF ResolveActor, Goes, TypeOK
    <3> QED BY <1>5, <3>1, <1>1 DEF ResolveActor
  <2> QED BY <2>1, <2>2
<1>6. ASSUME NEW g \in Handler,
             FindComment(g) \/ CreateComment(g) \/ LoadBudgetPolicy(g) \/ EndBudget(g)
      PROVE  /\ at'[h] \in Early => InHand(h)' = {}
             /\ InHand(h)' \subseteq Selected(h)'
             /\ InHand(h)' # {} => Accepted(h)'
  <2>1. PICK s \in {"done", "create", "snapshot", "failed"} : at' = [at EXCEPT ![g] = s]
    BY <1>6 DEF FindComment, CreateComment, LoadBudgetPolicy, EndBudget, Goes
  <2>2. UNCHANGED <<operator, event, config, actor, todo, current, admitted>>
    BY <1>6 DEF FindComment, CreateComment, LoadBudgetPolicy, EndBudget
  <2>3. InHand(h)' \subseteq InHand(h) /\ (at'[h] \in Early => at[h] \in Early)
    BY <2>1, <2>2 DEF TypeOK, InHand, Early
  <2> QED BY <2>2, <2>3, KeepsSelected
<1>7. ASSUME NEW g \in Handler, Snapshot(g) PROVE
             /\ at'[h] \in Early => InHand(h)' = {}
             /\ InHand(h)' \subseteq Selected(h)'
             /\ InHand(h)' # {} => Accepted(h)'
  <2>1. PICK j \in todo[g] : /\ current' = [current EXCEPT ![g] = j]
                             /\ todo' = [todo EXCEPT ![g] = @ \ {j}]
    BY <1>7 DEF Snapshot
  <2>2. PICK s \in {"evaluate", "failed"} : at' = [at EXCEPT ![g] = s]
    BY <1>7 DEF Snapshot, Goes
  <2>3. InHand(h)' \subseteq InHand(h)
    BY <1>7, <2>1, <2>2 DEF TypeOK, InHand, Snapshot
  <2>4. at'[h] \in Early => at[h] \in Early
    BY <2>2 DEF TypeOK, Early
  <2> QED BY <1>7, <2>3, <2>4, KeepsSelected DEF Snapshot
<1>8. ASSUME NEW g \in Handler, Evaluate(g) PROVE
             /\ at'[h] \in Early => InHand(h)' = {}
             /\ InHand(h)' \subseteq Selected(h)'
             /\ InHand(h)' # {} => Accepted(h)'
  <2>1. PICK s \in {"snapshot", "events"} : at' = [at EXCEPT ![g] = s]
    BY <1>8 DEF Evaluate, Goes
  <2>2. \/ admitted' = admitted
        \/ admitted' = [admitted EXCEPT ![g] = @ \cup {current[g]}]
    BY <1>8 DEF Evaluate
  <2>3. InHand(h)' \subseteq InHand(h)
    BY <1>8, <2>1, <2>2 DEF TypeOK, InHand, Evaluate
  <2>4. at'[h] \in Early => at[h] \in Early
    BY <2>1 DEF TypeOK, Early
  <2> QED BY <1>8, <2>3, <2>4, KeepsSelected DEF Evaluate
<1>9. ASSUME NEW g \in Handler, NEW j \in Job, WorkerRecords(g, j) PROVE
             /\ at'[h] \in Early => InHand(h)' = {}
             /\ InHand(h)' \subseteq Selected(h)'
             /\ InHand(h)' # {} => Accepted(h)'
  BY <1>9, <1>1 DEF WorkerRecords
<1>10. ASSUME NEW a \in Account, PeriodEnds(a) PROVE
             /\ at'[h] \in Early => InHand(h)' = {}
             /\ InHand(h)' \subseteq Selected(h)'
             /\ InHand(h)' # {} => Accepted(h)'
  BY <1>10, <1>1 DEF PeriodEnds
<1>11. CASE UNCHANGED vars
  BY <1>11, <1>1 DEF vars
<1> QED
  BY <1>2, <1>3, <1>4, <1>5, <1>6, <1>7, <1>8, <1>9, <1>10, <1>11 DEF Next, Process

\* A selected job of an accepted delivery is one the operator allows.
LEMMA SelectedIsAllowed ==
  ASSUME TypeOK, NEW h \in Handler, Accepted(h), NEW j \in Selected(h)
  PROVE  OperatorAllows(h, j)
<1>1. /\ operator.admission \in AdmissionPolicy
      /\ config[h].admission \in AdmissionPolicy
      /\ EventOf(h) \in Event
      /\ actor[h] \in Actor
  BY DeliveryAssumption DEF TypeOK, Operator, Config, EventOf
<1>2. Admits(EventOf(h), actor[h],
             MergeAdmission(operator.admission, config[h].admission), operator.authors)
  BY DEF Accepted, Admitted
<1>3. Admits(EventOf(h), actor[h],
             [operator.admission EXCEPT !.trusted = @ \cup config[h].admission.trusted],
             operator.authors)
  BY <1>1, <1>2, MergedAdmissionIsStricter
<1>4. /\ j \in JobsOf(EventOf(h), config[h])
      /\ j.lane \notin operator.disabledLanes
      /\ j.kind \notin operator.disabledKinds
  BY DEF Selected, RuntimeControlJobs
<1>5. /\ j.kind \in KindsOf(EventOf(h), config[h])
      /\ j.lane \in LanesForReviewKind(j.kind,
           LET lanes == MergeLanes(operator.lanes, config[h].lanes)
           IN  IF lanes = {} THEN operator.lanes ELSE lanes)
  BY <1>4 DEF JobsOf, CandidateJobs
<1>6. operator.enabled
  BY <1>5 DEF KindsOf, ControlledKinds
<1>7. j.lane \in LanesForReviewKind(j.kind, operator.lanes)
  BY <1>5 DEF LanesForReviewKind, MergeLanes
<1> QED BY <1>3, <1>4, <1>6, <1>7 DEF OperatorAllows

\* An accepted delivery has no more jobs than the operator's limit.
LEMMA SelectedIsFew ==
  ASSUME TypeOK, NEW h \in Handler, Accepted(h), NEW S \in SUBSET Selected(h)
  PROVE  Cardinality(S) <= operator.maxJobs
<1> DEFINE J == JobsOf(EventOf(h), config[h])
<1>1. J \in SUBSET Job /\ S \in SUBSET J
  BY DEF JobsOf, CandidateJobs, Selected, RuntimeControlJobs
<1>2. IsFiniteSet(J) /\ Cardinality(J) \in Nat
  BY <1>1, PolicyAssumption, FS_Subset, FS_CardinalityType
<1>3. Cardinality(S) <= Cardinality(J) /\ Cardinality(S) \in Nat
  BY <1>1, <1>2, FS_Subset, FS_CardinalityType
<1>4. operator.maxJobs \in Nat /\ config[h].maxJobs \in Nat
  BY DeliveryAssumption DEF TypeOK, Operator, Config
<1>5. MergeMaxJobs(operator.maxJobs, config[h].maxJobs) \in Nat
      /\ MergeMaxJobs(operator.maxJobs, config[h].maxJobs) <= operator.maxJobs
  BY <1>4, SMT DEF MergeMaxJobs, Lower
<1>6. ~(Cardinality(J) > MergeMaxJobs(operator.maxJobs, config[h].maxJobs))
  BY DEF Accepted, TooManyJobs
<1> HIDE DEF J
<1> QED BY <1>2, <1>3, <1>4, <1>5, <1>6, SMT

LEMMA SelectedTightens == TypeOK /\ JobsAreSelected => ConfigOnlyTightens
<1> SUFFICES ASSUME TypeOK, JobsAreSelected, NEW h \in Handler
             PROVE  /\ \A j \in admitted[h] : OperatorAllows(h, j)
                    /\ Cardinality(admitted[h]) <= operator.maxJobs
  BY DEF ConfigOnlyTightens
<1>1. admitted[h] \subseteq Selected(h)
  BY DEF JobsAreSelected, InHand
<1>2. CASE admitted[h] = {}
  <2>1. Cardinality(admitted[h]) = 0
    BY <1>2, FS_EmptySet
  <2>2. operator.maxJobs \in Nat
    BY DeliveryAssumption DEF TypeOK, Operator
  <2> QED BY <1>2, <2>1, <2>2
<1>3. CASE admitted[h] # {}
  <2>1. Accepted(h)
    BY <1>3 DEF JobsAreSelected, InHand
  <2> QED BY <1>1, <2>1, SelectedIsAllowed, SelectedIsFew
<1> QED BY <1>2, <1>3

\* No config file admits what the operator's settings, with the file's list
\* of trusted users, would not.
THEOREM RepositoryConfigOnlyTightens == Spec => []ConfigOnlyTightens
<1>1. Spec => []TypeOK
  BY AdmissionTypes
<1>2. Init => JobsAreSelected
  BY InitSelected
<1>3. TypeOK /\ JobsAreSelected /\ [Next]_vars => JobsAreSelected'
  BY NextSelected
<1>4. TypeOK /\ JobsAreSelected => ConfigOnlyTightens
  BY SelectedTightens
<1> QED BY <1>1, <1>2, <1>3, <1>4, PTL DEF Spec

-----------------------------------------------------------------------------
(* Failure comments.                                                       *)

\* While nobody raced for a delivery, it has one comment, or none and at
\* most one handler that is about to post it.
CommentsAreDue ==
  \A d \in Delivery \ raced :
    /\ comments[d] <= 1
    /\ \A h \in Handler : at[h] = "create" /\ DeliveryOf[h] = d =>
         /\ comments[d] = 0
         /\ \A g \in Handler \ {h} : ~(at[g] = "create" /\ DeliveryOf[g] = d)

LEMMA InitComments == Init => CommentsAreDue
BY DEF Init, CommentsAreDue

LEMMA NextComments == TypeOK /\ CommentsAreDue /\ [Next]_vars => CommentsAreDue'
<1> SUFFICES ASSUME TypeOK, CommentsAreDue, [Next]_vars PROVE CommentsAreDue'
  OBVIOUS
<1> USE DEF handlerVars, spendVars, commentVars
<1>0. /\ at \in [Handler -> Stage] /\ comments \in [Delivery -> Nat]
      /\ \A h \in Handler : DeliveryOf[h] \in Delivery
  BY DeliveryAssumption DEF TypeOK
\* Enough: no comment is written and no handler gets to "create".
<1>1. ASSUME UNCHANGED <<comments, raced>>,
             \A h \in Handler : at'[h] = "create" => at[h] = "create"
      PROVE  CommentsAreDue'
  BY <1>1 DEF CommentsAreDue
<1>2. ASSUME NEW h \in Handler, FindComment(h) PROVE CommentsAreDue'
  <2>1. UNCHANGED comments /\ at' = [at EXCEPT ![h] = IF comments[DeliveryOf[h]] > 0
                                                    THEN "done" ELSE "create"]
    BY <1>2 DEF FindComment, Goes
  <2>2. /\ raced \subseteq raced'
        /\ \A g \in Handler \ {h} :
             at[g] = "create" /\ DeliveryOf[g] = DeliveryOf[h] => DeliveryOf[h] \in raced'
    BY <1>2 DEF FindComment
  <2>3. \A g \in Handler \ {h} : at'[g] = at[g]
    BY <1>0, <2>1
  <2>4. at'[h] = "create" => comments[DeliveryOf[h]] = 0
    BY <1>0, <2>1
  <2> QED BY <2>1, <2>2, <2>3, <2>4 DEF CommentsAreDue
<1>3. ASSUME NEW h \in Handler, CreateComment(h) PROVE CommentsAreDue'
  <2>1. PICK n \in {0, 1, 2} : /\ comments' = [comments EXCEPT ![DeliveryOf[h]] = @ + n]
                              /\ raced' = IF n = 2 THEN raced \cup {DeliveryOf[h]} ELSE raced
    BY <1>3 DEF CreateComment
  <2>2. at[h] = "create" /\ at' = [at EXCEPT ![h] = "done"]
    BY <1>3 DEF CreateComment, Goes
  <2>3. at'[h] = "done" /\ \A g \in Handler \ {h} : at'[g] = at[g]
    BY <1>0, <2>2
  <2>4. PICK d \in Delivery : d = DeliveryOf[h]
    BY <1>0
  <2>5. comments'[d] = comments[d] + n /\ \A e \in Delivery \ {d} : comments'[e] = comments[e]
    BY <1>0, <2>1, <2>4
  <2>6. d \notin raced' => n \in {0, 1} /\ d \notin raced
    BY <2>1, <2>4
  <2>7. raced \subseteq raced'
    BY <2>1
  <2>8. ASSUME d \notin raced'
        PROVE  /\ comments'[d] <= 1
               /\ \A g \in Handler : ~(at'[g] = "create" /\ DeliveryOf[g] = d)
    <3>1. comments[d] = 0 /\ \A g \in Handler \ {h} : ~(at[g] = "create" /\ DeliveryOf[g] = d)
      BY <2>2, <2>4, <2>6, <2>8 DEF CommentsAreDue
    <3> QED BY <2>3, <2>5, <2>6, <2>8, <3>1
  <2>9. ASSUME NEW e \in Delivery \ {d}, e \notin raced'
        PROVE  /\ comments'[e] <= 1
               /\ \A f \in Handler : at'[f] = "create" /\ DeliveryOf[f] = e =>
                    /\ comments'[e] = 0
                    /\ \A g \in Handler \ {f} : ~(at'[g] = "create" /\ DeliveryOf[g] = e)
    <3>1. e \notin raced
      BY <2>7, <2>9
    <3> QED BY <2>3, <2>4, <2>5, <3>1 DEF CommentsAreDue
  <2> QED BY <2>8, <2>9 DEF CommentsAreDue
<1>4. ASSUME NEW h \in Handler,
             \/ Arrive(h) \/ LoadConfig(h) \/ ConfigFails(h) \/ LoadBudgetPolicy(h)
             \/ Snapshot(h) \/ Evaluate(h) \/ EndBudget(h)
      PROVE  CommentsAreDue'
  <2>1. UNCHANGED <<comments, raced>>
    BY <1>4 DEF Arrive, LoadConfig, ConfigFails, LoadBudgetPolicy, Snapshot, Evaluate, EndBudget
  <2>2. \E s \in Stage \ {"create"} : at' = [at EXCEPT ![h] = s]
    BY <1>4 DEF Arrive, LoadConfig, ConfigFails, LoadBudgetPolicy, Snapshot, Evaluate,
                EndBudget, Goes, Stage
  <2> QED BY <1>0, <1>1, <2>1, <2>2
<1>5. ASSUME NEW h \in Handler, ResolveActor(h) PROVE CommentsAreDue'
  <2>1. PICK a : at' = [at EXCEPT ![h] = AfterActor(h, a)]
    BY <1>5 DEF ResolveActor, Goes
  <2>2. AfterActor(h, a) # "create"
    BY DEF AfterActor
  <2> QED BY <1>0, <1>1, <1>5, <2>1, <2>2 DEF ResolveActor
<1>6. CASE UNCHANGED <<at, comments, raced>>
  BY <1>1, <1>6
<1>7. ASSUME NEW h \in Handler, NEW j \in Job, WorkerRecords(h, j)
      PROVE  UNCHANGED <<at, comments, raced>>
  BY <1>7 DEF WorkerRecords
<1>8. ASSUME NEW a \in Account, PeriodEnds(a) PROVE UNCHANGED <<at, comments, raced>>
  BY <1>8 DEF PeriodEnds
<1>9. CASE UNCHANGED vars
  BY <1>6, <1>9 DEF vars
<1> QED BY <1>2, <1>3, <1>4, <1>5, <1>6, <1>7, <1>8, <1>9 DEF Next, Process

\* A failed command is answered once, however often its delivery is
\* processed, unless two handlers raced for the answer or a POST was repeated.
THEOREM FailureIsAnsweredOnce == Spec => []OneFailureComment
<1>1. CommentsAreDue => OneFailureComment
  BY DEF CommentsAreDue, OneFailureComment
<1> QED BY <1>1, AdmissionTypes, InitComments, NextComments, PTL DEF Spec

-----------------------------------------------------------------------------
(* Caps across deliveries.                                                 *)

Working == {h \in Handler : at[h] \in Budgeting}

\* What account a is charged by every job, and for every reservation.
Charge(a)      == [r \in Handler \X Job |-> CostIn(a, r[2], r[1])]
Costs(a, h)    == [j \in Job |-> CostIn(a, j, h)]
Reservation(a) == [h \in Handler |-> reserved[h][a]]

\* A handler that holds a snapshot, or what it has admitted with one.
Engaged(h) ==
  \/ at[h] \in {"evaluate", "events"}
  \/ at[h] = "snapshot" /\ reserved[h] # Nothing

\* Reservations are made in budgeting, from jobs that cost no more, and jobs
\* run when their handler is done.
ReservationsCover ==
  /\ IsFiniteSet(running) /\ IsFiniteSet(Working)
  /\ \A r \in running : at[r[1]] = "done"
  /\ \A h \in Handler :
       at[h] \notin Budgeting \cup {"done", "failed"} =>
         reserved[h] = Nothing /\ admitted[h] = {}
  /\ \A h \in Handler, a \in Account :
       at[h] \in Budgeting =>
         SumOf(Costs(a, h), admitted[h]) <= reserved[h][a]

\* While no snapshot has missed anything, one handler at a time is between
\* its snapshot and the end of its budgeting, nothing runs meanwhile, and
\* what it read is no less than what is spent.
SnapshotsSuffice ==
  ~unseen =>
    \A h \in Handler :
      /\ Engaged(h) => running = {} /\ \A g \in Handler \ {h} : ~Engaged(g)
      /\ at[h] = "evaluate" =>
           \/ snapshot[h] = Unavailable
           \/ \A a \in Account : spent[a] <= snapshot[h][a]

LEMMA ChargeType ==
  ASSUME TypeOK, NEW h \in Handler, NEW j \in Job, NEW a \in Account
  PROVE  CostIn(a, j, h) \in Nat
BY BudgetOfType, EstimateType DEF CostIn

\* The sums of the property, as sums of functions.
SumsHold ==
  TypeOK /\ IsFiniteSet(running) /\ IsFiniteSet(Working) =>
    \A a \in Account :
      Committed(a) = spent[a] + SumOf(Charge(a), running) + SumOf(Reservation(a), Working)

LEMMA CommittedSums == SumsHold
<1> SUFFICES ASSUME NEW a \in Account, TypeOK, IsFiniteSet(running), IsFiniteSet(Working)
             PROVE  Committed(a) = spent[a] + SumOf(Charge(a), running)
                                            + SumOf(Reservation(a), Working)
  BY DEF SumsHold
<1>1. MapThenSumSet(LAMBDA r : CostIn(a, r[2], r[1]), running) = SumOf(Charge(a), running)
  <2> DEFINE h == CHOOSE iter : iter = [s \in SUBSET running |-> IF s = {} THEN 0
                ELSE CostIn(a, (CHOOSE x \in s : TRUE)[2], (CHOOSE x \in s : TRUE)[1])
                     + iter[s \ {CHOOSE x \in s : TRUE}]]
  <2>1. MapThenSumSet(LAMBDA r : CostIn(a, r[2], r[1]), running) = h[running]
    BY DEF MapThenSumSet, MapThenFoldSet
  <2>2. PICK g : IsTally(g, Charge(a), running)
    BY TallyExists
  <2>3. ASSUME NEW s \in SUBSET running, s # {}
        PROVE  Charge(a)[Pick(s)] = CostIn(a, (CHOOSE x \in s : TRUE)[2], (CHOOSE x \in s : TRUE)[1])
    <3>1. Pick(s) \in s /\ Pick(s) \in Handler \X Job
      BY <2>3 DEF Pick, TypeOK
    <3> QED BY <3>1 DEF Charge, Pick
  <2>4. g = [s \in SUBSET running |-> IF s = {} THEN 0
               ELSE CostIn(a, (CHOOSE x \in s : TRUE)[2], (CHOOSE x \in s : TRUE)[1])
                    + g[s \ {CHOOSE x \in s : TRUE}]]
    BY <2>2, <2>3 DEF IsTally, Pick
  <2>5. h = [s \in SUBSET running |-> IF s = {} THEN 0
               ELSE CostIn(a, (CHOOSE x \in s : TRUE)[2], (CHOOSE x \in s : TRUE)[1])
                    + h[s \ {CHOOSE x \in s : TRUE}]]
    BY <2>4
  <2> HIDE DEF h
  <2>6. IsTally(h, Charge(a), running)
    BY <2>3, <2>5 DEF IsTally, Pick
  <2> QED BY <2>1, <2>6, SumIsTally
<1>2. MapThenSumSet(LAMBDA h : reserved[h][a], {h \in Handler : at[h] \in Budgeting})
      = SumOf(Reservation(a), Working)
  <2> DEFINE h == CHOOSE iter : iter = [s \in SUBSET Working |-> IF s = {} THEN 0
                ELSE reserved[CHOOSE x \in s : TRUE][a] + iter[s \ {CHOOSE x \in s : TRUE}]]
  <2>1. MapThenSumSet(LAMBDA g : reserved[g][a], Working) = h[Working]
    BY DEF MapThenSumSet, MapThenFoldSet
  <2>2. PICK g : IsTally(g, Reservation(a), Working)
    BY TallyExists
  <2>3. ASSUME NEW s \in SUBSET Working, s # {}
        PROVE  Reservation(a)[Pick(s)] = reserved[CHOOSE x \in s : TRUE][a]
    <3>1. Pick(s) \in s /\ Pick(s) \in Handler
      BY <2>3 DEF Pick, Working
    <3> QED BY <3>1 DEF Reservation, Pick
  <2>4. g = [s \in SUBSET Working |-> IF s = {} THEN 0
               ELSE reserved[CHOOSE x \in s : TRUE][a] + g[s \ {CHOOSE x \in s : TRUE}]]
    BY <2>2, <2>3 DEF IsTally, Pick
  <2>5. h = [s \in SUBSET Working |-> IF s = {} THEN 0
               ELSE reserved[CHOOSE x \in s : TRUE][a] + h[s \ {CHOOSE x \in s : TRUE}]]
    BY <2>4
  <2> HIDE DEF h
  <2>6. IsTally(h, Reservation(a), Working)
    BY <2>3, <2>5 DEF IsTally, Pick
  <2>7. MapThenSumSet(LAMBDA k : reserved[k][a], Working) = SumOf(Reservation(a), Working)
    BY <2>1, <2>6, SumIsTally
  <2> QED BY <2>7 DEF Working
<1> QED BY <1>1, <1>2 DEF Committed

LEMMA CommittedSumsAfter == SumsHold'
BY CommittedSums, PTL

\* A handler's step leaves what concerns the others, and the settings, alone.
LEMMA OthersStay ==
  ASSUME TypeOK, NEW h \in Handler, Process(h)
  PROVE  /\ operator' = operator
         /\ \A g \in Handler \ {h} :
              /\ at'[g] = at[g] /\ config'[g] = config[g] /\ snapshot'[g] = snapshot[g]
              /\ reserved'[g] = reserved[g] /\ admitted'[g] = admitted[g]
<1> USE DEF handlerVars, spendVars, commentVars, TypeOK, Goes
<1>1. CASE \/ Arrive(h) \/ ConfigFails(h) \/ FindComment(h) \/ CreateComment(h)
           \/ LoadBudgetPolicy(h) \/ EndBudget(h)
  BY <1>1 DEF Arrive, ConfigFails, FindComment, CreateComment, LoadBudgetPolicy, EndBudget
<1>2. CASE LoadConfig(h) \/ ResolveActor(h)
  BY <1>2 DEF LoadConfig, ResolveActor
<1>3. CASE Snapshot(h)
  BY <1>3 DEF Snapshot
<1>4. CASE Evaluate(h)
  BY <1>4 DEF Evaluate
<1> QED BY <1>1, <1>2, <1>3, <1>4 DEF Process

LEMMA CostsStay ==
  ASSUME NEW h \in Handler, NEW a \in Account, operator' = operator, config'[h] = config[h]
  PROVE  Costs(a, h)' = Costs(a, h) /\ \A j \in Job : CostIn(a, j, h)' = CostIn(a, j, h)
BY DEF Costs, CostIn, BudgetOf

LEMMA InitCover == Init => ReservationsCover /\ SnapshotsSuffice
<1> SUFFICES ASSUME Init PROVE ReservationsCover /\ SnapshotsSuffice
  OBVIOUS
<1>1. running = {} /\ Working = {} /\ \A h \in Handler : at[h] = "idle"
  BY DEF Init, Working, Budgeting
<1> QED BY <1>1, FS_EmptySet DEF Init, ReservationsCover, SnapshotsSuffice, Engaged, Budgeting

LEMMA NextCover == TypeOK /\ TypeOK' /\ ReservationsCover /\ [Next]_vars => ReservationsCover'
<1> SUFFICES ASSUME TypeOK, TypeOK', ReservationsCover, [Next]_vars PROVE ReservationsCover'
  OBVIOUS
<1> USE DEF handlerVars, spendVars, commentVars
<1>0. /\ at \in [Handler -> Stage] /\ admitted \in [Handler -> SUBSET Job]
      /\ running \subseteq Handler \X Job
  BY DEF TypeOK
\* What the invariant says of one handler.
<1> DEFINE Covered(h) ==
             /\ at[h] \notin Budgeting \cup {"done", "failed"} =>
                  reserved[h] = Nothing /\ admitted[h] = {}
             /\ \A a \in Account : at[h] \in Budgeting =>
                  SumOf(Costs(a, h), admitted[h]) <= reserved[h][a]
<1>a. \A h \in Handler : Covered(h)
  BY DEF ReservationsCover
<1>b. ASSUME NEW h \in Handler, operator' = operator, at'[h] = at[h], config'[h] = config[h],
             reserved'[h] = reserved[h], admitted'[h] = admitted[h]
      PROVE  Covered(h)'
  BY <1>a, <1>b, CostsStay
<1>c. ASSUME NEW h \in Handler, at'[h] \in {"done", "failed"} PROVE Covered(h)'
  BY <1>c DEF Budgeting
<1> HIDE DEF Covered
\* Enough: one handler's step that keeps what concerns this handler and
\* leaves it done when it adds to what runs.
<1>d. ASSUME NEW h \in Handler, Process(h), Covered(h)',
             \/ at'[h] = "done"
             \/ running' = running /\ at[h] # "done"
      PROVE  ReservationsCover'
  <2>1. /\ operator' = operator
        /\ \A g \in Handler \ {h} :
             /\ at'[g] = at[g] /\ config'[g] = config[g]
             /\ reserved'[g] = reserved[g] /\ admitted'[g] = admitted[g]
    BY <1>d, OthersStay
  <2>2. \A g \in Handler : Covered(g)'
    BY <1>b, <1>d, <2>1
  <2>3. Working' \subseteq Working \cup {h}
    BY <2>1 DEF Working
  <2>4. IsFiniteSet(Working')
    BY <2>3, FS_AddElement, FS_Subset DEF ReservationsCover
  <2>5. running' \subseteq running \cup ({h} \X Job)
    BY <1>0, <1>d
       DEF Process, Arrive, LoadConfig, ConfigFails, ResolveActor, FindComment, CreateComment,
           LoadBudgetPolicy, Snapshot, Evaluate, EndBudget
  <2>6. IsFiniteSet(running \cup ({h} \X Job))
    BY PolicyAssumption, FS_Singleton, FS_Product, FS_Union DEF ReservationsCover
  <2>7. IsFiniteSet(running')
    BY <2>5, <2>6, FS_Subset
  <2>8. \A r \in running' : at'[r[1]] = "done"
    <3> SUFFICES ASSUME NEW r \in running' PROVE at'[r[1]] = "done"
      OBVIOUS
    <3>1. r[1] \in Handler
      BY DEF TypeOK
    <3>2. CASE r[1] = h
      BY <1>d, <3>2 DEF ReservationsCover
    <3>3. CASE r[1] # h
      BY <2>1, <2>5, <3>1, <3>3 DEF ReservationsCover
    <3> QED BY <3>2, <3>3
  <2> QED BY <2>2, <2>4, <2>7, <2>8 DEF ReservationsCover, Covered
<1>1. ASSUME NEW h \in Handler,
             Arrive(h) \/ LoadConfig(h) \/ ResolveActor(h) \/ FindComment(h)
      PROVE  ReservationsCover'
  <2>1. /\ at[h] \notin Budgeting \cup {"done", "failed"}
        /\ UNCHANGED <<reserved, admitted, running>>
    BY <1>1 DEF Arrive, LoadConfig, ResolveActor, FindComment, Budgeting
  <2>2. \E s \in Stage \ Budgeting : at' = [at EXCEPT ![h] = s]
    BY <1>1 DEF Arrive, LoadConfig, ResolveActor, FindComment, AfterActor, Goes, Stage, Budgeting
  <2>3. at'[h] \notin Budgeting
    BY <1>0, <2>2
  <2>4. Covered(h)'
    BY <1>a, <2>1, <2>3 DEF Covered
  <2> QED BY <1>1, <1>d, <2>1, <2>4 DEF Process
<1>2. ASSUME NEW h \in Handler, ConfigFails(h) \/ CreateComment(h) PROVE ReservationsCover'
  <2>1. at'[h] \in {"done", "failed"} /\ at[h] # "done" /\ UNCHANGED running
    BY <1>0, <1>2 DEF ConfigFails, CreateComment, Goes
  <2> QED BY <1>2, <1>c, <1>d, <2>1 DEF Process
<1>3. ASSUME NEW h \in Handler, LoadBudgetPolicy(h) PROVE ReservationsCover'
  <2>1. /\ at[h] = "policy" /\ at'[h] \in {"snapshot", "failed"}
        /\ UNCHANGED <<reserved, admitted, running>>
    BY <1>0, <1>3 DEF LoadBudgetPolicy, Goes
  <2>2. admitted'[h] = {} /\ \A a \in Account : reserved'[h][a] = 0
    BY <1>a, <2>1 DEF Covered, Budgeting, Nothing
  <2>3. Covered(h)'
    BY <2>1, <2>2, SumOfNothing DEF Covered, Budgeting
  <2> QED BY <1>3, <1>d, <2>1, <2>3 DEF Process
<1>4. ASSUME NEW h \in Handler, Snapshot(h) PROVE ReservationsCover'
  <2>1. /\ at[h] = "snapshot" /\ at'[h] \in {"evaluate", "failed"}
        /\ UNCHANGED <<operator, config, reserved, admitted, running>>
    BY <1>0, <1>4 DEF Snapshot, Goes
  <2>2. Covered(h)'
    BY <1>a, <2>1, CostsStay DEF Covered, Budgeting
  <2> QED BY <1>4, <1>d, <2>1, <2>2 DEF Process
<1>5. ASSUME NEW h \in Handler, Evaluate(h) PROVE ReservationsCover'
  <2>1. /\ at[h] = "evaluate" /\ at'[h] \in {"snapshot", "events"}
        /\ UNCHANGED <<operator, config, running>>
    BY <1>0, <1>5 DEF Evaluate, Goes
  <2>2. ASSUME NEW a \in Account
        PROVE  SumOf(Costs(a, h)', admitted'[h]) <= reserved'[h][a]
    <3>1. Costs(a, h)' = Costs(a, h)
      BY <2>1, CostsStay
    <3>2. SumOf(Costs(a, h), admitted[h]) <= reserved[h][a]
      BY <1>a, <2>1 DEF Covered, Budgeting
    <3>3. CASE UNCHANGED <<admitted, reserved>>
      BY <3>1, <3>2, <3>3
    <3>4. CASE ~UNCHANGED <<admitted, reserved>>
      <4>1. PICK c \in Job : c = current[h]
        BY <2>1 DEF TypeOK
      <4>2. /\ admitted' = [admitted EXCEPT ![h] = @ \cup {c}]
            /\ reserved' = [reserved EXCEPT ![h] = Reserve(@, c, BudgetOf(h))]
        BY <1>5, <3>4, <4>1 DEF Evaluate
      <4>3. /\ admitted'[h] = admitted[h] \cup {c}
            /\ reserved'[h][a] = reserved[h][a] + Costs(a, h)[c]
        BY <4>2 DEF TypeOK, Reserve, Costs, CostIn
      <4>4. \A j \in Job : Costs(a, h)[j] \in Nat
        BY ChargeType DEF Costs
      <4>5. IsFiniteSet(admitted[h]) /\ admitted[h] \subseteq Job
        BY <1>0, PolicyAssumption, FS_Subset
      <4>6. /\ SumOf(Costs(a, h), admitted[h]) \in Nat
            /\ SumOf(Costs(a, h), admitted[h] \cup {c}) \in Nat
            /\ SumOf(Costs(a, h), admitted[h] \cup {c})
                  <= SumOf(Costs(a, h), admitted[h]) + Costs(a, h)[c]
        BY <4>4, <4>5, SumOneMore
      <4>7. reserved[h][a] \in Nat /\ Costs(a, h)[c] \in Nat
        BY <4>4 DEF TypeOK
      <4> QED BY <3>1, <3>2, <4>3, <4>6, <4>7
    <3> QED BY <3>3, <3>4
  <2>3. Covered(h)'
    BY <2>1, <2>2 DEF Covered, Budgeting
  <2> QED BY <1>5, <1>d, <2>1, <2>3 DEF Process
<1>6. ASSUME NEW h \in Handler, EndBudget(h) PROVE ReservationsCover'
  <2>1. /\ at[h] = "events"
        /\ \/ at'[h] = "done"
           \/ at'[h] = "failed" /\ UNCHANGED running
    BY <1>0, <1>6 DEF EndBudget, Goes
  <2> QED BY <1>6, <1>c, <1>d, <2>1 DEF Process
<1>7. CASE UNCHANGED <<operator, handlerVars>> /\ running' \subseteq running
  <2>1. \A h \in Handler : Covered(h)'
    BY <1>b, <1>7
  <2>2. IsFiniteSet(running') /\ Working' = Working /\ \A r \in running' : at'[r[1]] = "done"
    BY <1>7, FS_Subset DEF ReservationsCover, Working
  <2> QED BY <2>1, <2>2 DEF ReservationsCover, Covered
<1>8. ASSUME NEW h \in Handler, NEW j \in Job, WorkerRecords(h, j)
      PROVE  UNCHANGED <<operator, handlerVars>> /\ running' \subseteq running
  BY <1>8 DEF WorkerRecords
<1>9. ASSUME NEW a \in Account, PeriodEnds(a)
      PROVE  UNCHANGED <<operator, handlerVars>> /\ running' \subseteq running
  BY <1>9 DEF PeriodEnds
<1>10. CASE UNCHANGED vars
  BY <1>7, <1>10 DEF vars
<1> QED BY <1>1, <1>2, <1>3, <1>4, <1>5, <1>6, <1>7, <1>8, <1>9, <1>10 DEF Next, Process

LEMMA NextSnapshots ==
  TypeOK /\ TypeOK' /\ ReservationsCover /\ SnapshotsSuffice /\ [Next]_vars
    => SnapshotsSuffice'
<1> SUFFICES ASSUME TypeOK, TypeOK', ReservationsCover, SnapshotsSuffice, [Next]_vars
             PROVE  SnapshotsSuffice'
  OBVIOUS
<1> USE DEF handlerVars, spendVars, commentVars
<1>0. /\ at \in [Handler -> Stage] /\ spent \in [Account -> Nat]
      /\ snapshot \in [Handler -> [Account -> Nat] \cup {Unavailable}]
  BY DEF TypeOK
\* A handler that is not engaged after its step leaves the others as they were.
<1>a. ASSUME NEW h \in Handler, Process(h), ~Engaged(h)', unseen' = unseen, spent' = spent,
             running' = running
      PROVE  SnapshotsSuffice'
  <2>1. \A g \in Handler \ {h} : /\ at'[g] = at[g] /\ snapshot'[g] = snapshot[g]
                                 /\ Engaged(g)' <=> Engaged(g)
    BY <1>a, OthersStay DEF Engaged
  <2> QED BY <1>a, <2>1 DEF SnapshotsSuffice, Engaged
<1>b. ASSUME UNCHANGED <<handlerVars, unseen>>, running' \subseteq running,
             running # {} \/ \A a \in Account : spent'[a] <= spent[a]
      PROVE  SnapshotsSuffice'
  <2> SUFFICES ASSUME ~unseen', NEW h \in Handler
               PROVE  /\ Engaged(h)' => running' = {} /\ \A g \in Handler \ {h} : ~Engaged(g)'
                      /\ at'[h] = "evaluate" =>
                           \/ snapshot'[h] = Unavailable
                           \/ \A a \in Account : spent'[a] <= snapshot'[h][a]
    BY DEF SnapshotsSuffice
  <2>1. \A g \in Handler : Engaged(g)' <=> Engaged(g)
    BY <1>b DEF Engaged
  <2>2. Engaged(h)' => running' = {} /\ \A g \in Handler \ {h} : ~Engaged(g)'
    BY <1>b, <2>1 DEF SnapshotsSuffice
  <2>3. ASSUME at'[h] = "evaluate", snapshot'[h] # Unavailable, NEW a \in Account
        PROVE  spent'[a] <= snapshot'[h][a]
    <3>1. /\ at[h] = "evaluate" /\ Engaged(h) /\ snapshot[h] # Unavailable
          /\ snapshot'[h] = snapshot[h] /\ running = {}
      BY <1>b, <2>3 DEF Engaged, SnapshotsSuffice
    <3>2. spent'[a] <= spent[a] /\ spent[a] <= snapshot[h][a]
      BY <1>b, <3>1 DEF SnapshotsSuffice
    <3>3. snapshot[h][a] \in Nat /\ spent[a] \in Nat
      BY <1>0, <3>1
    <3>4. spent'[a] \in Nat
      BY DEF TypeOK
    <3> QED BY <3>1, <3>2, <3>3, <3>4
  <2> QED BY <2>2, <2>3
<1>1. ASSUME NEW h \in Handler,
             Arrive(h) \/ LoadConfig(h) \/ ConfigFails(h) \/ ResolveActor(h) \/ FindComment(h)
               \/ CreateComment(h)
      PROVE  SnapshotsSuffice'
  <2>1. \E s \in Stage \ Budgeting : at' = [at EXCEPT ![h] = s]
    BY <1>1
       DEF Arrive, LoadConfig, ConfigFails, ResolveActor, FindComment, CreateComment,
           AfterActor, Goes, Stage, Budgeting
  <2>2. ~Engaged(h)'
    BY <1>0, <2>1 DEF Engaged, Budgeting
  <2>3. UNCHANGED <<unseen, spent, running>>
    BY <1>1 DEF Arrive, LoadConfig, ConfigFails, ResolveActor, FindComment, CreateComment
  <2> QED BY <1>1, <1>a, <2>2, <2>3 DEF Process
<1>2. ASSUME NEW h \in Handler, LoadBudgetPolicy(h) PROVE SnapshotsSuffice'
  <2>1. /\ at[h] = "policy" /\ at'[h] \in {"snapshot", "failed"}
        /\ UNCHANGED <<reserved, unseen, spent, running>>
    BY <1>0, <1>2 DEF LoadBudgetPolicy, Goes
  <2>2. reserved'[h] = Nothing
    BY <2>1 DEF ReservationsCover, Budgeting
  <2> QED BY <1>2, <1>a, <2>1, <2>2 DEF Process, Engaged
<1>3. ASSUME NEW h \in Handler, Snapshot(h) PROVE SnapshotsSuffice'
  <2>1. CASE at'[h] = "failed"
    <3>1. UNCHANGED <<unseen, spent, running>>
      BY <1>0, <1>3, <2>1 DEF Snapshot, Goes
    <3> QED BY <1>3, <1>a, <2>1, <3>1 DEF Process, Engaged
  <2>2. CASE at'[h] # "failed"
    <3> SUFFICES ASSUME ~unseen' PROVE SnapshotsSuffice'
      BY DEF SnapshotsSuffice
    <3>1. /\ \E s \in {spent, Unavailable} : snapshot' = [snapshot EXCEPT ![h] = s]
          /\ running = {} /\ \A g \in Handler \ {h} : at[g] \notin Budgeting
          /\ at' = [at EXCEPT ![h] = "evaluate"]
          /\ UNCHANGED <<spent, running, reserved>>
      BY <1>0, <1>3, <2>2 DEF Snapshot, Goes
    <3>2. \A g \in Handler \ {h} : ~Engaged(g)' /\ at'[g] # "evaluate"
      BY <1>0, <3>1 DEF Engaged, Budgeting
    <3>3. snapshot'[h] = Unavailable \/ snapshot'[h] = spent
      BY <1>0, <3>1
    <3> QED BY <1>0, <3>1, <3>2, <3>3 DEF SnapshotsSuffice
  <2> QED BY <2>1, <2>2
<1>4. ASSUME NEW h \in Handler, Evaluate(h) \/ EndBudget(h) PROVE SnapshotsSuffice'
  <2> SUFFICES ASSUME ~unseen' PROVE SnapshotsSuffice'
    BY DEF SnapshotsSuffice
  <2>1. Engaged(h) /\ ~unseen
    BY <1>4 DEF Evaluate, EndBudget, Engaged
  <2>2. running = {} /\ \A g \in Handler \ {h} : ~Engaged(g)
    BY <2>1 DEF SnapshotsSuffice
  <2>3. \A g \in Handler \ {h} : ~Engaged(g)' /\ at'[g] # "evaluate"
    BY <1>4, <2>2, OthersStay DEF Process, Engaged
  <2>4. /\ at'[h] # "evaluate"
        /\ at'[h] \notin {"done", "failed"} => running' = running
    BY <1>0, <1>4 DEF Evaluate, EndBudget, Goes
  <2> QED BY <2>2, <2>3, <2>4 DEF SnapshotsSuffice, Engaged
<1>5. ASSUME NEW h \in Handler, NEW j \in Job, WorkerRecords(h, j) PROVE SnapshotsSuffice'
  BY <1>5, <1>b DEF WorkerRecords
<1>6. ASSUME NEW a \in Account, PeriodEnds(a) PROVE SnapshotsSuffice'
  <2>1. \A b \in Account : spent'[b] <= spent[b]
    BY <1>0, <1>6 DEF PeriodEnds
  <2> QED BY <1>6, <1>b, <2>1 DEF PeriodEnds
<1>7. CASE UNCHANGED vars
  BY <1>0, <1>7, <1>b DEF vars
<1> QED BY <1>1, <1>2, <1>3, <1>4, <1>5, <1>6, <1>7 DEF Next, Process

\* A sum over what is left, of values that are no larger, is no larger.
LEMMA NoGrowth ==
  ASSUME TypeOK, TypeOK', ReservationsCover, ReservationsCover', NEW a \in Account,
         NEW g \in Handler,
         spent'[a] <= spent[a], running' \subseteq running,
         \A x \in running' : Charge(a)'[x] = Charge(a)[x],
         Working' \subseteq Working \cup {g},
         \A h \in Working' : reserved'[h][a] = 0 \/ (h \in Working /\ reserved'[h][a] = reserved[h][a])
  PROVE  Committed(a)' \in Nat /\ Committed(a) \in Nat /\ Committed(a)' <= Committed(a)
<1>1. /\ Committed(a) = spent[a] + SumOf(Charge(a), running) + SumOf(Reservation(a), Working)
      /\ Committed(a)' = spent'[a] + SumOf(Charge(a)', running') + SumOf(Reservation(a)', Working')
  BY CommittedSums, CommittedSumsAfter DEF SumsHold, ReservationsCover
<1>2. /\ SumOf(Charge(a), running) \in Nat /\ SumOf(Charge(a)', running') \in Nat
      /\ SumOf(Charge(a)', running') <= SumOf(Charge(a), running)
  <2>1. \A x \in running : Charge(a)[x] \in Nat
    <3> SUFFICES ASSUME NEW x \in running PROVE Charge(a)[x] \in Nat
      OBVIOUS
    <3>1. x \in Handler \X Job
      BY DEF TypeOK
    <3> QED BY <3>1, ChargeType DEF Charge
  <2>2. IsFiniteSet(running) /\ IsFiniteSet(running')
    BY DEF ReservationsCover
  <2>3. /\ SumOf(Charge(a), running) \in Nat
        /\ SumOf(Charge(a), running') <= SumOf(Charge(a), running)
    BY <2>1, <2>2, SumOfPart
  <2>4. \A x \in running' : /\ Charge(a)'[x] \in Nat /\ Charge(a)[x] \in Nat
                            /\ Charge(a)'[x] <= Charge(a)[x]
    BY <2>1
  <2>5. /\ SumOf(Charge(a)', running') \in Nat /\ SumOf(Charge(a), running') \in Nat
        /\ SumOf(Charge(a)', running') <= SumOf(Charge(a), running')
    <3> DEFINE f == Charge(a)'
               h == Charge(a)
               S == running'
    <3> HIDE DEF f, h, S
    <3>1. \A x \in S : f[x] \in Nat /\ h[x] \in Nat /\ f[x] <= h[x]
      BY <2>4 DEF f, h, S
    <3>2. SumOf(f, S) \in Nat /\ SumOf(h, S) \in Nat /\ SumOf(f, S) <= SumOf(h, S)
      BY <2>2, <3>1, SumIsMonotonic DEF S
    <3> QED BY <3>2 DEF f, h, S
  <2> QED BY <2>3, <2>5
<1>3. /\ SumOf(Reservation(a), Working) \in Nat /\ SumOf(Reservation(a)', Working') \in Nat
      /\ SumOf(Reservation(a)', Working') <= SumOf(Reservation(a), Working)
  <2> DEFINE R == Reservation(a)
             Q == Reservation(a)'
             V == Working
             W == Working'
             F == [h \in Handler |-> IF h \in V THEN R[h] ELSE 0]
  <2>1. /\ V \subseteq Handler /\ W \subseteq V \cup {g}
        /\ IsFiniteSet(V) /\ IsFiniteSet(W)
        /\ \A h \in Handler : R[h] \in Nat /\ Q[h] \in Nat
        /\ \A h \in W : Q[h] = 0 \/ (h \in V /\ Q[h] = R[h])
    BY DEF TypeOK, Reservation, Working, ReservationsCover
  <2> HIDE DEF R, Q, V, W
  <2>2. \A h \in Handler : F[h] \in Nat /\ (h \in V => F[h] = R[h]) /\ (h \notin V => F[h] = 0)
    BY <2>1
  <2>3. \A h \in W : Q[h] \in Nat /\ F[h] \in Nat /\ Q[h] <= F[h]
    BY <2>1, <2>2
  <2> HIDE DEF F
  <2>4. SumOf(Q, W) \in Nat /\ SumOf(F, W) \in Nat /\ SumOf(Q, W) <= SumOf(F, W)
    BY <2>1, <2>3, SumIsMonotonic
  <2>5. IsFiniteSet(V \cup {g}) /\ \A h \in V \cup {g} : F[h] \in Nat
    BY <2>1, <2>2, FS_AddElement
  <2>6. SumOf(F, V \cup {g}) \in Nat /\ SumOf(F, W) <= SumOf(F, V \cup {g})
    BY <2>1, <2>5, SumOfPart
  <2>7. SumOf(F, V) \in Nat /\ SumOf(F, V \cup {g}) <= SumOf(F, V)
    <3>1. CASE g \in V
      <4>1. V \cup {g} = V
        BY <3>1
      <4>2. SumOf(F, V \cup {g}) = SumOf(F, V)
        BY <4>1
      <4> QED BY <2>6, <4>2
    <3>2. CASE g \notin V
      <4>1. F[g] = 0
        BY <2>2, <3>2
      <4>2. SumOf(F, V) \in Nat /\ SumOf(F, V \cup {g}) = SumOf(F, V) + F[g]
        BY <2>1, <2>5, <3>2, SumOneMore
      <4> QED BY <4>1, <4>2
    <3> QED BY <3>1, <3>2
  <2>8. \A h \in V : F[h] \in Nat /\ R[h] \in Nat /\ F[h] <= R[h]
    BY <2>1, <2>2
  <2>9. SumOf(R, V) \in Nat /\ SumOf(F, V) <= SumOf(R, V)
    BY <2>1, <2>8, SumIsMonotonic
  <2>10. /\ SumOf(R, V) \in Nat /\ SumOf(Q, W) \in Nat /\ SumOf(Q, W) <= SumOf(R, V)
    BY <2>4, <2>6, <2>7, <2>9
  <2> QED BY <2>10 DEF R, Q, V, W
<1>4. spent[a] \in Nat /\ spent'[a] \in Nat
  BY DEF TypeOK
<1> QED BY <1>1, <1>2, <1>3, <1>4

LEMMA InitSpend == Init /\ TypeOK => OverspendWasUnseen
<1> SUFFICES ASSUME Init, TypeOK, NEW r \in CapsOf(operator.budget)
             PROVE  Committed(r.account) <= r.cap
  BY DEF OverspendWasUnseen
<1>1. r.account \in Account /\ r.cap \in Nat
  BY CapsType
<1>2. running = {} /\ Working = {} /\ spent[r.account] = 0
  BY <1>1 DEF Init, Working, Budgeting, Nothing
<1>3. Committed(r.account) = 0 + SumOf(Charge(r.account), {}) + SumOf(Reservation(r.account), {})
  BY <1>1, <1>2, CommittedSums, FS_EmptySet DEF SumsHold
<1> QED BY <1>1, <1>3, SumOfNothing

LEMMA NextSpend ==
  /\ TypeOK /\ TypeOK' /\ ReservationsCover /\ ReservationsCover'
  /\ SnapshotsSuffice /\ OverspendWasUnseen /\ [Next]_vars
  => OverspendWasUnseen'
<1> SUFFICES ASSUME TypeOK, TypeOK', ReservationsCover, ReservationsCover', SnapshotsSuffice,
                    OverspendWasUnseen, [Next]_vars,
                    operator'.budget.mode = "enforce", ~unseen',
                    NEW r \in CapsOf(operator'.budget)
             PROVE  Committed(r.account)' <= r.cap
  BY DEF OverspendWasUnseen
<1> USE DEF handlerVars, spendVars, commentVars
<1>0. /\ at \in [Handler -> Stage] /\ running \subseteq Handler \X Job
      /\ spent \in [Account -> Nat] /\ spent' \in [Account -> Nat]
      /\ reserved \in [Handler -> [Account -> Nat]]
      /\ reserved' \in [Handler -> [Account -> Nat]]
  BY DEF TypeOK
<1>1. operator' = operator /\ ~unseen
  <2>1. ASSUME NEW h \in Handler, Process(h) PROVE operator' = operator /\ ~unseen
    <3>1. unseen' = unseen \/ Snapshot(h)
      BY <2>1
         DEF Process, Arrive, LoadConfig, ConfigFails, ResolveActor, FindComment,
             CreateComment, LoadBudgetPolicy, Evaluate, EndBudget
    <3>2. Snapshot(h) => ~unseen
      BY DEF Snapshot
    <3> QED BY <2>1, <3>1, <3>2, OthersStay
  <2>2. ASSUME NEW h \in Handler, NEW j \in Job, WorkerRecords(h, j)
        PROVE  operator' = operator /\ ~unseen
    BY <2>2 DEF WorkerRecords
  <2>3. ASSUME NEW a \in Account, PeriodEnds(a) PROVE operator' = operator /\ ~unseen
    BY <2>3 DEF PeriodEnds
  <2>4. CASE UNCHANGED vars
    BY <2>4 DEF vars
  <2> QED BY <2>1, <2>2, <2>3, <2>4 DEF Next
<1>2. PICK a \in Account : a = r.account
  BY <1>1, CapsType
<1>3. PICK cap \in Nat : cap = r.cap
  BY <1>1, CapsType
<1>4. Committed(a) <= cap
  BY <1>1, <1>2, <1>3 DEF OverspendWasUnseen
<1>5. /\ Committed(a) = spent[a] + SumOf(Charge(a), running) + SumOf(Reservation(a), Working)
      /\ Committed(a)' = spent'[a] + SumOf(Charge(a)', running') + SumOf(Reservation(a)', Working')
  BY CommittedSums, CommittedSumsAfter DEF SumsHold, ReservationsCover
\* Sums of naturals over the sets in question are naturals.
<1>6. /\ SumOf(Charge(a), running) \in Nat
      /\ SumOf(Reservation(a), Working) \in Nat
      /\ Committed(a) \in Nat
  <2>1. \A x \in running : Charge(a)[x] \in Nat
    BY <1>0, ChargeType DEF Charge
  <2>2. SumOf(Charge(a), running) \in Nat
    BY <2>1, SumOfPart DEF ReservationsCover
  <2>3. \A h \in Working : Reservation(a)[h] \in Nat
    BY <1>0 DEF Reservation, Working
  <2>4. SumOf(Reservation(a), Working) \in Nat
    BY <2>3, SumOfPart DEF ReservationsCover
  <2> QED BY <1>0, <1>5, <2>2, <2>4
\* A step after which account a is committed to no more.
<1>a. ASSUME NEW g \in Handler,
             spent'[a] <= spent[a], running' \subseteq running,
             \A x \in running' : Charge(a)'[x] = Charge(a)[x],
             Working' \subseteq Working \cup {g},
             \A h \in Working' :
               reserved'[h][a] = 0 \/ (h \in Working /\ reserved'[h][a] = reserved[h][a])
      PROVE  Committed(a)' <= cap
  BY <1>4, <1>a, NoGrowth
<1>b. ASSUME NEW h \in Handler, NEW j \in Job, config'[h] = config[h]
      PROVE  Charge(a)'[<<h, j>>] = Charge(a)[<<h, j>>]
  BY <1>1, <1>b, CostsStay DEF Charge
\* A handler's step that spends nothing and starts nothing.
<1>c. ASSUME NEW h \in Handler, Process(h), spent' = spent, running' = running,
             at[h] # "done",
             at'[h] \in Budgeting =>
               reserved'[h][a] = 0 \/ (h \in Working /\ reserved'[h][a] = reserved[h][a])
      PROVE  Committed(a)' <= cap
  <2>1. \A g \in Handler \ {h} : /\ at'[g] = at[g] /\ config'[g] = config[g]
                                 /\ reserved'[g] = reserved[g]
    BY <1>c, OthersStay
  <2>2. \A x \in running' : Charge(a)'[x] = Charge(a)[x]
    <3> SUFFICES ASSUME NEW x \in running PROVE Charge(a)'[x] = Charge(a)[x]
      BY <1>c
    <3>1. PICK g \in Handler, j \in Job : x = <<g, j>>
      BY <1>0
    <3>2. at[g] = "done"
      BY <3>1 DEF ReservationsCover
    <3> QED BY <1>b, <1>c, <2>1, <3>1, <3>2
  <2>3. Working' \subseteq Working \cup {h}
    BY <2>1 DEF Working
  <2>4. \A g \in Working' :
          reserved'[g][a] = 0 \/ (g \in Working /\ reserved'[g][a] = reserved[g][a])
    BY <1>c, <2>1 DEF Working
  <2>5. spent'[a] <= spent[a] /\ running' \subseteq running
    BY <1>0, <1>c
  <2> QED BY <1>a, <2>2, <2>3, <2>4, <2>5
<1>7. ASSUME NEW h \in Handler,
             Arrive(h) \/ LoadConfig(h) \/ ConfigFails(h) \/ ResolveActor(h) \/ FindComment(h)
               \/ CreateComment(h)
      PROVE  Committed(a)' <= cap
  <2>1. \E s \in Stage \ Budgeting : at' = [at EXCEPT ![h] = s]
    BY <1>7
       DEF Arrive, LoadConfig, ConfigFails, ResolveActor, FindComment, CreateComment,
           AfterActor, Goes, Stage, Budgeting
  <2>2. at'[h] \notin Budgeting
    BY <1>0, <2>1
  <2>3. UNCHANGED <<spent, running>> /\ at[h] # "done"
    BY <1>7 DEF Arrive, LoadConfig, ConfigFails, ResolveActor, FindComment, CreateComment
  <2> QED BY <1>7, <1>c, <2>2, <2>3 DEF Process
<1>8. ASSUME NEW h \in Handler, LoadBudgetPolicy(h) PROVE Committed(a)' <= cap
  <2>1. /\ at[h] = "policy" /\ UNCHANGED <<reserved, spent, running>>
    BY <1>8 DEF LoadBudgetPolicy
  <2>2. reserved'[h][a] = 0
    BY <2>1 DEF ReservationsCover, Budgeting, Nothing
  <2> QED BY <1>8, <1>c, <2>1, <2>2 DEF Process
<1>9. ASSUME NEW h \in Handler, Snapshot(h) PROVE Committed(a)' <= cap
  <2>1. /\ at[h] = "snapshot" /\ UNCHANGED <<reserved, spent, running>>
    BY <1>9 DEF Snapshot
  <2>2. h \in Working
    BY <2>1 DEF Working, Budgeting
  <2> QED BY <1>9, <1>c, <2>1, <2>2 DEF Process
\* An admitted job fits under the cap with what its own handler reserved and
\* what is spent; no other handler holds a reservation, and nothing runs.
<1>10. ASSUME NEW h \in Handler, Evaluate(h) PROVE Committed(a)' <= cap
  <2>1. /\ at[h] = "evaluate" /\ at'[h] \in Budgeting
        /\ UNCHANGED <<operator, spent, running>>
    BY <1>0, <1>10 DEF Evaluate, Goes, Budgeting
  <2>2. h \in Working
    BY <2>1 DEF Working, Budgeting
  <2>3. CASE reserved'[h][a] = reserved[h][a]
    BY <1>10, <1>c, <2>1, <2>2, <2>3 DEF Process
  <2>4. CASE reserved'[h][a] # reserved[h][a]
    <3>1. PICK c \in Job : c = current[h]
      BY <2>1 DEF TypeOK
    <3>2. /\ BudgetAllows(c, BudgetOf(h), WithReservations(snapshot[h], reserved[h]))
          /\ reserved' = [reserved EXCEPT ![h] = Reserve(@, c, BudgetOf(h))]
      BY <1>10, <2>4, <3>1 DEF Evaluate
    <3>3. reserved'[h][a] = reserved[h][a]
            + (IF a \in AccountsOf[c] THEN EstimateCost(c, BudgetOf(h)) ELSE 0)
      BY <1>0, <3>2 DEF Reserve
    <3>4. a \in AccountsOf[c]
      BY <1>0, <2>4, <3>3
    <3>5. /\ snapshot[h] # Unavailable
          /\ snapshot[h][a] + reserved[h][a] + EstimateCost(c, BudgetOf(h)) <= cap
      BY <1>1, <1>2, <1>3, <3>2, <3>4, AdmittedFits
    <3>6. /\ running = {} /\ \A g \in Handler \ {h} : ~Engaged(g)
          /\ spent[a] <= snapshot[h][a]
      BY <1>1, <2>1, <3>5 DEF SnapshotsSuffice, Engaged
    <3>7. snapshot[h][a] \in Nat /\ EstimateCost(c, BudgetOf(h)) \in Nat
      BY <3>5, BudgetOfType, EstimateType DEF TypeOK
    <3>8. /\ Working' \ {h} \subseteq Handler /\ h \in Working'
          /\ IsFiniteSet(Working' \ {h})
      BY <2>1, FS_Subset DEF Working, ReservationsCover
    <3>9. \A g \in Working' \ {h} : Reservation(a)'[g] = 0
      <4> SUFFICES ASSUME NEW g \in Handler \ {h}, at'[g] \in Budgeting
                   PROVE  reserved'[g][a] = 0
        BY DEF Working, Reservation
      <4>1. at[g] = at'[g] /\ reserved'[g] = reserved[g]
        BY <1>10, OthersStay DEF Process
      <4>2. reserved[g] = Nothing
        BY <3>6, <4>1 DEF Engaged, Budgeting
      <4> QED BY <4>1, <4>2 DEF Nothing
    <3>10. Reservation(a)'[h] = reserved'[h][a] /\ reserved'[h][a] \in Nat
      BY <1>0 DEF Reservation
    <3>11. SumOf(Reservation(a)', Working') = reserved'[h][a]
      <4> DEFINE Q == Reservation(a)'
                 S == Working' \ {h}
                 n == reserved'[h][a]
      <4>1. Working' = S \cup {h}
        BY <3>8
      <4> HIDE DEF Q, S, n
      <4>2. SumOf(Q, S) = 0
        BY <3>8, <3>9, SumOfZeros DEF Q, S
      <4>3. /\ \A y \in S \cup {h} : Q[y] \in Nat
            /\ h \notin S /\ IsFiniteSet(S) /\ Q[h] = n /\ n \in Nat
        BY <3>8, <3>9, <3>10 DEF Q, S, n
      <4>4. SumOf(Q, S \cup {h}) = SumOf(Q, S) + Q[h]
        BY <4>3, SumOneMore
      <4>5. SumOf(Q, S \cup {h}) = n
        BY <4>2, <4>3, <4>4
      <4> QED BY <4>1, <4>5 DEF Q, n
    <3>12. SumOf(Charge(a)', running') = 0
      BY <2>1, <3>6, SumOfNothing
    <3>13. Committed(a)' = spent[a] + 0 + reserved'[h][a]
      BY <1>5, <2>1, <3>11, <3>12
    <3> QED BY <1>0, <3>3, <3>4, <3>5, <3>6, <3>7, <3>13
  <2> QED BY <2>3, <2>4
\* What starts to run was reserved.
<1>11. ASSUME NEW h \in Handler, EndBudget(h) PROVE Committed(a)' <= cap
  <2>1. /\ at[h] = "events" /\ at'[h] \notin Budgeting
        /\ UNCHANGED <<operator, config, reserved, spent>>
    BY <1>0, <1>11 DEF EndBudget, Goes, Budgeting
  <2>2. CASE running' = running
    BY <1>11, <1>c, <2>1, <2>2 DEF Process
  <2>3. CASE running' # running
    <3>1. PICK granted \in SUBSET admitted[h] : running' = running \cup ({h} \X granted)
      BY <1>11, <2>3 DEF EndBudget
    <3>2. running = {}
      BY <1>1, <2>1 DEF SnapshotsSuffice, Engaged
    <3>3. /\ admitted[h] \subseteq Job /\ IsFiniteSet(admitted[h])
          /\ granted \subseteq Job /\ IsFiniteSet(granted)
      BY PolicyAssumption, FS_Subset DEF TypeOK
    <3>4. \A j \in Job : Costs(a, h)[j] \in Nat /\ Charge(a)'[<<h, j>>] = Costs(a, h)[j]
      BY <1>b, <2>1, ChargeType DEF Costs, Charge
    <3>5. /\ SumOf(Costs(a, h), granted) \in Nat
          /\ SumOf(Costs(a, h), granted) <= SumOf(Costs(a, h), admitted[h])
          /\ SumOf(Costs(a, h), admitted[h]) \in Nat
      BY <3>3, <3>4, SumOfPart
    <3>6. SumOf(Costs(a, h), admitted[h]) <= reserved[h][a]
      BY <2>1 DEF ReservationsCover, Budgeting
    <3>7. SumOf(Charge(a)', running') = SumOf(Costs(a, h), granted)
      <4> DEFINE f == Costs(a, h)
                 q == Charge(a)'
      <4> HIDE DEF f, q
      <4>1. \A x \in granted : f[x] \in Nat /\ q[<<h, x>>] = f[x]
        BY <3>3, <3>4 DEF f, q
      <4>2. SumOf(q, PairsOf(h, granted)) = SumOf(f, granted)
        BY <3>3, <4>1, SumOfPairs
      <4>3. running' = PairsOf(h, granted)
        BY <3>1, <3>2 DEF PairsOf
      <4> QED BY <4>2, <4>3 DEF f, q
    <3>8. \A g \in Handler \ {h} : at'[g] = at[g]
      BY <1>11, OthersStay DEF Process
    <3>9. Working' = Working \ {h} /\ h \in Working
      BY <2>1, <3>8 DEF Working, Budgeting
    <3>10. /\ SumOf(Reservation(a)', Working') \in Nat
           /\ SumOf(Reservation(a), Working) = SumOf(Reservation(a)', Working') + reserved[h][a]
      <4> DEFINE R == Reservation(a)
                 S == Working \ {h}
                 n == reserved[h][a]
      <4>1. Working = S \cup {h} /\ Working' = S /\ Reservation(a)' = R
        BY <2>1, <3>9 DEF Reservation
      <4>2. /\ \A y \in S \cup {h} : R[y] \in Nat
            /\ h \notin S /\ IsFiniteSet(S) /\ R[h] = n /\ n \in Nat
        BY <1>0, FS_Subset DEF Reservation, Working, ReservationsCover
      <4> HIDE DEF R, S, n
      <4>3. SumOf(R, S) \in Nat /\ SumOf(R, S \cup {h}) = SumOf(R, S) + R[h]
        BY <4>2, SumOneMore
      <4>4. SumOf(R, S \cup {h}) = SumOf(R, S) + n
        BY <4>2, <4>3
      <4>5. SumOf(R, Working) = SumOf(R, Working') + n /\ SumOf(R, Working') \in Nat
        BY <4>1, <4>3, <4>4
      <4>6. Reservation(a)' = R
        BY <4>1
      <4> QED BY <4>5, <4>6 DEF R, n
    <3> QED
      BY <1>0, <1>4, <1>5, <1>6, <2>1, <3>5, <3>6, <3>7, <3>10
  <2> QED BY <2>2, <2>3
\* A worker's record replaces its charge.
<1>12. ASSUME NEW h \in Handler, NEW j \in Job, WorkerRecords(h, j) PROVE Committed(a)' <= cap
  <2> DEFINE x == <<h, j>>
  <2>1. /\ x \in running /\ running' = running \ {x}
        /\ UNCHANGED <<operator, config, at, reserved>>
    BY <1>12 DEF WorkerRecords
  <2>2. Charge(a)[x] = CostIn(a, j, h) /\ CostIn(a, j, h) \in Nat
    BY ChargeType DEF Charge
  <2>3. spent'[a] <= spent[a] + Charge(a)[x]
    <3>1. PICK cost \in {0, EstimateCost(j, BudgetOf(h))} :
            spent'[a] = spent[a] + (IF a \in AccountsOf[j] THEN cost ELSE 0)
      BY <1>12 DEF WorkerRecords
    <3>2. EstimateCost(j, BudgetOf(h)) \in Nat
      BY BudgetOfType, EstimateType
    <3> QED BY <1>0, <2>2, <3>1, <3>2 DEF CostIn
  <2>4. Charge(a)' = Charge(a)
    BY <2>1 DEF Charge, CostIn, BudgetOf
  <2>5. Reservation(a)' = Reservation(a) /\ Working' = Working
    BY <2>1 DEF Reservation, Working
  <2>6. SumOf(Charge(a), running') \in Nat
        /\ SumOf(Charge(a), running) = SumOf(Charge(a), running') + Charge(a)[x]
    <3> DEFINE C == Charge(a)
               S == running \ {x}
    <3>1. running = S \cup {x} /\ running' = S /\ x \notin S
      BY <2>1
    <3>2. IsFiniteSet(S) /\ \A y \in S \cup {x} : C[y] \in Nat
      BY <1>0, <3>1, ChargeType, FS_Subset DEF Charge, ReservationsCover
    <3> HIDE DEF x, C, S
    <3>3. SumOf(C, S) \in Nat /\ SumOf(C, S \cup {x}) = SumOf(C, S) + C[x]
      BY <3>1, <3>2, SumOneMore
    <3>4. SumOf(C, running') \in Nat /\ SumOf(C, running) = SumOf(C, running') + C[x]
      BY <3>1, <3>3
    <3> QED BY <3>4 DEF C
  <2> HIDE DEF x
  <2>7. Committed(a)' = spent'[a] + SumOf(Charge(a), running') + SumOf(Reservation(a), Working)
    BY <1>5, <2>4, <2>5
  <2> QED BY <1>0, <1>4, <1>5, <1>6, <2>2, <2>3, <2>6, <2>7
<1>13. ASSUME UNCHANGED <<operator, config, at, reserved, running>>, spent'[a] <= spent[a]
       PROVE  Committed(a)' <= cap
  <2>1. /\ Charge(a)' = Charge(a) /\ Reservation(a)' = Reservation(a) /\ Working' = Working
    BY <1>13 DEF Charge, CostIn, BudgetOf, Reservation, Working
  <2>2. Committed(a)' = spent'[a] + SumOf(Charge(a), running) + SumOf(Reservation(a), Working)
    BY <1>5, <1>13, <2>1
  <2> QED BY <1>0, <1>4, <1>5, <1>6, <1>13, <2>2
<1>14. ASSUME NEW b \in Account, PeriodEnds(b) PROVE Committed(a)' <= cap
  <2>1. spent'[a] <= spent[a]
    BY <1>0, <1>14 DEF PeriodEnds
  <2> QED BY <1>13, <1>14, <2>1 DEF PeriodEnds
<1>15. ASSUME UNCHANGED vars PROVE Committed(a)' <= cap
  <2>1. UNCHANGED <<operator, config, at, reserved, running, spent>>
    BY <1>15 DEF vars
  <2>2. spent'[a] <= spent[a]
    BY <1>0, <2>1
  <2> QED BY <1>13, <2>1, <2>2
<1>16. ASSUME NEW h \in Handler, Process(h) PROVE Committed(a)' <= cap
  BY <1>7, <1>8, <1>9, <1>10, <1>11, <1>16 DEF Process
<1>17. Committed(a)' <= cap
  <2>1. CASE Next
    <3>1. CASE \E h \in Handler : Process(h)
      BY <1>16, <3>1
    <3>2. CASE \E h \in Handler, j \in Job : WorkerRecords(h, j)
      BY <1>12, <3>2
    <3>3. CASE \E b \in Account : PeriodEnds(b)
      BY <1>14, <3>3
    <3> QED BY <2>1, <3>1, <3>2, <3>3 DEF Next
  <2> QED BY <1>15, <2>1
<1> QED BY <1>2, <1>3, <1>17

\* The operator's caps hold across deliveries, periods and failures as long
\* as no delivery reads its snapshot while another one's spend is admitted
\* and not recorded: snapshots that overlap are the only way to pass a cap.
THEOREM OverspendNeedsOverlap == Spec => []OverspendWasUnseen
BY AdmissionTypes, InitType, InitCover, InitSpend, NextCover, NextSnapshots, NextSpend, PTL
   DEF Spec
=============================================================================
