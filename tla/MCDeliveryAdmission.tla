------------------------- MODULE MCDeliveryAdmission -------------------------
(* Instances of DeliveryAdmission for TLC.                                 *)
EXTENDS DeliveryAdmission, TLC

CONSTANTS general, followup, swarm, responsiveness, l1, l2, l3, fixed,
          alice, bob, pr, lane1, h1, h2, d1

MCKind == {general, followup, swarm, responsiveness}
MCFixedLane == (swarm :> fixed) @@ (responsiveness :> fixed)
\* Every job is one of the same pull request; lane1 is the budget of a model.
MCAccountsOf == [j \in Job |-> IF j.lane = l1 THEN {pr, lane1} ELSE {pr}]
MCOwnEstimate == responsiveness :> 2
OneDelivery == [h \in Handler |-> d1]

Admission(mode, draft, trusted, permission) ==
  [publicMode |-> mode, privateMode |-> "open", draft |-> draft, trusted |-> trusted,
   permission |-> permission, deny |-> {}]
Budget(mode, estimate, prCap, rules) ==
  [mode |-> mode, estimate |-> estimate,
   caps |-> [a \in Account |-> IF a = pr THEN prCap ELSE NoCap], explicit |-> rules]

\* An operator who trusts writers and enforces two caps, and one who lets
\* everybody command reviews of drafts on one lane, and only warns.
Strict ==
  [admission |-> Admission("trusted", {"comment"}, {}, 3), authors |-> {},
   budget |-> Budget("enforce", 1, 3, {[account |-> lane1, cap |-> 1]}),
   lanes |-> {l1, l2}, maxJobs |-> 3, enabled |-> TRUE,
   disabledKinds |-> {}, disabledLanes |-> {}]
Lenient ==
  [admission |-> Admission("open", {"comment"}, {}, 0), authors |-> {alice},
   budget |-> Budget("warn", 1, 1, {}),
   lanes |-> {l1, l2}, maxJobs |-> 4, enabled |-> TRUE,
   disabledKinds |-> {responsiveness}, disabledLanes |-> {l2}]
MCOperators == {Strict, Lenient}

\* Files that set no kinds and select a lane the operator does not have, and
\* that trust a user, set another cap, lower the limit of jobs and stop drafts.
Sparse == [DefaultConfig EXCEPT !.allowed = Unset, !.initial = Unset,
             !.followup = Unset, !.lanes = {l3}, !.maxJobs = 4]
Tight  == [DefaultConfig EXCEPT !.initial = {general, swarm}, !.lanes = {l2}, !.maxJobs = 2,
             !.admission = Admission("trusted", {"pull_request"}, {bob}, 2),
             !.budget = Budget("enforce", 2, 4, {})]
MCFiles == {Sparse, Tight}

PullRequest == [trigger |-> "pull_request", synchronize |-> FALSE, kinds |-> {general},
                draft |-> FALSE, private |-> FALSE, actor |-> bob, author |-> alice]
Push        == [PullRequest EXCEPT !.synchronize = TRUE, !.kinds = {followup}]
Command     == [PullRequest EXCEPT !.trigger = "comment", !.draft = TRUE,
                !.kinds = {general, responsiveness}]
ManyKinds   == [Command EXCEPT !.kinds = {general, followup}, !.draft = FALSE]
MCEvents == {PullRequest, Push, Command, ManyKinds}

MCActors == {[permission |-> 2, member |-> FALSE], [permission |-> 3, member |-> FALSE]}
=============================================================================
