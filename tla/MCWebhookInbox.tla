--------------------------- MODULE MCWebhookInbox ---------------------------
(* Instances of WebhookInbox for TLC.                                      *)
EXTENDS WebhookInbox

CONSTANTS d1, d2, r1, r2, r3, app1, app2

\* Every request on one process, or the first on a process of its own.
OneApp  == [r \in Request |-> app1]
TwoApps == [r \in Request |-> IF r = r1 THEN app1 ELSE app2]

\* r1 and r2 deliver d1, the second as a redelivery; r3 delivers d2.
Redelivered == [r \in Request |-> IF r = r3 THEN d2 ELSE d1]
\* Every request is a delivery of its own.
Distinct == [r \in Request |-> IF r = r1 THEN d1 ELSE d2]
=============================================================================
