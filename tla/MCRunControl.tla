---------------------------- MODULE MCRunControl ----------------------------
(* Instances of RunControl for TLC.                                        *)
EXTENDS RunControl

CONSTANTS k1, k2, pr, h1, h2, h3, app1, app2

\* Both keys are reviews of one pull request, which is capped.
MCScopesOf      == [k \in RunKey |-> Scope]
MCMaxConcurrent == [s \in Scope |-> 1]

\* Every handler on one process, or the first on a process of its own.
OneApp == [h \in Handler |-> app1]
TwoApps == [h \in Handler |-> IF h = h1 THEN app1 ELSE app2]

\* Two deliveries of the same event (a redelivery, or a replay).
SameJob == [h \in Handler |-> <<k1>>]
\* Two events of one pull request.
TwoJobs == [h \in Handler |-> IF h = h1 THEN <<k1>> ELSE <<k2>>]
\* A delivery with two jobs, and a redelivery of the first of them.
SharedJob == [h \in Handler |-> IF h = h1 THEN <<k1, k2>> ELSE <<k1>>]
=============================================================================
