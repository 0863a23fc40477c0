-------------------------- MODULE MCReviewPipeline --------------------------
(* Instances of ReviewPipeline for TLC.                                    *)
EXTENDS ReviewPipeline

CONSTANTS d1, r1, r2, p1, j1, j2, k1, k2, pr

\* All keys are reviews of one pull request, which is capped.
MCScopesOf      == [k \in RunKey |-> Scope]
MCMaxConcurrent == [s \in Scope |-> 1]
MCUncapped      == [s \in Scope |-> 2]

\* r1 and r2 deliver d1, the second as a redelivery.
MCDeliveryOf == [r \in Request |-> d1]
MCJobsOf     == [d \in Delivery |-> <<j1, j2>>]
MCKeyOf      == [j \in Job |-> IF j = j1 THEN k1 ELSE k2]
=============================================================================
