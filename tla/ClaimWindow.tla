---------------------------- MODULE ClaimWindow -----------------------------
(***************************************************************************)
(* What a claim store promises (docs/run-control.md, "Claim Store          *)
(* Contract"): a key is granted only while nobody holds it, and is held    *)
(* from then on until its window ends.  "grants" counts the grants, so     *)
(* that granting a held key is not a stuttering step.                      *)
(***************************************************************************)
EXTENDS Naturals

CONSTANT Key

VARIABLES
  held,   \* the keys inside their claim or dedupe window
  grants  \* how often each key was granted

Init ==
  /\ held = {}
  /\ grants = [k \in Key |-> 0]

Grant(k) ==
  /\ k \notin held
  /\ held' = held \union {k}
  /\ grants' = [grants EXCEPT ![k] = @ + 1]

Release(k) ==
  /\ k \in held
  /\ held' = held \ {k}
  /\ UNCHANGED grants

Next == \E k \in Key : Grant(k) \/ Release(k)

Spec == Init /\ [][Next]_<<held, grants>>
=============================================================================
