------------------------- MODULE WebhookInboxProofs -------------------------
(***************************************************************************)
(* Theorems about WebhookInbox, for every set of deliveries and requests,  *)
(* every finite set of server processes, every number of attempts, batch   *)
(* size and number of crashes, with and without failing inbox statements.  *)
(***************************************************************************)
EXTENDS WebhookInbox, CollectionLemmas, TLAPS

-----------------------------------------------------------------------------
(* The SQL statements keep the table a table.                              *)

LEMMA StatementTypes ==
  ASSUME NEW table \in [Delivery -> InboxRow], NEW d \in Delivery,
         NEW status \in InboxStatus \cup {"none"}
  PROVE  /\ ReceivedUpsert(table, d) \in [Delivery -> InboxRow]
         /\ InboxWrite(table, d, status) \in [Delivery -> InboxRow]
BY DEF ReceivedUpsert, InboxWrite, InboxRow, InboxStatus, Retryable

LEMMA ClaimStatementTypes ==
  ASSUME NEW table \in [Delivery -> InboxRow], NEW candidates \in SUBSET Delivery
  PROVE  /\ ClaimRows(table, candidates) \in [Delivery -> InboxRow]
         /\ ClaimedBatch(table, candidates) \in SUBSET Claimed
<1>1. ClaimRows(table, candidates) \in [Delivery -> InboxRow]
  BY DEF ClaimRows, InboxRow, InboxStatus, Retryable
<1>2. ASSUME NEW d \in candidates
      PROVE  [delivery |-> d, attempts |-> table[d].attempts + 1] \in Claimed
  BY DEF Claimed, InboxRow
<1> QED BY <1>1, <1>2 DEF ClaimedBatch

LEMMA StatusAfterType ==
  ASSUME NEW outcome \in Outcome, NEW attempts
  PROVE  StatusAfter(outcome, attempts) \in {"processed", "ignored", "failed", "retry_pending"}
BY DEF StatusAfter, Outcome

-----------------------------------------------------------------------------
(* Where a pass is tells what it holds.                                    *)

OutcomeKnown ==
  \A a \in App : pass[a] \in {"settling", "catching"} => current[a].outcome \in Outcome

PassShape ==
  \A a \in App : /\ pass[a] \in {"idle", "claiming"} => batch[a] = {}
                 /\ pass[a] # "claiming" => chosen[a] = {}

Bookkeeping == TypeOK /\ OutcomeKnown /\ PassShape

-----------------------------------------------------------------------------
(* A replay uses up one of the attempts that a claim has counted.          *)

Holders(d)  == {a \in App : \E claim \in batch[a] : claim.delivery = d}
Choosers(d) == {a \in App : d \in chosen[a]}

OneClaimEach ==
  \A a \in App : \A x, y \in batch[a] : x.delivery = y.delivery => x = y

ReplaysArePaid ==
  \A d \in Delivery : replays[d] + Cardinality(Holders(d)) <= rows[d].attempts

\* A claim statement in flight will count one more attempt of its candidates.
AttemptsInHand ==
  \A d \in Delivery :
    rows[d].attempts + Cardinality(Choosers(d)) <= MaxAttempts + Cardinality(App) - 1

ReplayBudget == OneClaimEach /\ ReplaysArePaid /\ AttemptsInHand

-----------------------------------------------------------------------------
(* Who may still write a row.                                              *)

RequestsNeverClaim == \A r \in Request : request[r].status # "processing"

Owned == ~InboxFaults /\ MaxCrashes = 0 =>
           /\ RequestsNeverClaim
           /\ \A d \in Delivery :
                rows[d].status = "processing" => \E a \in App : Replaying(a, d)

\* What SettledStaysSettled is stated for.
Unhurried == OneProcessor /\ NoRedelivery /\ ~SlowProcessing /\ ~FailClosed

\* The row of a request that has not come in does not exist.
NotYetReceived ==
  \A r \in Request :
    request[r].at = "idle" => rows[DeliveryOf[r]].status = "none" /\ ~rows[DeliveryOf[r]].due

\* Nobody else works on the delivery of a request.
RequestIsAlone ==
  \A r \in Request : request[r].at \in {"processing", "settling"} =>
    LET d == DeliveryOf[r] IN
    /\ rows[d].status \in {"none", "received"} /\ ~rows[d].due
    /\ \A a \in App : ~Replaying(a, d) /\ d \notin chosen[a]

\* A pass holds a delivery once, and its row says so.
ReplayIsAlone ==
  \A a \in App :
    /\ \A d \in Delivery : Replaying(a, d) => rows[d].status = "processing" /\ ~rows[d].due
    /\ \A d \in chosen[a] : rows[d].status \in Retryable
    /\ \A x \in batch[a] : pass[a] \in Busy => x.delivery # current[a].claim.delivery

SoleWriter ==
  Unhurried => NotYetReceived /\ RequestIsAlone /\ ReplayIsAlone /\ OneClaimEach

-----------------------------------------------------------------------------
(* Type correctness.                                                       *)

LEMMA BookkeepingInit == Init => Bookkeeping
BY WebhookInboxAssumption, InboxAssumption
   DEF Init, Bookkeeping, TypeOK, OutcomeKnown, PassShape, NoDelivery, InboxRow,
       RequestStage, PassStage, Busy, Nothing, NoOutcome

LEMMA BookkeepingStep == Bookkeeping /\ [Next]_vars => Bookkeeping'
<1> SUFFICES ASSUME Bookkeeping, [Next]_vars PROVE Bookkeeping'
  OBVIOUS
<1> USE WebhookInboxAssumption DEF Bookkeeping
<1>0. TypeOK /\ OutcomeKnown /\ PassShape
  OBVIOUS
<1>1. ASSUME NEW r \in Request, Receive(r) PROVE Bookkeeping'
  <2>1. rows' \in [Delivery -> InboxRow]
    <3>1. ReceivedUpsert(rows, DeliveryOf[r]) \in [Delivery -> InboxRow]
      BY <1>0, StatementTypes DEF TypeOK, InboxStatus, Retryable
    <3> QED BY <1>0, <1>1, <3>1 DEF Receive, TypeOK
  <2>2. request' \in [Request -> [at : RequestStage, status : InboxStatus \cup {"none"}]]
    <3>1. \E stage \in RequestStage :
            request' = [request EXCEPT ![r] = [at |-> stage, status |-> "none"]]
      BY <1>1 DEF Receive, Goes, RequestStage
    <3> QED BY <1>0, <3>1 DEF TypeOK
  <2>3. UNCHANGED <<passVars, replays, crashes>>
    BY <1>1 DEF Receive
  <2> QED BY <1>0, <2>1, <2>2, <2>3 DEF TypeOK, OutcomeKnown, PassShape, passVars
<1>2. ASSUME NEW r \in Request, Process(r) PROVE Bookkeeping'
  <2>1. PICK outcome \in Outcome : Goes(r, "settling", StatusAfter(outcome, 0))
    BY <1>2 DEF Process
  <2>2. StatusAfter(outcome, 0) \in InboxStatus
    BY StatusAfterType DEF InboxStatus, Retryable, Settled
  <2>3. request' \in [Request -> [at : RequestStage, status : InboxStatus \cup {"none"}]]
    BY <1>0, <2>1, <2>2 DEF TypeOK, Goes, RequestStage
  <2> QED BY <1>0, <1>2, <2>3 DEF Process, TypeOK, OutcomeKnown, PassShape, passVars
<1>3. ASSUME NEW r \in Request, Settle(r) PROVE Bookkeeping'
  <2>1. rows' \in [Delivery -> InboxRow]
    <3>1. InboxWrite(rows, DeliveryOf[r], request[r].status) \in [Delivery -> InboxRow]
      BY <1>0, StatementTypes DEF TypeOK
    <3> QED BY <1>0, <1>3, <3>1 DEF Settle, Writes, WriteLost, TypeOK
  <2>2. request' \in [Request -> [at : RequestStage, status : InboxStatus \cup {"none"}]]
    BY <1>0, <1>3 DEF Settle, Goes, TypeOK, RequestStage
  <2> QED BY <1>0, <1>3, <2>1, <2>2 DEF Settle, TypeOK, OutcomeKnown, PassShape, passVars
<1>4. ASSUME NEW a \in App, StartPass(a) PROVE Bookkeeping'
  <2>1. PICK candidates \in Batches(rows) : chosen' = [chosen EXCEPT ![a] = candidates]
    BY <1>4 DEF StartPass
  <2>2. candidates \in SUBSET Delivery
    BY <1>0 DEF Batches, DueRows
  <2> QED BY <1>0, <1>4, <2>1, <2>2
          DEF StartPass, TypeOK, OutcomeKnown, PassShape, PassStage, Busy
<1>5. ASSUME NEW a \in App, ClaimDue(a) PROVE Bookkeeping'
  <2>1. /\ ClaimRows(rows, chosen[a]) \in [Delivery -> InboxRow]
        /\ ClaimedBatch(rows, chosen[a]) \in SUBSET Claimed
    BY <1>0, ClaimStatementTypes DEF TypeOK
  <2> QED BY <1>0, <1>5, <2>1
          DEF ClaimDue, TypeOK, OutcomeKnown, PassShape, PassStage, Busy
<1>6. ASSUME NEW a \in App, ClaimDueFails(a) PROVE Bookkeeping'
  <2>1. ClaimRows(rows, chosen[a]) \in [Delivery -> InboxRow]
    BY <1>0, ClaimStatementTypes DEF TypeOK
  <2> QED BY <1>0, <1>6, <2>1
          DEF ClaimDueFails, TypeOK, OutcomeKnown, PassShape, PassStage, Busy
<1>7. ASSUME NEW a \in App, Replay(a) PROVE Bookkeeping'
  <2>1. PICK claim \in batch[a] :
          /\ batch' = [batch EXCEPT ![a] = @ \ {claim}]
          /\ current' = [current EXCEPT ![a] = [claim |-> claim, outcome |-> NoOutcome]]
          /\ replays' = [replays EXCEPT ![claim.delivery] = @ + 1]
    BY <1>7 DEF Replay
  <2>2. claim \in Claimed
    BY <1>0 DEF TypeOK
  <2>3. replays' \in [Delivery -> Nat]
    BY <1>0, <2>1, <2>2 DEF TypeOK, Claimed
  <2> QED BY <1>0, <1>7, <2>1, <2>2, <2>3
          DEF Replay, TypeOK, OutcomeKnown, PassShape, PassStage, Busy
<1>8. ASSUME NEW a \in App, ReplayEnds(a) PROVE Bookkeeping'
  BY <1>0, <1>8 DEF ReplayEnds, TypeOK, OutcomeKnown, PassShape, PassStage, Busy
<1>9. ASSUME NEW a \in App, SettleReplay(a) PROVE Bookkeeping'
  <2> DEFINE claim  == current[a].claim
             status == StatusAfter(current[a].outcome, claim.attempts)
  <2>1. claim.delivery \in Delivery /\ status \in InboxStatus
    BY <1>0, <1>9, StatusAfterType
       DEF SettleReplay, TypeOK, OutcomeKnown, Busy, Claimed, InboxStatus, Retryable, Settled
  <2>2. rows' \in [Delivery -> InboxRow]
    <3>1. InboxWrite(rows, claim.delivery, status) \in [Delivery -> InboxRow]
      BY <1>0, <2>1, StatementTypes DEF TypeOK
    <3> QED BY <1>0, <1>9, <3>1 DEF SettleReplay, Writes, WriteLost, TypeOK
  <2>3. CASE NextReplay(a)
    BY <1>0, <1>9, <2>2, <2>3
       DEF SettleReplay, NextReplay, TypeOK, OutcomeKnown, PassShape, PassStage, Busy, Nothing
  <2>4. CASE /\ pass' = [pass EXCEPT ![a] = "catching"]
             /\ current' = [current EXCEPT ![a].outcome = "throws"]
             /\ UNCHANGED batch
    BY <1>0, <1>9, <2>2, <2>4
       DEF SettleReplay, TypeOK, OutcomeKnown, PassShape, PassStage, Busy, Outcome
  <2> QED BY <1>9, <2>3, <2>4 DEF SettleReplay
<1>10. ASSUME NEW a \in App, CatchReplay(a) PROVE Bookkeeping'
  <2> DEFINE claim  == current[a].claim
             status == StatusAfter(current[a].outcome, claim.attempts)
  <2>1. claim.delivery \in Delivery /\ status \in InboxStatus
    BY <1>0, <1>10, StatusAfterType
       DEF CatchReplay, TypeOK, OutcomeKnown, Busy, Claimed, InboxStatus, Retryable, Settled
  <2>2. rows' \in [Delivery -> InboxRow]
    <3>1. InboxWrite(rows, claim.delivery, status) \in [Delivery -> InboxRow]
      BY <1>0, <2>1, StatementTypes DEF TypeOK
    <3> QED BY <1>0, <1>10, <3>1 DEF CatchReplay, Writes, WriteLost, TypeOK
  <2>3. CASE NextReplay(a)
    BY <1>0, <1>10, <2>2, <2>3
       DEF CatchReplay, NextReplay, TypeOK, OutcomeKnown, PassShape, PassStage, Busy, Nothing
  <2>4. CASE /\ pass' = [pass EXCEPT ![a] = "idle"]
             /\ batch' = [batch EXCEPT ![a] = {}]
             /\ current' = [current EXCEPT ![a] = Nothing]
    BY <1>0, <1>10, <2>2, <2>4
       DEF CatchReplay, TypeOK, OutcomeKnown, PassShape, PassStage, Busy, Nothing
  <2> QED BY <1>10, <2>3, <2>4 DEF CatchReplay
<1>11. ASSUME NEW a \in App, EndPass(a) PROVE Bookkeeping'
  BY <1>0, <1>11 DEF EndPass, TypeOK, OutcomeKnown, PassShape, PassStage, Busy
<1>12. ASSUME NEW a \in App, AppCrash(a) PROVE Bookkeeping'
  <2>1. request' \in [Request -> [at : RequestStage, status : InboxStatus \cup {"none"}]]
    BY <1>0, <1>12 DEF AppCrash, TypeOK, RequestStage
  <2>2. crashes' \in 0..MaxCrashes
    BY <1>0, <1>12 DEF AppCrash, TypeOK
  <2> QED BY <1>0, <1>12, <2>1, <2>2
          DEF AppCrash, TypeOK, OutcomeKnown, PassShape, PassStage, Busy, Nothing
<1>13. ASSUME NEW d \in Delivery, ComesDue(d) PROVE Bookkeeping'
  <2>1. rows' \in [Delivery -> InboxRow]
    BY <1>0, <1>13 DEF ComesDue, TypeOK, InboxRow
  <2> QED BY <1>0, <1>13, <2>1 DEF ComesDue, TypeOK, OutcomeKnown, PassShape, passVars
<1>14. CASE UNCHANGED vars
  BY <1>0, <1>14 DEF vars, TypeOK, OutcomeKnown, PassShape
<1> QED
  BY <1>1, <1>2, <1>3, <1>4, <1>5, <1>6, <1>7, <1>8, <1>9, <1>10, <1>11, <1>12, <1>13, <1>14
     DEF Next, RequestStep, PassStep

LEMMA BookkeepingInvariant == Spec => []Bookkeeping
<1> QED BY BookkeepingInit, BookkeepingStep, PTL DEF Spec

\* Every reachable state of the inbox, its requests and its processors is
\* well-typed. (startWebhookInboxProcessor, handleGitHubWebhook)
THEOREM InboxTypeCorrect == Spec => []TypeOK
<1>1. Bookkeeping => TypeOK
  BY DEF Bookkeeping
<1> QED BY <1>1, BookkeepingInvariant, PTL

-----------------------------------------------------------------------------
(* Replays are bounded.                                                    *)

LEMMA AttemptsKept ==
  ASSUME NEW table \in [Delivery -> InboxRow], NEW d \in Delivery, NEW status, NEW e \in Delivery
  PROVE  /\ ReceivedUpsert(table, d)[e].attempts = table[e].attempts
         /\ InboxWrite(table, d, status)[e].attempts = table[e].attempts
BY DEF ReceivedUpsert, InboxWrite, InboxRow

LEMMA HoldersAreFinite ==
  ASSUME NEW d
  PROVE  /\ Holders(d) \in SUBSET App /\ Choosers(d) \in SUBSET App
         /\ IsFiniteSet(Holders(d)) /\ IsFiniteSet(Choosers(d))
         /\ Cardinality(Holders(d)) \in Nat /\ Cardinality(Choosers(d)) \in Nat
         /\ Cardinality(App) \in Nat
         /\ Cardinality(Choosers(d)) <= Cardinality(App)
<1>1. Holders(d) \in SUBSET App /\ Choosers(d) \in SUBSET App
  BY DEF Holders, Choosers
<1> QED BY <1>1, FewerOrAsMany, WebhookInboxAssumption

\* A step that claims nothing and begins no replay.
LEMMA BudgetKept ==
  ASSUME Bookkeeping, ReplayBudget, replays' = replays,
         \A d \in Delivery : rows'[d].attempts = rows[d].attempts,
         \A a \in App : batch'[a] \subseteq batch[a] /\ chosen'[a] \subseteq chosen[a]
  PROVE  ReplayBudget'
<1>1. OneClaimEach'
  BY DEF ReplayBudget, OneClaimEach
<1>2. ASSUME NEW d \in Delivery
      PROVE  /\ replays'[d] + Cardinality(Holders(d)') <= rows'[d].attempts
             /\ rows'[d].attempts + Cardinality(Choosers(d)')
                  <= MaxAttempts + Cardinality(App) - 1
  <2>1. Holders(d)' \in SUBSET Holders(d) /\ Choosers(d)' \in SUBSET Choosers(d)
    BY DEF Holders, Choosers
  <2>2. /\ IsFiniteSet(Holders(d)) /\ IsFiniteSet(Choosers(d))
        /\ Cardinality(App) \in Nat
    BY HoldersAreFinite
  <2>3. /\ Cardinality(Holders(d)') \in Nat /\ Cardinality(Holders(d)) \in Nat
        /\ Cardinality(Holders(d)') <= Cardinality(Holders(d))
    BY <2>1, <2>2, FewerOrAsMany
  <2>4. /\ Cardinality(Choosers(d)') \in Nat /\ Cardinality(Choosers(d)) \in Nat
        /\ Cardinality(Choosers(d)') <= Cardinality(Choosers(d))
    BY <2>1, <2>2, FewerOrAsMany
  <2>5. /\ replays[d] + Cardinality(Holders(d)) <= rows[d].attempts
        /\ rows[d].attempts + Cardinality(Choosers(d))
             <= MaxAttempts + Cardinality(App) - 1
    BY DEF ReplayBudget, ReplaysArePaid, AttemptsInHand
  <2>6. replays[d] \in Nat /\ rows[d].attempts \in Nat /\ MaxAttempts \in Nat
    BY InboxAssumption DEF Bookkeeping, TypeOK, InboxRow
  <2> QED BY <2>2, <2>3, <2>4, <2>5, <2>6
<1> QED BY <1>1, <1>2 DEF ReplayBudget, ReplaysArePaid, AttemptsInHand

LEMMA BudgetInit == Init => ReplayBudget
<1> SUFFICES ASSUME Init PROVE ReplayBudget
  OBVIOUS
<1>1. OneClaimEach
  BY DEF Init, OneClaimEach
<1>2. ASSUME NEW d \in Delivery
      PROVE  /\ replays[d] + Cardinality(Holders(d)) <= rows[d].attempts
             /\ rows[d].attempts + Cardinality(Choosers(d))
                  <= MaxAttempts + Cardinality(App) - 1
  <2>1. Holders(d) = {} /\ Choosers(d) = {}
    BY DEF Init, Holders, Choosers
  <2>2. Cardinality(Holders(d)) = 0 /\ Cardinality(Choosers(d)) = 0
    BY <2>1, FS_EmptySet
  <2>3. replays[d] = 0 /\ rows[d].attempts = 0
    BY DEF Init, NoDelivery
  <2> QED BY <2>2, <2>3, HoldersAreFinite, InboxAssumption
<1> QED BY <1>1, <1>2 DEF ReplayBudget, ReplaysArePaid, AttemptsInHand

\* A candidate has an attempt left, however many statements have selected it.
LEMMA BudgetOfStartPass ==
  ASSUME Bookkeeping, ReplayBudget, NEW a \in App, StartPass(a)
  PROVE  ReplayBudget'
<1>1. PICK candidates \in Batches(rows) : chosen' = [chosen EXCEPT ![a] = candidates]
  BY DEF StartPass
<1>2. UNCHANGED <<rows, batch, replays>>
  BY DEF StartPass
<1>3. chosen \in [App -> SUBSET Delivery]
  BY DEF Bookkeeping, TypeOK
<1>4. OneClaimEach' /\ ReplaysArePaid'
  BY <1>2 DEF ReplayBudget, OneClaimEach, ReplaysArePaid, Holders
<1>5. ASSUME NEW d \in Delivery
      PROVE  rows[d].attempts + Cardinality(Choosers(d)')
               <= MaxAttempts + Cardinality(App) - 1
  <2>1. /\ Cardinality(Choosers(d)') \in Nat
        /\ Cardinality(Choosers(d)') <= Cardinality(App)
        /\ Cardinality(App) \in Nat
        /\ rows[d].attempts \in Nat /\ MaxAttempts \in Nat
    <3>1. Choosers(d)' \in SUBSET App
      BY DEF Choosers
    <3> QED BY <3>1, FewerOrAsMany, WebhookInboxAssumption, InboxAssumption
            DEF Bookkeeping, TypeOK, InboxRow
  <2>2. CASE d \in candidates
    <3>1. rows[d].attempts < MaxAttempts
      BY <2>2 DEF Batches, DueRows
    <3> QED BY <2>1, <3>1
  <2>3. CASE d \notin candidates
    <3>1. Choosers(d)' \in SUBSET Choosers(d)
      BY <1>1, <1>3, <2>3 DEF Choosers
    <3>2. /\ Cardinality(Choosers(d)) \in Nat
          /\ Cardinality(Choosers(d)') <= Cardinality(Choosers(d))
      BY <3>1, HoldersAreFinite, FewerOrAsMany
    <3>3. rows[d].attempts + Cardinality(Choosers(d)) <= MaxAttempts + Cardinality(App) - 1
      BY DEF ReplayBudget, AttemptsInHand
    <3> QED BY <2>1, <3>2, <3>3
  <2> QED BY <2>2, <2>3
<1> QED BY <1>2, <1>4, <1>5 DEF ReplayBudget, AttemptsInHand

\* The update counts an attempt of every candidate, and the statement that had
\* selected it is no longer in flight.
LEMMA AttemptsInHandOfClaim ==
  ASSUME Bookkeeping, ReplayBudget, NEW a \in App,
         rows' \in {rows, ClaimRows(rows, chosen[a])},
         chosen' = [chosen EXCEPT ![a] = {}]
  PROVE  AttemptsInHand'
<1>1. /\ chosen \in [App -> SUBSET Delivery] /\ rows \in [Delivery -> InboxRow]
      /\ MaxAttempts \in Nat
  BY InboxAssumption DEF Bookkeeping, TypeOK
<1> SUFFICES ASSUME NEW d \in Delivery
             PROVE  rows'[d].attempts + Cardinality(Choosers(d)')
                      <= MaxAttempts + Cardinality(App) - 1
  BY DEF AttemptsInHand
<1>2. rows[d].attempts + Cardinality(Choosers(d)) <= MaxAttempts + Cardinality(App) - 1
  BY DEF ReplayBudget, AttemptsInHand
<1>3. /\ rows[d].attempts \in Nat /\ Cardinality(Choosers(d)) \in Nat
      /\ Cardinality(App) \in Nat /\ IsFiniteSet(Choosers(d))
  BY <1>1, HoldersAreFinite DEF InboxRow
<1>4. Choosers(d)' \in SUBSET (Choosers(d) \ {a})
  BY <1>1 DEF Choosers
<1>5. /\ Cardinality(Choosers(d)') \in Nat
      /\ Cardinality(Choosers(d)') <= Cardinality(Choosers(d))
  BY <1>3, <1>4, FewerOrAsMany
<1>6. CASE d \in chosen[a]
  <2>1. a \in Choosers(d)
    BY <1>6 DEF Choosers
  <2>2. Cardinality(Choosers(d)') + 1 <= Cardinality(Choosers(d))
    BY <1>3, <1>4, <2>1, OneFewerAtLeast
  <2>3. rows'[d].attempts \in {rows[d].attempts, rows[d].attempts + 1}
    BY <1>1, <1>6 DEF ClaimRows
  <2> QED BY <1>1, <1>2, <1>3, <1>5, <2>2, <2>3
<1>7. CASE d \notin chosen[a]
  <2>1. rows'[d] = rows[d]
    BY <1>1, <1>7 DEF ClaimRows
  <2> QED BY <1>1, <1>2, <1>3, <1>5, <2>1
<1> QED BY <1>6, <1>7

\* What the statement returns has one claim of each candidate, paid for by the
\* attempt it has counted.
LEMMA BudgetOfClaimDue ==
  ASSUME Bookkeeping, ReplayBudget, NEW a \in App, ClaimDue(a)
  PROVE  ReplayBudget'
<1>1. /\ rows' = ClaimRows(rows, chosen[a])
      /\ batch' = [batch EXCEPT ![a] = ClaimedBatch(rows, chosen[a])]
      /\ chosen' = [chosen EXCEPT ![a] = {}]
      /\ replays' = replays
  BY DEF ClaimDue
<1>2. /\ chosen \in [App -> SUBSET Delivery] /\ rows \in [Delivery -> InboxRow]
      /\ batch \in [App -> SUBSET Claimed] /\ replays \in [Delivery -> Nat]
  BY DEF Bookkeeping, TypeOK
<1>3. OneClaimEach'
  BY <1>1, <1>2 DEF ReplayBudget, OneClaimEach, ClaimedBatch
<1>4. ASSUME NEW d \in Delivery
      PROVE  replays[d] + Cardinality(Holders(d)') <= rows'[d].attempts
  <2>1. replays[d] + Cardinality(Holders(d)) <= rows[d].attempts
    BY DEF ReplayBudget, ReplaysArePaid
  <2>2. /\ rows[d].attempts \in Nat /\ replays[d] \in Nat
        /\ Cardinality(Holders(d)) \in Nat /\ IsFiniteSet(Holders(d))
        /\ Cardinality(Holders(d)') \in Nat
    <3>1. Holders(d)' \in SUBSET App
      BY DEF Holders
    <3> QED BY <1>2, <3>1, HoldersAreFinite, FewerOrAsMany, WebhookInboxAssumption
            DEF InboxRow
  <2>3. CASE d \in chosen[a]
    <3>1. Holders(d)' \in SUBSET (Holders(d) \cup {a})
      BY <1>1, <1>2 DEF Holders
    <3>2. Cardinality(Holders(d)') <= Cardinality(Holders(d)) + 1
      BY <2>2, <3>1, OneMoreAtMost
    <3>3. rows'[d].attempts = rows[d].attempts + 1
      BY <1>1, <2>3 DEF ClaimRows
    <3> QED BY <2>1, <2>2, <3>2, <3>3
  <2>4. CASE d \notin chosen[a]
    <3>1. Holders(d)' \in SUBSET Holders(d)
      BY <1>1, <1>2, <2>4 DEF Holders, ClaimedBatch
    <3>2. Cardinality(Holders(d)') <= Cardinality(Holders(d))
      BY <2>2, <3>1, FewerOrAsMany
    <3>3. rows'[d] = rows[d]
      BY <1>1, <2>4 DEF ClaimRows
    <3> QED BY <2>1, <2>2, <3>2, <3>3
  <2> QED BY <2>3, <2>4
<1> QED BY <1>1, <1>3, <1>4, AttemptsInHandOfClaim DEF ReplayBudget, ReplaysArePaid

LEMMA BudgetOfClaimDueFails ==
  ASSUME Bookkeeping, ReplayBudget, NEW a \in App, ClaimDueFails(a)
  PROVE  ReplayBudget'
<1>1. /\ rows' \in {rows, ClaimRows(rows, chosen[a])}
      /\ chosen' = [chosen EXCEPT ![a] = {}]
      /\ UNCHANGED <<batch, replays>>
  BY DEF ClaimDueFails
<1>2. OneClaimEach'
  BY <1>1 DEF ReplayBudget, OneClaimEach
<1>3. ASSUME NEW d \in Delivery
      PROVE  replays[d] + Cardinality(Holders(d)') <= rows'[d].attempts
  <2>1. Holders(d)' = Holders(d)
    BY <1>1 DEF Holders
  <2>2. /\ rows[d].attempts \in Nat /\ replays[d] \in Nat
        /\ Cardinality(Holders(d)) \in Nat
    BY HoldersAreFinite DEF Bookkeeping, TypeOK, InboxRow
  <2>3. rows'[d].attempts \in {rows[d].attempts, rows[d].attempts + 1}
    BY <1>1 DEF ClaimRows
  <2>4. replays[d] + Cardinality(Holders(d)) <= rows[d].attempts
    BY DEF ReplayBudget, ReplaysArePaid
  <2> QED BY <2>1, <2>2, <2>3, <2>4
<1> QED BY <1>1, <1>2, <1>3, AttemptsInHandOfClaim DEF ReplayBudget, ReplaysArePaid

\* Who begins a replay no longer has the claim it is paid from.
LEMMA BudgetOfReplay ==
  ASSUME Bookkeeping, ReplayBudget, NEW a \in App, Replay(a)
  PROVE  ReplayBudget'
<1>1. PICK claim \in batch[a] :
        /\ batch' = [batch EXCEPT ![a] = @ \ {claim}]
        /\ replays' = [replays EXCEPT ![claim.delivery] = @ + 1]
  BY DEF Replay
<1>2. UNCHANGED <<rows, chosen>>
  BY DEF Replay
<1>3. /\ batch \in [App -> SUBSET Claimed] /\ replays \in [Delivery -> Nat]
      /\ rows \in [Delivery -> InboxRow]
  BY DEF Bookkeeping, TypeOK
<1>4. OneClaimEach'
  BY <1>1, <1>3 DEF ReplayBudget, OneClaimEach
<1>5. AttemptsInHand'
  BY <1>2 DEF ReplayBudget, AttemptsInHand, Choosers
<1>6. ASSUME NEW d \in Delivery
      PROVE  replays'[d] + Cardinality(Holders(d)') <= rows[d].attempts
  <2>1. replays[d] + Cardinality(Holders(d)) <= rows[d].attempts
    BY DEF ReplayBudget, ReplaysArePaid
  <2>2. Holders(d)' \in SUBSET Holders(d)
    BY <1>1, <1>3 DEF Holders
  <2>3. /\ rows[d].attempts \in Nat /\ replays[d] \in Nat /\ replays'[d] \in Nat
        /\ Cardinality(Holders(d)) \in Nat /\ IsFiniteSet(Holders(d))
        /\ Cardinality(Holders(d)') \in Nat
        /\ Cardinality(Holders(d)') <= Cardinality(Holders(d))
    BY <1>1, <1>3, <2>2, HoldersAreFinite, FewerOrAsMany DEF InboxRow, Claimed
  <2>4. CASE d = claim.delivery
    <3>1. a \in Holders(d)
      BY <1>1, <2>4 DEF Holders
    <3>2. Holders(d)' \in SUBSET (Holders(d) \ {a})
      <4>1. a \notin Holders(d)'
        BY <1>1, <1>3, <2>4 DEF Holders, ReplayBudget, OneClaimEach
      <4> QED BY <2>2, <4>1
    <3>3. Cardinality(Holders(d)') + 1 <= Cardinality(Holders(d))
      BY <2>3, <3>1, <3>2, OneFewerAtLeast
    <3>4. replays'[d] = replays[d] + 1
      BY <1>1, <1>3, <2>4
    <3> QED BY <2>1, <2>3, <3>3, <3>4
  <2>5. CASE d # claim.delivery
    <3>1. replays'[d] = replays[d]
      BY <1>1, <1>3, <2>5
    <3> QED BY <2>1, <2>3, <3>1
  <2> QED BY <2>4, <2>5
<1> QED BY <1>2, <1>4, <1>5, <1>6 DEF ReplayBudget, ReplaysArePaid

LEMMA BudgetStep == Bookkeeping /\ ReplayBudget /\ [Next]_vars => ReplayBudget'
<1> SUFFICES ASSUME Bookkeeping, ReplayBudget, [Next]_vars PROVE ReplayBudget'
  OBVIOUS
<1>0. /\ rows \in [Delivery -> InboxRow] /\ DeliveryOf \in [Request -> Delivery]
      /\ batch \in [App -> SUBSET Claimed] /\ chosen \in [App -> SUBSET Delivery]
      /\ \A a \in App : pass[a] \in Busy => current[a].claim.delivery \in Delivery
  BY WebhookInboxAssumption DEF Bookkeeping, TypeOK, Claimed
<1>1. ASSUME NEW r \in Request, Receive(r) \/ Process(r) \/ Settle(r) PROVE ReplayBudget'
  <2>1. UNCHANGED <<batch, chosen, replays>>
    BY <1>1 DEF Receive, Process, Settle, passVars
  <2>2. ASSUME NEW d \in Delivery PROVE rows'[d].attempts = rows[d].attempts
    <3>1. /\ ReceivedUpsert(rows, DeliveryOf[r])[d].attempts = rows[d].attempts
          /\ InboxWrite(rows, DeliveryOf[r], request[r].status)[d].attempts = rows[d].attempts
      BY <1>0, AttemptsKept
    <3>2. rows' \in {rows, ReceivedUpsert(rows, DeliveryOf[r]),
                     InboxWrite(rows, DeliveryOf[r], request[r].status)}
      BY <1>1 DEF Receive, Process, Settle, Writes, WriteLost
    <3> QED BY <3>1, <3>2
  <2> QED BY <2>1, <2>2, BudgetKept
<1>2. ASSUME NEW a \in App, ReplayEnds(a) \/ EndPass(a) \/ AppCrash(a) PROVE ReplayBudget'
  <2>1. UNCHANGED <<rows, replays>>
    BY <1>2 DEF ReplayEnds, EndPass, AppCrash
  <2>2. ASSUME NEW b \in App PROVE batch'[b] \subseteq batch[b] /\ chosen'[b] \subseteq chosen[b]
    BY <1>0, <1>2 DEF ReplayEnds, EndPass, AppCrash
  <2> QED BY <2>1, <2>2, BudgetKept
<1>3. ASSUME NEW a \in App, SettleReplay(a) \/ CatchReplay(a) PROVE ReplayBudget'
  <2>1. UNCHANGED <<chosen, replays>>
    BY <1>3 DEF SettleReplay, CatchReplay
  <2>2. ASSUME NEW b \in App PROVE batch'[b] \subseteq batch[b]
    BY <1>0, <1>3 DEF SettleReplay, CatchReplay, NextReplay
  <2>3. ASSUME NEW d \in Delivery PROVE rows'[d].attempts = rows[d].attempts
    BY <1>0, <1>3, AttemptsKept DEF SettleReplay, CatchReplay, Writes, WriteLost, Busy
  <2> QED BY <2>1, <2>2, <2>3, BudgetKept
<1>4. ASSUME NEW d \in Delivery, ComesDue(d) PROVE ReplayBudget'
  <2>1. UNCHANGED <<batch, chosen, replays>>
    BY <1>4 DEF ComesDue, passVars
  <2>2. ASSUME NEW e \in Delivery PROVE rows'[e].attempts = rows[e].attempts
    BY <1>0, <1>4 DEF ComesDue, InboxRow
  <2> QED BY <2>1, <2>2, BudgetKept
<1>5. CASE UNCHANGED vars
  BY <1>5, BudgetKept DEF vars
<1> QED
  BY <1>1, <1>2, <1>3, <1>4, <1>5, BudgetOfStartPass, BudgetOfClaimDue,
     BudgetOfClaimDueFails, BudgetOfReplay
     DEF Next, RequestStep, PassStep

\* However often a delivery is redelivered, retried or left behind by a crash,
\* it is replayed at most maxAttempts times, and once more for every further
\* process whose claimDue had selected it at the same time. (buildClaimDue)
THEOREM ReplaysStayBounded == Spec => []ReplaysAreBounded
<1>1. Bookkeeping /\ ReplayBudget => ReplaysAreBounded
  <2> SUFFICES ASSUME Bookkeeping, ReplayBudget, NEW d \in Delivery
               PROVE  replays[d] <= MaxAttempts + Cardinality(App) - 1
    BY DEF ReplaysAreBounded
  <2>1. /\ replays[d] + Cardinality(Holders(d)) <= rows[d].attempts
        /\ rows[d].attempts + Cardinality(Choosers(d)) <= MaxAttempts + Cardinality(App) - 1
    BY DEF ReplayBudget, ReplaysArePaid, AttemptsInHand
  <2>2. replays[d] \in Nat /\ rows[d].attempts \in Nat /\ MaxAttempts \in Nat
    BY InboxAssumption DEF Bookkeeping, TypeOK, InboxRow
  <2> QED BY <2>1, <2>2, HoldersAreFinite
<1> QED BY <1>1, BookkeepingInvariant, BudgetInit, BudgetStep, PTL DEF Spec

-----------------------------------------------------------------------------
(* A row says "processing" only while somebody replays its delivery.       *)

\* No status but a claim's is "processing".
LEMMA OwnedStep == Bookkeeping /\ Owned /\ [Next]_vars => Owned'
<1> SUFFICES ASSUME Bookkeeping, Owned, [Next]_vars, ~InboxFaults, MaxCrashes = 0
             PROVE  /\ RequestsNeverClaim'
                    /\ \A d \in Delivery : rows'[d].status = "processing" =>
                         \E a \in App : Replaying(a, d)'
  BY DEF Owned
<1>0. /\ RequestsNeverClaim
      /\ \A d \in Delivery : rows[d].status = "processing" => \E a \in App : Replaying(a, d)
  BY DEF Owned
<1>t. /\ rows \in [Delivery -> InboxRow] /\ request \in [Request -> [at : RequestStage, status : InboxStatus \cup {"none"}]]
      /\ pass \in [App -> PassStage] /\ batch \in [App -> SUBSET Claimed]
      /\ current \in [App -> [claim : Claimed \cup {NoClaim}, outcome : Outcome \cup {NoOutcome}]]
      /\ DeliveryOf \in [Request -> Delivery] /\ PassShape /\ OutcomeKnown
  BY WebhookInboxAssumption DEF Bookkeeping, TypeOK
<1> DEFINE Owner(d) == \E a \in App : Replaying(a, d)
           Goal == /\ RequestsNeverClaim'
                   /\ \A d \in Delivery : rows'[d].status = "processing" => Owner(d)'
<1>1. ASSUME NEW r \in Request, Receive(r) \/ Process(r) \/ Settle(r) PROVE Goal
  <2>1. UNCHANGED <<pass, batch, current>>
    BY <1>1 DEF Receive, Process, Settle, passVars
  <2>2. RequestsNeverClaim'
    <3>1. PICK stage, status : Goes(r, stage, status) /\ status # "processing"
      <4>1. CASE Receive(r)
        BY <4>1 DEF Receive
      <4>2. CASE Process(r)
        BY <4>2, StatusAfterType DEF Process
      <4>3. CASE Settle(r)
        BY <4>3 DEF Settle
      <4> QED BY <1>1, <4>1, <4>2, <4>3
    <3> QED BY <1>0, <1>t, <3>1 DEF RequestsNeverClaim, Goes
  <2>3. ASSUME NEW d \in Delivery, rows'[d].status = "processing"
        PROVE  rows[d].status = "processing"
    <3>1. CASE rows' = rows
      BY <2>3, <3>1
    <3>2. CASE rows' = ReceivedUpsert(rows, DeliveryOf[r])
      BY <1>t, <2>3, <3>2 DEF ReceivedUpsert, InboxRow
    <3>3. CASE rows' = InboxWrite(rows, DeliveryOf[r], request[r].status)
      BY <1>0, <1>t, <2>3, <3>3 DEF InboxWrite, InboxRow, RequestsNeverClaim
    <3> QED BY <1>1, <3>1, <3>2, <3>3 DEF Receive, Process, Settle, Writes, WriteLost
  <2> QED BY <1>0, <2>1, <2>2, <2>3 DEF Replaying
<1>2. ASSUME NEW a \in App, StartPass(a) \/ EndPass(a) PROVE Goal
  BY <1>0, <1>2, <1>t DEF StartPass, EndPass, Replaying, RequestsNeverClaim, Busy
<1>3. ASSUME NEW a \in App, ClaimDue(a) PROVE Goal
  <2>1. /\ rows' = ClaimRows(rows, chosen[a])
        /\ batch' = [batch EXCEPT ![a] = ClaimedBatch(rows, chosen[a])]
        /\ pass' = [pass EXCEPT ![a] = "replaying"]
        /\ pass[a] = "claiming" /\ batch[a] = {}
        /\ UNCHANGED <<request, current>>
    BY <1>3, <1>t DEF ClaimDue, PassShape
  <2>2. ASSUME NEW d \in chosen[a] PROVE Owner(d)'
    <3>1. [delivery |-> d, attempts |-> rows[d].attempts + 1] \in batch'[a]
      BY <1>t, <2>1 DEF ClaimedBatch
    <3> QED BY <3>1 DEF Replaying
  <2>3. ASSUME NEW d \in Delivery, d \notin chosen[a], rows'[d].status = "processing"
        PROVE  Owner(d)'
    <3>1. rows'[d] = rows[d]
      BY <2>1, <2>3 DEF ClaimRows
    <3>2. PICK b \in App : Replaying(b, d)
      BY <1>0, <2>3, <3>1
    <3>3. b # a
      BY <2>1, <3>2 DEF Replaying, Busy
    <3> QED BY <1>t, <2>1, <3>2, <3>3 DEF Replaying
  <2> QED BY <1>0, <2>1, <2>2, <2>3 DEF RequestsNeverClaim
<1>4. ASSUME NEW a \in App, Replay(a) PROVE Goal
  <2>1. PICK claim \in batch[a] :
          /\ batch' = [batch EXCEPT ![a] = @ \ {claim}]
          /\ current' = [current EXCEPT ![a] = [claim |-> claim, outcome |-> NoOutcome]]
    BY <1>4 DEF Replay
  <2>2. pass' = [pass EXCEPT ![a] = "processing"] /\ pass[a] = "replaying" /\ UNCHANGED <<rows, request>>
    BY <1>4 DEF Replay
  <2>3. ASSUME NEW d \in Delivery, NEW b \in App, Replaying(b, d) PROVE Replaying(b, d)'
    BY <1>t, <2>1, <2>2, <2>3 DEF Replaying, Busy
  <2> QED BY <1>0, <2>2, <2>3 DEF RequestsNeverClaim
<1>5. ASSUME NEW a \in App, ReplayEnds(a) PROVE Goal
  <2>1. ASSUME NEW d \in Delivery, NEW b \in App, Replaying(b, d) PROVE Replaying(b, d)'
    BY <1>5, <1>t, <2>1 DEF ReplayEnds, Replaying, Busy
  <2> QED BY <1>0, <1>5, <2>1 DEF ReplayEnds, RequestsNeverClaim
<1>6. ASSUME NEW a \in App, SettleReplay(a) \/ CatchReplay(a) PROVE Goal
  <2> DEFINE claim  == current[a].claim
             status == StatusAfter(current[a].outcome, claim.attempts)
  <2>1. /\ rows' = InboxWrite(rows, claim.delivery, status)
        /\ NextReplay(a)
        /\ UNCHANGED request
    BY <1>6 DEF SettleReplay, CatchReplay, Writes, WriteLost
  <2>2. claim.delivery \in Delivery /\ status # "processing"
    BY <1>6, <1>t, StatusAfterType
       DEF Bookkeeping, TypeOK, OutcomeKnown, SettleReplay, CatchReplay, Busy, Claimed
  <2>3. ASSUME NEW d \in Delivery, rows'[d].status = "processing"
        PROVE  d # claim.delivery /\ rows[d].status = "processing"
    BY <1>t, <2>1, <2>2, <2>3 DEF InboxWrite, InboxRow
  <2>4. ASSUME NEW d \in Delivery, d # claim.delivery, NEW b \in App, Replaying(b, d)
        PROVE  Replaying(b, d)'
    BY <1>t, <2>1, <2>4 DEF NextReplay, Replaying, Busy
  <2> QED BY <1>0, <2>1, <2>3, <2>4 DEF RequestsNeverClaim
<1>7. ASSUME NEW d \in Delivery, ComesDue(d) PROVE Goal
  <2>1. \A e \in Delivery : rows'[e].status = rows[e].status
    BY <1>7, <1>t DEF ComesDue, InboxRow
  <2> QED BY <1>0, <1>7, <2>1 DEF ComesDue, passVars, Replaying, RequestsNeverClaim
<1>8. CASE UNCHANGED vars
  BY <1>0, <1>8 DEF vars, Replaying, RequestsNeverClaim
<1>9. ASSUME NEW a \in App PROVE ~ClaimDueFails(a) /\ ~AppCrash(a)
  BY DEF ClaimDueFails, AppCrash, Bookkeeping, TypeOK
<1> QED
  BY <1>1, <1>2, <1>3, <1>4, <1>5, <1>6, <1>7, <1>8, <1>9 DEF Next, RequestStep, PassStep

\* When inbox statements do not fail and no process crashes, a row that says
\* "processing" is being replayed: no way a replay or a request can end leaves
\* the status behind. (processWebhookInboxOnce, updateWebhookInboxFromResult)
THEOREM ProcessingAlwaysHasOwner == Spec => []ProcessingHasOwner
<1>1. Init => Owned
  BY DEF Init, Owned, RequestsNeverClaim, NoDelivery
<1>2. Owned => ProcessingHasOwner
  BY DEF Owned, ProcessingHasOwner
<1> QED BY <1>1, <1>2, OwnedStep, BookkeepingInvariant, PTL DEF Spec

-----------------------------------------------------------------------------
(* A settled row stays as it is.                                           *)

LEMMA SoleApp ==
  ASSUME OneProcessor, NEW a \in App, NEW b \in App
  PROVE  a = b
BY FS_Singleton, WebhookInboxAssumption DEF OneProcessor

\* What a step of a request or of a pass may do to the table.
WritesAtMost(d) == \A e \in Delivery : e # d => rows'[e] = rows[e]

LEMMA WriteOfOne ==
  ASSUME rows \in [Delivery -> InboxRow], NEW d \in Delivery, NEW status,
         rows' \in {rows, ReceivedUpsert(rows, d), InboxWrite(rows, d, status)}
  PROVE  /\ WritesAtMost(d)
         /\ rows[d].status = "none" /\ rows'[d] # rows[d] =>
              rows'[d].status = "received" /\ ~rows'[d].due
BY DEF WritesAtMost, ReceivedUpsert, InboxWrite, InboxRow

LEMMA SoleWriterStep == Bookkeeping /\ SoleWriter /\ [Next]_vars => SoleWriter'
<1> SUFFICES ASSUME Bookkeeping, SoleWriter, [Next]_vars, Unhurried
             PROVE  NotYetReceived' /\ RequestIsAlone' /\ ReplayIsAlone' /\ OneClaimEach'
  BY DEF SoleWriter
<1>0. NotYetReceived /\ RequestIsAlone /\ ReplayIsAlone /\ OneClaimEach
  BY DEF SoleWriter
<1>t. /\ rows \in [Delivery -> InboxRow]
      /\ request \in [Request -> [at : RequestStage, status : InboxStatus \cup {"none"}]]
      /\ pass \in [App -> PassStage] /\ batch \in [App -> SUBSET Claimed]
      /\ chosen \in [App -> SUBSET Delivery]
      /\ current \in [App -> [claim : Claimed \cup {NoClaim}, outcome : Outcome \cup {NoOutcome}]]
      /\ DeliveryOf \in [Request -> Delivery] /\ HostOf \in [Request -> App]
      /\ PassShape /\ OutcomeKnown
  BY WebhookInboxAssumption DEF Bookkeeping, TypeOK
<1>h. /\ \A a, b \in App : a = b
      /\ \A r, s \in Request : DeliveryOf[r] = DeliveryOf[s] => r = s
      /\ SlowProcessing = FALSE /\ FailClosed = FALSE
  BY SoleApp, WebhookInboxAssumption DEF Unhurried, NoRedelivery
<1> DEFINE Goal == NotYetReceived' /\ RequestIsAlone' /\ ReplayIsAlone' /\ OneClaimEach'
<1>1. ASSUME NEW r \in Request, Receive(r) PROVE Goal
  <2> DEFINE d == DeliveryOf[r]
  <2>1. /\ request[r].at = "idle" /\ rows[d].status = "none" /\ ~rows[d].due
        /\ rows' \in {rows, ReceivedUpsert(rows, d)}
        /\ request' = [request EXCEPT ![r] = [at |-> "processing", status |-> "none"]]
        /\ UNCHANGED <<pass, batch, chosen, current>>
    BY <1>0, <1>1, <1>h DEF Receive, At, Goes, NotYetReceived, passVars
  <2>2. d \in Delivery
    BY <1>t
  <2>3. /\ \A e \in Delivery : e # d => rows'[e] = rows[e]
        /\ rows'[d].status \in {"none", "received"} /\ ~rows'[d].due
    BY <1>t, <2>1, <2>2, WriteOfOne DEF WritesAtMost
  <2>4. \A a \in App : ~Replaying(a, d) /\ d \notin chosen[a]
    BY <1>0, <2>1, <2>2 DEF ReplayIsAlone, Retryable
  <2>5. \A a \in App, e \in Delivery : Replaying(a, e)' <=> Replaying(a, e)
    BY <2>1 DEF Replaying
  <2>6. NotYetReceived'
    BY <1>0, <1>t, <1>h, <2>1, <2>3 DEF NotYetReceived
  <2>7. RequestIsAlone'
    <3> SUFFICES ASSUME NEW s \in Request, request'[s].at \in {"processing", "settling"}
                 PROVE  /\ rows'[DeliveryOf[s]].status \in {"none", "received"}
                        /\ ~rows'[DeliveryOf[s]].due
                        /\ \A a \in App : ~Replaying(a, DeliveryOf[s])' /\ DeliveryOf[s] \notin chosen'[a]
      BY DEF RequestIsAlone
    <3>1. CASE s = r
      BY <2>1, <2>2, <2>3, <2>4, <2>5, <3>1
    <3>2. CASE s # r
      <4>1. request[s].at \in {"processing", "settling"} /\ DeliveryOf[s] \in Delivery
            /\ DeliveryOf[s] # d
        BY <1>t, <1>h, <2>1, <3>2
      <4> QED BY <1>0, <2>1, <2>3, <2>5, <4>1 DEF RequestIsAlone
    <3> QED BY <3>1, <3>2
  <2>8. ReplayIsAlone'
    <3>1. ASSUME NEW a \in App, NEW e \in Delivery, Replaying(a, e)'
          PROVE  rows'[e].status = "processing" /\ ~rows'[e].due
      <4>1. Replaying(a, e) /\ e # d
        BY <2>4, <2>5, <3>1
      <4> QED BY <1>0, <2>3, <4>1 DEF ReplayIsAlone
    <3>2. ASSUME NEW a \in App, NEW e \in chosen'[a] PROVE rows'[e].status \in Retryable
      <4>1. e \in Delivery /\ e \in chosen[a] /\ e # d
        BY <1>t, <2>1, <2>4
      <4> QED BY <1>0, <2>3, <4>1 DEF ReplayIsAlone
    <3> QED BY <1>0, <2>1, <3>1, <3>2 DEF ReplayIsAlone
  <2> QED BY <1>0, <2>1, <2>6, <2>7, <2>8 DEF OneClaimEach
<1>2. ASSUME NEW r \in Request, Process(r) PROVE Goal
  <2>1. PICK status : request' = [request EXCEPT ![r] = [at |-> "settling", status |-> status]]
    BY <1>2 DEF Process, Goes
  <2>2. request[r].at = "processing" /\ UNCHANGED <<rows, pass, batch, chosen, current>>
    BY <1>2 DEF Process, At, passVars
  <2>3. \A s \in Request : /\ request'[s].at = "idle" => request[s].at = "idle"
                           /\ request'[s].at \in {"processing", "settling"} =>
                                request[s].at \in {"processing", "settling"}
    BY <1>t, <2>1, <2>2
  <2> QED BY <1>0, <2>2, <2>3
          DEF NotYetReceived, RequestIsAlone, ReplayIsAlone, OneClaimEach, Replaying
<1>3. ASSUME NEW r \in Request, Settle(r) PROVE Goal
  <2> DEFINE d == DeliveryOf[r]
  <2>1. /\ request[r].at = "settling"
        /\ rows' \in {rows, InboxWrite(rows, d, request[r].status)}
        /\ request' = [request EXCEPT ![r] = [at |-> "done", status |-> "none"]]
        /\ UNCHANGED <<pass, batch, chosen, current>>
    BY <1>3 DEF Settle, At, Goes, Writes, WriteLost, passVars
  <2>2. d \in Delivery /\ \A a \in App : ~Replaying(a, d) /\ d \notin chosen[a]
    BY <1>0, <1>t, <2>1 DEF RequestIsAlone
  <2>3. \A e \in Delivery : e # d => rows'[e] = rows[e]
    BY <1>t, <2>1, <2>2, WriteOfOne DEF WritesAtMost
  <2>4. \A s \in Request :
          request'[s].at # "done" =>
            request'[s] = request[s] /\ DeliveryOf[s] \in Delivery /\ DeliveryOf[s] # d
    BY <1>t, <1>h, <2>1
  <2>5. \A a \in App, e \in Delivery : Replaying(a, e)' <=> Replaying(a, e)
    BY <2>1 DEF Replaying
  <2>6. NotYetReceived' /\ RequestIsAlone'
    BY <1>0, <2>1, <2>3, <2>4, <2>5 DEF NotYetReceived, RequestIsAlone
  <2>7. ReplayIsAlone'
    <3>1. ASSUME NEW a \in App, NEW e \in Delivery, Replaying(a, e)'
          PROVE  rows'[e].status = "processing" /\ ~rows'[e].due
      <4>1. Replaying(a, e) /\ e # d
        BY <2>2, <2>5, <3>1
      <4> QED BY <1>0, <2>3, <4>1 DEF ReplayIsAlone
    <3>2. ASSUME NEW a \in App, NEW e \in chosen'[a] PROVE rows'[e].status \in Retryable
      <4>1. e \in Delivery /\ e \in chosen[a] /\ e # d
        BY <1>t, <2>1, <2>2
      <4> QED BY <1>0, <2>3, <4>1 DEF ReplayIsAlone
    <3> QED BY <1>0, <2>1, <3>1, <3>2 DEF ReplayIsAlone
  <2> QED BY <1>0, <2>1, <2>6, <2>7 DEF OneClaimEach
<1>4. ASSUME NEW a \in App, StartPass(a) PROVE Goal
  <2>1. PICK candidates \in Batches(rows) : chosen' = [chosen EXCEPT ![a] = candidates]
    BY <1>4 DEF StartPass
  <2>2. /\ pass[a] = "idle" /\ batch[a] = {}
        /\ pass' = [pass EXCEPT ![a] = "claiming"]
        /\ UNCHANGED <<rows, request, batch, current>>
    BY <1>4, <1>t DEF StartPass, PassShape
  <2>3. \A b \in App, e \in Delivery : ~Replaying(b, e)'
    BY <1>t, <1>h, <2>2 DEF Replaying, Busy
  <2>4. \A b \in App : \A e \in chosen'[b] : rows[e].status \in Retryable /\ rows[e].due
    BY <1>t, <1>h, <2>1 DEF Batches, DueRows
  <2> QED BY <1>0, <1>t, <1>h, <2>2, <2>3, <2>4
          DEF NotYetReceived, RequestIsAlone, ReplayIsAlone, OneClaimEach, Busy
<1>5. ASSUME NEW a \in App, ClaimDue(a) PROVE Goal
  <2>1. /\ pass[a] = "claiming"
        /\ rows' = ClaimRows(rows, chosen[a])
        /\ batch' = [batch EXCEPT ![a] = ClaimedBatch(rows, chosen[a])]
        /\ chosen' = [chosen EXCEPT ![a] = {}]
        /\ pass' = [pass EXCEPT ![a] = "replaying"]
        /\ UNCHANGED <<request, current>>
    BY <1>5 DEF ClaimDue
  <2>2. /\ \A e \in Delivery : e \notin chosen[a] => rows'[e] = rows[e]
        /\ \A e \in chosen[a] : rows'[e].status = "processing" /\ ~rows'[e].due
    BY <1>t, <2>1 DEF ClaimRows
  <2>3. \A b \in App, e \in Delivery : Replaying(b, e)' => e \in chosen[a]
    BY <1>t, <1>h, <2>1 DEF Replaying, ClaimedBatch, Busy
  <2>4. NotYetReceived'
    <3> SUFFICES ASSUME NEW s \in Request, request[s].at = "idle"
                 PROVE  rows'[DeliveryOf[s]] = rows[DeliveryOf[s]]
      BY <1>0, <2>1 DEF NotYetReceived
    <3>1. rows[DeliveryOf[s]].status = "none" /\ DeliveryOf[s] \in Delivery
      BY <1>0, <1>t DEF NotYetReceived
    <3>2. DeliveryOf[s] \notin chosen[a]
      BY <1>0, <3>1 DEF ReplayIsAlone, Retryable
    <3> QED BY <2>2, <3>1, <3>2
  <2>5. RequestIsAlone'
    <3> SUFFICES ASSUME NEW s \in Request, request[s].at \in {"processing", "settling"}
                 PROVE  /\ rows'[DeliveryOf[s]] = rows[DeliveryOf[s]]
                        /\ \A b \in App : ~Replaying(b, DeliveryOf[s])' /\ DeliveryOf[s] \notin chosen'[b]
      BY <1>0, <2>1 DEF RequestIsAlone
    <3>1. DeliveryOf[s] \in Delivery /\ DeliveryOf[s] \notin chosen[a]
      BY <1>0, <1>t DEF RequestIsAlone
    <3> QED BY <1>t, <1>h, <2>1, <2>2, <2>3, <3>1
  <2>6. ReplayIsAlone'
    <3>1. \A b \in App : chosen'[b] = {} /\ pass'[b] \notin Busy
      BY <1>t, <1>h, <2>1 DEF Busy
    <3> QED BY <2>2, <2>3, <3>1 DEF ReplayIsAlone
  <2>7. OneClaimEach'
    BY <1>t, <1>h, <2>1 DEF OneClaimEach, ClaimedBatch
  <2> QED BY <2>4, <2>5, <2>6, <2>7
<1>6. ASSUME NEW a \in App, ClaimDueFails(a) PROVE Goal
  <2>1. /\ pass[a] = "claiming" /\ batch[a] = {}
        /\ rows' \in {rows, ClaimRows(rows, chosen[a])}
        /\ chosen' = [chosen EXCEPT ![a] = {}]
        /\ pass' = [pass EXCEPT ![a] = "idle"]
        /\ UNCHANGED <<request, batch, current>>
    BY <1>6, <1>t DEF ClaimDueFails, PassShape
  <2>2. \A e \in Delivery : e \notin chosen[a] => rows'[e] = rows[e]
    BY <1>t, <2>1 DEF ClaimRows
  <2>3. \A b \in App : /\ chosen'[b] = {} /\ pass'[b] \notin Busy /\ batch'[b] = {}
                       /\ \A e \in Delivery : ~Replaying(b, e)'
    BY <1>t, <1>h, <2>1 DEF Replaying, Busy
  <2>4. NotYetReceived'
    <3> SUFFICES ASSUME NEW s \in Request, request[s].at = "idle"
                 PROVE  rows'[DeliveryOf[s]] = rows[DeliveryOf[s]]
      BY <1>0, <2>1 DEF NotYetReceived
    <3>1. rows[DeliveryOf[s]].status = "none" /\ DeliveryOf[s] \in Delivery
      BY <1>0, <1>t DEF NotYetReceived
    <3>2. DeliveryOf[s] \notin chosen[a]
      BY <1>0, <3>1 DEF ReplayIsAlone, Retryable
    <3> QED BY <2>2, <3>1, <3>2
  <2>5. RequestIsAlone'
    <3> SUFFICES ASSUME NEW s \in Request, request[s].at \in {"processing", "settling"}
                 PROVE  /\ rows'[DeliveryOf[s]] = rows[DeliveryOf[s]]
                        /\ \A b \in App : ~Replaying(b, DeliveryOf[s])' /\ DeliveryOf[s] \notin chosen'[b]
      BY <1>0, <2>1 DEF RequestIsAlone
    <3>1. DeliveryOf[s] \in Delivery /\ DeliveryOf[s] \notin chosen[a]
      BY <1>0, <1>t DEF RequestIsAlone
    <3> QED BY <2>2, <2>3, <3>1
  <2>6. ReplayIsAlone' /\ OneClaimEach'
    BY <2>3 DEF ReplayIsAlone, OneClaimEach
  <2> QED BY <2>4, <2>5, <2>6
<1>7. ASSUME NEW a \in App, Replay(a) PROVE Goal
  <2>1. PICK claim \in batch[a] :
          /\ batch' = [batch EXCEPT ![a] = @ \ {claim}]
          /\ current' = [current EXCEPT ![a] = [claim |-> claim, outcome |-> NoOutcome]]
    BY <1>7 DEF Replay
  <2>2. pass' = [pass EXCEPT ![a] = "processing"] /\ UNCHANGED <<rows, request, chosen>>
    BY <1>7 DEF Replay
  <2>3. \A b \in App, e \in Delivery : Replaying(b, e)' => Replaying(b, e)
    BY <1>t, <1>h, <2>1, <2>2 DEF Replaying, Busy
  <2>4. \A b \in App : \A x \in batch'[b] : x.delivery # current'[b].claim.delivery
    BY <1>0, <1>t, <1>h, <2>1 DEF OneClaimEach
  <2> QED BY <1>0, <1>t, <1>h, <2>1, <2>2, <2>3, <2>4
          DEF NotYetReceived, RequestIsAlone, ReplayIsAlone, OneClaimEach
<1>8. ASSUME NEW a \in App, ReplayEnds(a) PROVE Goal
  <2>1. /\ pass[a] = "processing"
        /\ \E outcome \in Outcome : current' = [current EXCEPT ![a].outcome = outcome]
        /\ UNCHANGED <<rows, request, batch, chosen>>
    BY <1>8 DEF ReplayEnds
  <2>2. \A b \in App : current'[b].claim = current[b].claim
    BY <1>t, <2>1
  <2>3. \A b \in App : pass[b] \in Busy
    BY <1>h, <2>1 DEF Busy
  <2>4. \A b \in App, e \in Delivery : Replaying(b, e)' => Replaying(b, e)
    BY <2>1, <2>2, <2>3 DEF Replaying
  <2> QED BY <1>0, <1>t, <2>1, <2>2, <2>3, <2>4
          DEF NotYetReceived, RequestIsAlone, ReplayIsAlone, OneClaimEach
<1>9. ASSUME NEW a \in App, SettleReplay(a) \/ CatchReplay(a) PROVE Goal
  <2> DEFINE d      == current[a].claim.delivery
             status == StatusAfter(current[a].outcome, current[a].claim.attempts)
  <2>1. /\ rows' \in {rows, InboxWrite(rows, d, status)}
        /\ NextReplay(a) /\ pass[a] \in Busy
        /\ UNCHANGED <<request, chosen>>
    BY <1>9, <1>h DEF SettleReplay, CatchReplay, Writes, WriteLost, Busy
  <2>2. d \in Delivery
    BY <1>t, <2>1 DEF Bookkeeping, TypeOK, Claimed
  <2>3. \A e \in Delivery : e # d => rows'[e] = rows[e]
    BY <1>t, <2>1, <2>2, WriteOfOne DEF WritesAtMost
  <2>4. Replaying(a, d) /\ chosen[a] = {}
    BY <1>t, <2>1 DEF Replaying, PassShape, Busy
  <2>5. rows[d].status = "processing"
    BY <1>0, <2>2, <2>4 DEF ReplayIsAlone
  <2>6. \A b \in App : /\ batch'[b] = batch[b] /\ pass'[b] \notin Busy /\ chosen'[b] = {}
                       /\ \A e \in Delivery : Replaying(b, e)' => Replaying(b, e) /\ e # d
    BY <1>0, <1>t, <1>h, <2>1, <2>4 DEF NextReplay, Replaying, Busy, ReplayIsAlone
  <2>7. \A s \in Request : request'[s].at \in {"idle", "processing", "settling"} =>
          DeliveryOf[s] \in Delivery /\ DeliveryOf[s] # d
    BY <1>0, <1>t, <2>1, <2>4, <2>5 DEF NotYetReceived, RequestIsAlone
  <2>8. NotYetReceived' /\ RequestIsAlone'
    BY <1>0, <2>1, <2>3, <2>6, <2>7 DEF NotYetReceived, RequestIsAlone
  <2>9. ReplayIsAlone' /\ OneClaimEach'
    BY <1>0, <2>3, <2>6 DEF ReplayIsAlone, OneClaimEach
  <2> QED BY <2>8, <2>9
<1>10. ASSUME NEW a \in App, EndPass(a) PROVE Goal
  <2>1. /\ pass[a] = "replaying" /\ pass' = [pass EXCEPT ![a] = "idle"]
        /\ UNCHANGED <<rows, request, batch, chosen, current>>
    BY <1>10 DEF EndPass
  <2>2. \A b \in App : /\ pass'[b] \notin Busy
                       /\ \A e \in Delivery : Replaying(b, e)' => Replaying(b, e)
    BY <1>t, <1>h, <2>1 DEF Replaying, Busy
  <2> QED BY <1>0, <1>t, <2>1, <2>2
          DEF NotYetReceived, RequestIsAlone, ReplayIsAlone, OneClaimEach
<1>11. ASSUME NEW a \in App, AppCrash(a) PROVE Goal
  <2>1. /\ pass' = [pass EXCEPT ![a] = "idle"] /\ batch' = [batch EXCEPT ![a] = {}]
        /\ chosen' = [chosen EXCEPT ![a] = {}] /\ UNCHANGED rows
    BY <1>11 DEF AppCrash
  <2>2. \A s \in Request : /\ request'[s].at \notin {"processing", "settling"}
                           /\ request'[s].at = "idle" => request[s].at = "idle"
    BY <1>11, <1>t, <1>h DEF AppCrash
  <2>3. \A b \in App : /\ pass'[b] \notin Busy /\ batch'[b] = {} /\ chosen'[b] = {}
                       /\ \A e \in Delivery : ~Replaying(b, e)'
    BY <1>t, <1>h, <2>1 DEF Replaying, Busy
  <2> QED BY <1>0, <2>1, <2>2, <2>3
          DEF NotYetReceived, RequestIsAlone, ReplayIsAlone, OneClaimEach
<1>12. ASSUME NEW d \in Delivery, ComesDue(d) PROVE Goal
  <2>1. /\ rows[d].status \in Retryable /\ ~Working(d)
        /\ rows' = [rows EXCEPT ![d].due = TRUE]
        /\ UNCHANGED <<request, pass, batch, chosen, current>>
    BY <1>12, <1>h DEF ComesDue, passVars
  <2>2. /\ \A e \in Delivery : e # d => rows'[e] = rows[e]
        /\ \A e \in Delivery : rows'[e].status = rows[e].status
    BY <1>t, <2>1 DEF InboxRow
  <2>3. \A a \in App, e \in Delivery : Replaying(a, e)' <=> Replaying(a, e)
    BY <2>1 DEF Replaying
  <2>4. \A a \in App : ~Replaying(a, d)
    BY <2>1 DEF Working
  <2>5. \A s \in Request : request'[s].at \in {"idle", "processing", "settling"} =>
          DeliveryOf[s] \in Delivery /\ DeliveryOf[s] # d
    BY <1>0, <1>t, <2>1 DEF Working, NotYetReceived, Retryable
  <2>6. NotYetReceived' /\ RequestIsAlone'
    BY <1>0, <2>1, <2>2, <2>3, <2>5 DEF NotYetReceived, RequestIsAlone
  <2>7. ReplayIsAlone' /\ OneClaimEach'
    BY <1>0, <1>t, <2>1, <2>2, <2>3, <2>4 DEF ReplayIsAlone, OneClaimEach
  <2> QED BY <2>6, <2>7
<1>13. CASE UNCHANGED vars
  BY <1>0, <1>13
     DEF vars, NotYetReceived, RequestIsAlone, ReplayIsAlone, OneClaimEach, Replaying
<1> QED
  BY <1>1, <1>2, <1>3, <1>4, <1>5, <1>6, <1>7, <1>8, <1>9, <1>10, <1>11, <1>12, <1>13
     DEF Next, RequestStep, PassStep

\* Whoever writes a row under these conditions finds it unsettled.
LEMMA OnlyUnsettledRowsAreWritten ==
  ASSUME Bookkeeping, SoleWriter, [Next]_vars, Unhurried,
         NEW d \in Delivery, rows[d].status \in Settled
  PROVE  rows'[d] = rows[d]
<1>0. NotYetReceived /\ RequestIsAlone /\ ReplayIsAlone
  BY DEF SoleWriter
<1>t. /\ rows \in [Delivery -> InboxRow] /\ DeliveryOf \in [Request -> Delivery]
  BY WebhookInboxAssumption DEF Bookkeeping, TypeOK
<1>1. ASSUME NEW r \in Request, Receive(r) PROVE rows'[d] = rows[d]
  <2>1. /\ rows' \in {rows, ReceivedUpsert(rows, DeliveryOf[r])}
        /\ rows[DeliveryOf[r]].status = "none"
    BY <1>0, <1>1 DEF Receive, At, NotYetReceived
  <2>2. DeliveryOf[r] # d
    BY <2>1 DEF Settled
  <2> QED BY <1>t, <2>1, <2>2, WriteOfOne DEF WritesAtMost
<1>2. ASSUME NEW r \in Request, Settle(r) PROVE rows'[d] = rows[d]
  <2>1. /\ rows' \in {rows, InboxWrite(rows, DeliveryOf[r], request[r].status)}
        /\ rows[DeliveryOf[r]].status \in {"none", "received"}
    BY <1>0, <1>2 DEF Settle, At, Writes, WriteLost, RequestIsAlone
  <2>2. DeliveryOf[r] # d
    BY <2>1 DEF Settled
  <2> QED BY <1>t, <2>1, <2>2, WriteOfOne DEF WritesAtMost
<1>3. ASSUME NEW a \in App, ClaimDue(a) \/ ClaimDueFails(a) PROVE rows'[d] = rows[d]
  <2>1. d \notin chosen[a]
    BY <1>0 DEF ReplayIsAlone, Retryable, Settled
  <2> QED BY <1>3, <1>t, <2>1 DEF ClaimDue, ClaimDueFails, ClaimRows
<1>4. ASSUME NEW a \in App, SettleReplay(a) \/ CatchReplay(a) PROVE rows'[d] = rows[d]
  <2> DEFINE e      == current[a].claim.delivery
             status == StatusAfter(current[a].outcome, current[a].claim.attempts)
  <2>1. rows' \in {rows, InboxWrite(rows, e, status)} /\ pass[a] \in Busy
    BY <1>4 DEF SettleReplay, CatchReplay, Writes, WriteLost, Busy
  <2>2. e \in Delivery /\ Replaying(a, e)
    BY <2>1 DEF Bookkeeping, TypeOK, Claimed, Replaying
  <2>3. e # d
    BY <1>0, <2>2 DEF ReplayIsAlone, Settled
  <2> QED BY <1>t, <2>1, <2>2, <2>3, WriteOfOne DEF WritesAtMost
<1>5. ASSUME NEW e \in Delivery, ComesDue(e) PROVE rows'[d] = rows[d]
  BY <1>5, <1>t DEF ComesDue, Retryable, Settled
<1> QED
  BY <1>1, <1>2, <1>3, <1>4, <1>5
     DEF Next, RequestStep, PassStep, Process, StartPass, Replay, ReplayEnds, EndPass,
         AppCrash, vars

\* With one processor, no redelivery, a retry delay that outlasts processing
\* and no failClosed, nothing writes a row that is settled, although the update
\* itself would: whoever could is done with the delivery by then.
\* (buildStatusUpdate, buildClaimDue)
THEOREM SettledRowsStaySettled == Spec => SettledStaysSettled
<1>1. Init => SoleWriter
  BY WebhookInboxAssumption
     DEF Init, SoleWriter, NotYetReceived, RequestIsAlone, ReplayIsAlone, OneClaimEach,
         Replaying, Busy, NoDelivery
<1>2. ASSUME Bookkeeping, SoleWriter, [Next]_vars
      PROVE  OneProcessor /\ NoRedelivery /\ ~SlowProcessing /\ ~FailClosed =>
               \A d \in Delivery : rows[d].status \in Settled => rows'[d] = rows[d]
  BY <1>2, OnlyUnsettledRowsAreWritten DEF Unhurried
<1>3. Bookkeeping /\ SoleWriter /\ [Next]_vars =>
        [OneProcessor /\ NoRedelivery /\ ~SlowProcessing /\ ~FailClosed =>
           \A d \in Delivery : rows[d].status \in Settled => rows'[d] = rows[d]]_vars
  BY <1>2
<1> QED
  BY <1>1, <1>3, SoleWriterStep, BookkeepingInvariant, PTL DEF Spec, SettledStaysSettled

=============================================================================
