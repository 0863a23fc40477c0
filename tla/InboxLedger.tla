---------------------------- MODULE InboxLedger -----------------------------
(***************************************************************************)
(* The webhook-inbox table ai_review_webhook_inbox and the SQL statements  *)
(* that read and write it (webhook-inbox.cjs).  A table is a function from *)
(* delivery ids to rows.  next_attempt_at compared with now() is the field *)
(* "due" (null counts as due); updated_at only orders the rows that        *)
(* claimDue may choose from, so a claim may choose any of them here.       *)
(***************************************************************************)
EXTENDS Naturals, FiniteSets

CONSTANTS
  Delivery,     \* GitHub delivery ids
  MaxAttempts,  \* settings.maxAttempts
  BatchSize     \* settings.batchSize

ASSUME InboxAssumption ==
  /\ MaxAttempts \in Nat \ {0}
  /\ BatchSize \in Nat \ {0}

Retryable   == {"received", "retry_pending", "processing"}
Settled     == {"processed", "ignored", "failed"}
InboxStatus == Retryable \union Settled

\* "none" is the status of a delivery that has no row.
InboxRow == [status : InboxStatus \union {"none"}, attempts : Nat, due : BOOLEAN]

NoDelivery == [status |-> "none", attempts |-> 0, due |-> FALSE]

\* Mutant: a redelivery starts a row from scratch.
ReceivedAnew(table, d) ==
  [table EXCEPT ![d] = [status |-> "received", attempts |-> 0, due |-> FALSE]]

\* buildReceivedUpsert: a redelivery reopens every row but a processed or an
\* ignored one, and leaves attempt_count alone.
ReceivedUpsert(table, d) ==
  IF table[d].status \in {"processed", "ignored"} THEN table
  ELSE [table EXCEPT ![d].status = "received", ![d].due = FALSE]

\* buildStatusUpdate: WHERE delivery_id = :delivery_id and nothing else.
InboxWrite(table, d, status) ==
  IF table[d].status = "none" THEN table
  ELSE [table EXCEPT ![d].status = status, ![d].due = (status # "retry_pending")]

\* Mutant: a delivery whose replay never ended is not taken up again.
NotProcessing(table) ==
  {d \in Delivery : /\ table[d].status \in Retryable \ {"processing"}
                    /\ table[d].attempts < MaxAttempts
                    /\ table[d].due}

\* Mutant: a delivery is given up one attempt early, and nothing settles it.
DueRowsOneLess(table) ==
  {d \in Delivery : /\ table[d].status \in Retryable
                    /\ table[d].attempts + 1 < MaxAttempts
                    /\ table[d].due}

\* Mutant: an ignored delivery is taken up again.
DueOrIgnored(table) ==
  {d \in Delivery : /\ table[d].status \in Retryable \union {"ignored"}
                    /\ table[d].attempts < MaxAttempts
                    /\ table[d].due}

\* The CTE "candidate" of buildClaimDue, without its ORDER BY and LIMIT.
DueRows(table) ==
  {d \in Delivery : /\ table[d].status \in Retryable
                    /\ table[d].attempts < MaxAttempts
                    /\ table[d].due}

\* What LIMIT leaves of it.
Batches(table) ==
  {batch \in SUBSET DueRows(table) :
     \/ Cardinality(batch) = BatchSize
     \/ Cardinality(batch) < BatchSize /\ batch = DueRows(table)}

\* The CTE "updated" of buildClaimDue, which increments the attempt_count
\* that the table has when the row lock is granted.
ClaimRows(table, batch) ==
  [d \in Delivery |->
     IF d \in batch
     THEN [status |-> "processing", attempts |-> table[d].attempts + 1, due |-> FALSE]
     ELSE table[d]]

\* RETURNING: the deliveries to be replayed, with their attempt counts.
ClaimedBatch(table, batch) ==
  {[delivery |-> d, attempts |-> table[d].attempts + 1] : d \in batch}

\* What processNormalizedGitHubWebhook may end with: review jobs are enqueued;
\* none is; none is and shouldRetryWebhookResult holds; an error is thrown.
Outcome == {"enqueued", "nothing", "retry", "throws"}

\* Mutant: the outcome is stored as it is.
StatusAfterRaw(outcome, attempts) == outcome

\* updateWebhookInboxFromResult, and the catch blocks around it.  A webhook
\* request has no attempt count, which stands for 0.
StatusAfter(outcome, attempts) ==
  CASE outcome = "enqueued" -> "processed"
    [] outcome = "nothing" -> "ignored"
    [] outcome \in {"retry", "throws"} ->
         IF attempts >= MaxAttempts THEN "failed" ELSE "retry_pending"
=============================================================================
