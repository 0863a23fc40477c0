--------------------------- MODULE RunClaimLedger ---------------------------
(***************************************************************************)
(* The run-claim table ai_review_run_claims and the SQL statements that    *)
(* read and write it (run-control-ledger.cjs, run-control.cjs).  A table   *)
(* is a function from run keys to rows; every statement is an operator on  *)
(* tables, so that the modules that EXTEND this one decide which process   *)
(* runs it and on which snapshot.                                          *)
(*                                                                         *)
(* Time is kept as what the statements can see of it.  expires_at compared *)
(* with now() is the field "expires" (null, still ahead, past) and         *)
(* created_at compared with the dedupe window is the field "fresh".        *)
(***************************************************************************)
EXTENDS Naturals, FiniteSets

CONSTANTS
  RunKey,         \* delivery-independent claim keys (stableReviewJobRunKey)
  Scope,          \* the (scope type, scope value) pairs that have a cap
  ScopesOf,       \* the capped scopes the subject of a run key falls under
  MaxConcurrent,  \* the cap of each scope
  DedupeEnabled,  \* policy.dedupeEnabled
  RunMode         \* policy.mode; with "off" the table is not consulted at all

ASSUME LedgerAssumption ==
  /\ ScopesOf \in [RunKey -> SUBSET Scope]
  /\ MaxConcurrent \in [Scope -> Nat]
  /\ DedupeEnabled \in BOOLEAN
  /\ RunMode \in {"warn", "enforce"}

ActiveStatus   == {"claimed", "dispatching", "running"}
TerminalStatus == {"completed", "failed", "dispatch_failed", "dispatch_error", "expired"}
ClaimStatus    == ActiveStatus \union TerminalStatus

\* "none" is the status of a run key that has no row.
Row == [status  : ClaimStatus \union {"none"},
        expires : {"never", "ahead", "past"},
        fresh   : BOOLEAN]

NoRow == [status |-> "none", expires |-> "past", fresh |-> FALSE]

HasRow(row)    == row.status # "none"
Unexpired(row) == row.expires # "past"
Active(row)    == row.status \in ActiveStatus /\ Unexpired(row)

\* Mutant: only an unexpired claim is a duplicate, a fresh one is not.
DuplicateWithoutWindow(table, k) ==
  DedupeEnabled /\ HasRow(table[k]) /\ Unexpired(table[k])

\* The CTE "duplicate".
Duplicate(table, k) ==
  /\ DedupeEnabled
  /\ HasRow(table[k])
  /\ table[k].status # "expired"
  /\ Unexpired(table[k]) \/ table[k].fresh

\* The CTE "active_counts": the claims that occupy a slot of scope s.
ActiveIn(table, s) == {k \in RunKey : s \in ScopesOf[k] /\ Active(table[k])}

\* Mutant: the cap is compared with > instead of >=.
ExceededOffByOne(table, k) ==
  {s \in ScopesOf[k] : Cardinality(ActiveIn(table, s)) > MaxConcurrent[s]}

\* The CTE "exceeded".
Exceeded(table, k) ==
  {s \in ScopesOf[k] : Cardinality(ActiveIn(table, s)) >= MaxConcurrent[s]}

\* Mutant: ON CONFLICT DO UPDATE without its WHERE.
ConflictIgnored(table, k) == FALSE

(***************************************************************************)
(* The WHERE of ON CONFLICT (run_key) DO UPDATE, which PostgreSQL          *)
(* evaluates on the latest committed row and not on the statement's        *)
(* snapshot: a row that may not be taken over.                             *)
(***************************************************************************)
Conflict(table, k) ==
  /\ HasRow(table[k])
  /\ table[k].status # "expired"
  /\ Unexpired(table[k])

\* The CTE "inserted": duplicates and caps come from the snapshot snap of
\* the statement, the conflicting row from the table as it is.
Inserts(snap, table, k) ==
  /\ ~Duplicate(snap, k)
  /\ Exceeded(snap, k) = {}
  /\ ~Conflict(table, k)

\* The CTE "result".
ClaimResult(snap, table, k) ==
  CASE Inserts(snap, table, k)   -> "claimed"
    [] Duplicate(snap, k)        -> "duplicate_run"
    [] ~Duplicate(snap, k) /\ Exceeded(snap, k) # {} -> "concurrency_limit_exceeded"
    [] OTHER                     -> "claim_conflict"

\* Mutant: expires_at is left null.
ClaimedForEver(row) == [status |-> "claimed", expires |-> "never", fresh |-> TRUE]

\* The inserted row, or the taken-over one, which keeps its created_at.
ClaimedRow(row) ==
  [status  |-> "claimed",
   expires |-> "ahead",
   fresh   |-> IF HasRow(row) THEN row.fresh ELSE TRUE]

AfterClaim(snap, table, k) ==
  IF Inserts(snap, table, k) THEN [table EXCEPT ![k] = ClaimedRow(@)] ELSE table

\* Mutant: a claim that could not be made does not deny the job.
AllowedUnlessDenied(code) == code \notin {"duplicate_run", "concurrency_limit_exceeded"}

\* Mutant: duplicates are only reported, as with "warn".
AllowedDuplicate(code) == code \in {"claimed", "duplicate_run"}

(***************************************************************************)
(* evaluateRunControl on a claim's result code: whether the job may be     *)
(* dispatched.  "unavailable" stands for a claim that could not be made    *)
(* and for claim_conflict, which the code reports the same way.            *)
(***************************************************************************)
Allowed(code) == code = "claimed" \/ RunMode = "warn"

\* buildRunClaimStatusUpdate: WHERE run_key = :run_key and nothing else.
StatusWrite(table, k, status) ==
  IF HasRow(table[k]) THEN [table EXCEPT ![k].status = status] ELSE table

\* Mutant: a worker takes a claim whatever its status.
WorkBeginAlways(table, k) == StatusWrite(table, k, "running")

\* buildRunClaimWorkBegin: the UPDATE and the duplicate verdict of one statement.
WorkBegin(table, k) ==
  IF table[k].status # "completed" THEN StatusWrite(table, k, "running") ELSE table

WorkDuplicate(table, k) == table[k].status = "completed"

\* now() passes a row's expires_at, or the end of its dedupe window.
Expire(table, k)      == [table EXCEPT ![k].expires = "past"]
LeaveWindow(table, k) == [table EXCEPT ![k].fresh = FALSE]
=============================================================================
