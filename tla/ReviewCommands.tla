--------------------------- MODULE ReviewCommands ---------------------------
(***************************************************************************)
(* The review commands a worker runs (src/src/review-bot.cjs main,         *)
(* src/src/glm-swarm-review.cjs runGlmSwarmReview and                      *)
(* src/src/responsiveness-review.cjs main).  Run is a set of runs of one   *)
(* command for one lane on one head: a job that was dispatched twice,      *)
(* taken over or started again.  They carry the same hidden marker, share  *)
(* the comments of the pull request and write to one usage ledger.         *)
(*                                                                         *)
(* A step is one call to GitHub, a provider or the ledger with all the     *)
(* command does until the next one.  A listing of the comments shows every *)
(* comment that was accepted before it, or it fails and none of them       *)
(* counts.                                                                 *)
(***************************************************************************)
EXTENDS Naturals, FiniteSets

CONSTANTS Run,        \* runs of the command
          Threads,    \* reviewer threads of a swarm, at most maxReviewerThreads
          CostCap,    \* settings.maxCostUsd
          MaxCost     \* bound: what a provider call may report as its cost

ASSUME CommandsAssumption ==
    /\ IsFiniteSet(Run)
    /\ Threads \in Nat \ {0}
    /\ CostCap \in Nat /\ MaxCost \in Nat

VARIABLES
    kind,        \* which command all the runs are of
    failClosed,  \* ledger, raw output retention and visual review fail closed
    at,          \* where each run is
    before,      \* markers counted before the provider is called
    calls,       \* reviewer threads a swarm has called
    text,        \* some reviewer returned text
    spent,       \* the usage a run has in hand
    comments,    \* the comments on the pull request: [form, run]
    usage,       \* rows of the usage ledger: [form, run, cost]
    billed,      \* what the providers reported to each run (observation)
    earlier,     \* the runs that had ended when a run began (observation)
    fellBack     \* the runs that looked up a notice in the fallback (observation)

vars == <<kind, failClosed, at, before, calls, text, spent, comments, usage,
          billed, earlier, fellBack>>

Kinds == {"general", "glm-swarm", "responsiveness"}
Forms == {"review", "skip", "failure"}
Ended == {"completed", "failed", "killed"}

(* Mutant: the marker of the review itself is looked up for every form.    *)
CountReviewMarker(form) == Cardinality({c \in comments : c.form = "review"})

(* countMarker: comments of a trusted author that hold the form's marker.  *)
CountMarker(form) == Cardinality({c \in comments : c.form = form})

(* getPrComments: when the issue comments cannot be listed, those of       *)
(* "gh pr view" are taken, which shows the bot under a login without       *)
(* "[bot]" that is not trusted: none of its markers counts.                *)
MarkersSeen(form, fallback) == IF fallback THEN 0 ELSE CountMarker(form)

GoTo(r, stage) == at' = [at EXCEPT ![r] = stage]

(* The command throws: the process exits with 1.                           *)
Throw(r) == GoTo(r, "failed")

-----------------------------------------------------------------------------
Init ==
    /\ kind \in Kinds
    /\ failClosed \in BOOLEAN
    /\ at = [r \in Run |-> "idle"]
    /\ before = [r \in Run |-> 0]
    /\ calls = [r \in Run |-> 0]
    /\ text = [r \in Run |-> FALSE]
    /\ spent = [r \in Run |-> 0]
    /\ comments = {} /\ usage = {}
    /\ billed = [r \in Run |-> 0]
    /\ earlier = [r \in Run |-> {}]
    /\ fellBack = {}

(* What Begin may lead to: getPrInfo fails; the pull request is skipped    *)
(* (exit code 0); the diff cannot be had, which only review-bot reports;   *)
(* the pull request is over the size budget, which only review-bot looks   *)
(* up before it says so, if it says so at all; or the review goes on.      *)
AfterHydration ==
    CASE kind = "general" ->
             {"failed", "completed", "listFailure", "listSkip", "recordSkip",
              "listBefore"}
      [] kind = "glm-swarm" ->
             {"failed", "completed", "postSkip", "recordSkip", "listBefore"}
      [] kind = "responsiveness" -> {"visual", "post"}

Begin(r) ==
    /\ at[r] = "idle"
    /\ \E stage \in AfterHydration : GoTo(r, stage)
    /\ earlier' = [earlier EXCEPT ![r] = {q \in Run : at[q] \in Ended}]
    /\ UNCHANGED <<kind, failClosed, before, calls, text, spent, comments,
                   usage, billed, fellBack>>

(* Any call to GitHub may fail.  But for the listing of issue comments and *)
(* that of inline comments, where no command leaves a marker, the failure  *)
(* is thrown on, or, while a diff failure is being reported, only logged:  *)
(* the command fails in any case.                                          *)
Stages == {"listFailure", "postFailure", "listSkip", "postSkip", "listBefore",
           "post", "check"}

GithubFails(r) ==
    /\ at[r] \in Stages
    /\ Throw(r)
    /\ UNCHANGED <<kind, failClosed, before, calls, text, spent, comments,
                   usage, billed, earlier, fellBack>>

-----------------------------------------------------------------------------
(* Comments that are looked up before they are posted.                     *)

LookUp(r, stage, form, absent, present) ==
    /\ at[r] = stage
    /\ \E fallback \in BOOLEAN :
           /\ GoTo(r, IF MarkersSeen(form, fallback) = 0 THEN absent ELSE present)
           /\ fellBack' = IF fallback THEN fellBack \cup {r} ELSE fellBack
    /\ UNCHANGED <<kind, failClosed, before, calls, text, spent, comments,
                   usage, billed, earlier>>

(* The answer to the POST may be lost although the comment was accepted.   *)
PostComment(r, stage, form, next) ==
    /\ at[r] = stage
    /\ comments' = comments \cup {[form |-> form, run |-> r]}
    /\ GoTo(r, next) \/ Throw(r)
    /\ UNCHANGED <<kind, failClosed, before, calls, text, spent, usage,
                   billed, earlier, fellBack>>

(* writeUsageEvent: a write that fails, or whose answer is lost, stops the *)
(* command only when the ledger fails closed.                              *)
WriteUsage(r, stage, form, cost, next) ==
    LET rows == usage \cup {[form |-> form, run |-> r, cost |-> cost]} IN
    /\ at[r] = stage
    /\ \/ usage' = rows /\ GoTo(r, next)
       \/ /\ usage' \in {usage, rows}
          /\ GoTo(r, IF failClosed THEN "failed" ELSE next)
    /\ UNCHANGED <<kind, failClosed, before, calls, text, spent, comments,
                   billed, earlier, fellBack>>

(* handleDiffHydrationFailure.                                             *)
ReportFailure(r) ==
    \/ LookUp(r, "listFailure", "failure", "postFailure", "failed")
    \/ PostComment(r, "postFailure", "failure", "failed")

(* The size budget.                                                        *)
ReportSkip(r) ==
    \/ LookUp(r, "listSkip", "skip", "postSkip", "recordSkip")
    \/ PostComment(r, "postSkip", "skip", "recordSkip")
    \/ WriteUsage(r, "recordSkip", "skip", 0, "completed")

-----------------------------------------------------------------------------
(* The review.                                                             *)

(* The comments are read for the prompt, and their markers counted, before *)
(* the provider is called.  A swarm whose token plan is refused throws, as *)
(* one does that cannot read the comments.                                 *)
ListBefore(r) ==
    /\ at[r] = "listBefore"
    /\ \E fallback \in BOOLEAN :
           before' = [before EXCEPT ![r] = MarkersSeen("review", fallback)]
    /\ GoTo(r, IF kind = "general" THEN "provider" ELSE "reviewer")
    /\ UNCHANGED <<kind, failClosed, calls, text, spent, comments, usage,
                   billed, earlier, fellBack>>

(* httpJson aborts a request after settings.providerTimeoutMs; so does any *)
(* error answer.  A visual review that fails is left out of the comment,   *)
(* unless it fails closed.                                                 *)
Calling == {"provider", "reviewer", "synthesis", "visual"}

(* Mutant: a request without the timeout of settings.                      *)
NeverTimesOut(r) == FALSE

MayTimeOut(r) == at[r] \in Calling

AfterCallFails(r) ==
    IF at[r] = "visual" /\ ~failClosed THEN "post" ELSE "failed"

CallFails(r) ==
    /\ MayTimeOut(r)
    /\ GoTo(r, AfterCallFails(r))
    /\ UNCHANGED <<kind, failClosed, before, calls, text, spent, comments,
                   usage, billed, earlier, fellBack>>

(* An answer costs what it costs, whether or not it has text.              *)
Answer(r, cost) == billed' = [billed EXCEPT ![r] = @ + cost]

(* requireProviderReviewText: an answer without text is an error, and its  *)
(* usage is dropped with it.                                               *)
CallProvider(r, cost, hasText) ==
    /\ at[r] \in {"provider", "visual"}
    /\ Answer(r, cost)
    /\ IF hasText
       THEN GoTo(r, "post") /\ spent' = [spent EXCEPT ![r] = cost]
       ELSE GoTo(r, AfterCallFails(r)) /\ UNCHANGED spent
    /\ UNCHANGED <<kind, failClosed, before, calls, text, comments, usage,
                   earlier, fellBack>>

(* Mutant: the usage of a reviewer without text is dropped.                *)
AccumulateText(total, cost, hasText) == IF hasText THEN total + cost ELSE total

(* accumulateUsage counts degraded results too.                            *)
Accumulate(total, cost, hasText) == total + cost

(* Mutants: the break leaves only the loop, and the synthesis is called;   *)
(* one thread too many.                                                    *)
AfterReviewerSynthesize(n, total, anyText) ==
    CASE total <= CostCap /\ n < Threads -> "reviewer"
      [] ~anyText -> "failed"
      [] OTHER -> "synthesis"

AfterReviewerInclusive(n, total, anyText) ==
    CASE total <= CostCap /\ n <= Threads -> "reviewer"
      [] ~anyText -> "failed"
      [] total > CostCap -> "retain"
      [] OTHER -> "synthesis"

(* After a reviewer: the next thread, or the synthesis, or neither once    *)
(* the aggregate is over the cap; a swarm without any text throws.         *)
AfterReviewer(n, total, anyText) ==
    CASE total <= CostCap /\ n < Threads -> "reviewer"
      [] ~anyText -> "failed"
      [] total > CostCap -> "retain"
      [] OTHER -> "synthesis"

CallReviewer(r, cost, hasText) ==
    /\ at[r] = "reviewer"
    /\ Answer(r, cost)
    /\ calls' = [calls EXCEPT ![r] = @ + 1]
    /\ text' = [text EXCEPT ![r] = @ \/ hasText]
    /\ spent' = [spent EXCEPT ![r] = Accumulate(@, cost, hasText)]
    /\ GoTo(r, AfterReviewer(calls'[r], spent'[r], text'[r]))
    /\ UNCHANGED <<kind, failClosed, before, comments, usage, earlier,
                   fellBack>>

(* normalizeInternalResult throws for a synthesis without text.            *)
CallSynthesis(r, cost, hasText) ==
    /\ at[r] = "synthesis"
    /\ Answer(r, cost)
    /\ spent' = [spent EXCEPT ![r] = IF hasText THEN Accumulate(@, cost, TRUE)
                                     ELSE @]
    /\ GoTo(r, IF hasText THEN "retain" ELSE "failed")
    /\ UNCHANGED <<kind, failClosed, before, calls, text, comments, usage,
                   earlier, fellBack>>

(* The upload of the raw outputs is best effort unless it fails closed.    *)
RetainRawOutputs(r) ==
    /\ at[r] = "retain"
    /\ GoTo(r, "post") \/ (failClosed /\ Throw(r))
    /\ UNCHANGED <<kind, failClosed, before, calls, text, spent, comments,
                   usage, billed, earlier, fellBack>>

(* Only the responsiveness command does not look at the markers again.     *)
PostReview(r) ==
    PostComment(r, "post", "review",
                IF kind = "responsiveness" THEN "record" ELSE "check")

(* Mutant: at least one new marker will do.                                *)
SomeNew(r, fallback) == MarkersSeen("review", fallback) > before[r]

ExactlyOneNew(r, fallback) == MarkersSeen("review", fallback) = before[r] + 1

CheckMarker(r) ==
    /\ at[r] = "check"
    /\ \E fallback \in BOOLEAN :
           GoTo(r, IF ExactlyOneNew(r, fallback) THEN "record" ELSE "failed")
    /\ UNCHANGED <<kind, failClosed, before, calls, text, spent, comments,
                   usage, billed, earlier, fellBack>>

(* The responsiveness run itself costs a configured estimate, taken as 0;  *)
(* its visual review has a row of its own when it has usage.               *)
RecordUsage(r) ==
    IF kind = "responsiveness"
    THEN \/ WriteUsage(r, "record", "review", 0,
                       IF spent[r] > 0 THEN "recordVisual" ELSE "completed")
         \/ WriteUsage(r, "recordVisual", "visual", spent[r], "completed")
    ELSE WriteUsage(r, "record", "review", spent[r], "completed")

(* The worker dies, or its job is cancelled.                               *)
Killed(r) ==
    /\ at[r] \notin Ended \cup {"idle"}
    /\ GoTo(r, "killed")
    /\ UNCHANGED <<kind, failClosed, before, calls, text, spent, comments,
                   usage, billed, earlier, fellBack>>

-----------------------------------------------------------------------------
(* A call to GitHub or the ledger comes back; a provider need not answer.  *)
Progress(r) ==
    \/ GithubFails(r) \/ ReportFailure(r) \/ ReportSkip(r)
    \/ ListBefore(r) \/ CallFails(r) \/ RetainRawOutputs(r)
    \/ PostReview(r) \/ CheckMarker(r) \/ RecordUsage(r)

Answered(r) ==
    \E cost \in 0..MaxCost, hasText \in BOOLEAN :
        \/ CallProvider(r, cost, hasText)
        \/ CallReviewer(r, cost, hasText)
        \/ CallSynthesis(r, cost, hasText)

Next == \E r \in Run : Begin(r) \/ Progress(r) \/ Answered(r) \/ Killed(r)

Spec == Init /\ [][Next]_vars /\ \A r \in Run : WF_vars(Progress(r))

-----------------------------------------------------------------------------
(* Properties.                                                             *)

MaxSpent == (Threads + 1) * MaxCost

TypeOK ==
    /\ kind \in Kinds /\ failClosed \in BOOLEAN
    /\ at \in [Run -> Stages \cup Calling \cup Ended \cup
                   {"idle", "retain", "record", "recordVisual", "recordSkip"}]
    /\ before \in [Run -> 0..Cardinality(Run)]
    /\ calls \in [Run -> 0..Threads]
    /\ text \in [Run -> BOOLEAN]
    /\ spent \in [Run -> 0..MaxSpent]
    /\ comments \subseteq [form: Forms, run: Run]
    /\ usage \subseteq [form: {"review", "skip", "visual"}, run: Run,
                        cost: 0..MaxSpent]
    /\ billed \in [Run -> 0..MaxSpent]
    /\ earlier \in [Run -> SUBSET Run]
    /\ fellBack \subseteq Run

Reviewed(r) == at[r] = "completed" /\ [form |-> "review", run |-> r] \in comments

(* "Expected exactly one new marker": of the runs for one head that end    *)
(* well no two can have read the comments before either had posted, however*)
(* their calls interleave (review-bot.cjs:438-446).  Overlapping runs fail,*)
(* possibly both of them, with their comments on the pull request; so does *)
(* a run that cannot list the comments after it posted.                    *)
CompletedRunsDoNotOverlap ==
    kind # "responsiveness" =>
        \A r, q \in {p \in Run : Reviewed(p)} :
            r # q => before[r] # before[q]

(* What a completed review has in the ledger is all that the providers     *)
(* reported to it, the reviewers without text included; there is such a row*)
(* unless its write failed open (glm-swarm-review.cjs:191-216, 287-303).   *)
RowsOf(r) == {u \in usage : u.run = r /\ u.form = "review"}

CompletedRunsRecordTheirSpend ==
    kind # "responsiveness" =>
        \A r \in {p \in Run : Reviewed(p)} :
            /\ \A u \in RowsOf(r) : u.cost = billed[r]
            /\ failClosed => RowsOf(r) # {}

(* Once a swarm is over its cost cap it calls no model any more, neither a *)
(* reviewer nor the synthesis: what the calls reported passes the cap by   *)
(* one call at most (glm-swarm-review.cjs:208-238).                        *)
NoCallOverTheCap ==
    [][\A r \in Run :
          kind = "glm-swarm" /\ billed[r] > CostCap => billed'[r] = billed[r]]_vars

(* A run that begins when another has ended does not repeat what that one  *)
(* told the pull request: not that it was too large, not that it could not *)
(* be reviewed (review-bot.cjs:352-356, 1938-1943).  Only overlapping runs *)
(* may both do so, and a run that could not list the issue comments, which *)
(* finds no marker in the fallback (review-bot.cjs:892-895, 1036-1038).    *)
Told(r) == {c.form : c \in {d \in comments : d.run = r}} \ {"review"}

RerunsRepeatNothing ==
    kind = "general" =>
        \A r \in Run \ fellBack : \A q \in earlier[r] : Told(r) \cap Told(q) = {}

(* A run that began ends, although a provider may never answer.            *)
RunsEnd == \A r \in Run : at[r] # "idle" ~> at[r] \in Ended
=============================================================================
