------------------------ MODULE ReviewCommandsProofs ------------------------
(***************************************************************************)
(* Theorems about ReviewCommands, for any finite set of runs, any number   *)
(* of reviewer threads, any cost cap and any cost of a call.               *)
(***************************************************************************)
EXTENDS ReviewCommands, FiniteSetTheorems, TLAPS

-----------------------------------------------------------------------------
(* The inductive invariant.                                                *)

\* Nothing is billed yet.
Preparing == {"idle", "listFailure", "postFailure", "listSkip", "postSkip",
              "recordSkip", "listBefore", "provider"}

\* The review has not been posted yet.
Unposted == Preparing \cup {"reviewer", "synthesis", "retain", "visual", "post"}

\* The markers have been counted and the provider's usage is at hand.
Working == {"reviewer", "synthesis", "retain", "post"}

AllStages == Stages \cup Calling \cup Ended \cup
             {"idle", "retain", "record", "recordVisual", "recordSkip"}

UsageRow == [form: {"review", "skip", "visual"}, run: Run, cost: Nat]

Shape ==
    /\ kind \in Kinds /\ failClosed \in BOOLEAN
    /\ at \in [Run -> AllStages]
    /\ before \in [Run -> Nat]
    /\ spent \in [Run -> Nat] /\ billed \in [Run -> Nat]
    /\ comments \in SUBSET [form: Forms, run: Run] /\ IsFiniteSet(comments)
    /\ usage \in SUBSET UsageRow
    /\ earlier \in [Run -> SUBSET Run] /\ fellBack \subseteq Run

\* Each command has its own stages.
StagesOfKind ==
    \A r \in Run :
        /\ kind = "general" =>
               at[r] \notin {"reviewer", "synthesis", "retain", "visual",
                             "recordVisual"}
        /\ kind = "glm-swarm" =>
               at[r] \notin {"provider", "visual", "recordVisual"}
        /\ kind = "responsiveness" =>
               at[r] \notin {"listBefore", "provider", "reviewer", "synthesis",
                             "retain", "check"}

Mine(r) == [form |-> "review", run |-> r]
Markers == CountMarker("review")
Passed(r) == at[r] \in {"record", "completed"} /\ Mine(r) \in comments

\* A marker that was counted is still there, and so is every later one: two
\* runs that counted the same number have put two markers on top of it.
MarkersAddUp ==
    kind # "responsiveness" =>
        /\ \A r \in Run : at[r] \in Working \cup {"provider"} => before[r] <= Markers
        /\ \A r \in Run : Mine(r) \in comments => before[r] + 1 <= Markers
        /\ \A r, q \in Run :
               /\ r # q /\ before[r] = before[q]
               /\ Mine(r) \in comments /\ Mine(q) \in comments
               => before[r] + 2 <= Markers

NoEarlyReview == \A r \in Run : at[r] \in Unposted => Mine(r) \notin comments

PassedDiffer ==
    kind # "responsiveness" =>
        \A r, q \in Run :
            r # q /\ Passed(r) /\ Passed(q) => before[r] # before[q]

\* What a run has in hand is what it was billed; a swarm that may still call
\* a model is not over the cap.
Spending ==
    kind # "responsiveness" =>
        \A r \in Run :
            /\ at[r] \in Preparing => billed[r] = 0 /\ spent[r] = 0
            /\ at[r] \in Working \cup {"check", "record"} => spent[r] = billed[r]
            /\ at[r] \in {"reviewer", "synthesis"} => billed[r] <= CostCap

Recorded ==
    kind # "responsiveness" =>
        /\ \A u \in usage : u.form = "review" =>
               at[u.run] \in Ended /\ u.cost = billed[u.run]
        /\ \A r \in Run :
               failClosed /\ at[r] = "completed" /\ Mine(r) \in comments =>
                   \E u \in usage : u.run = r /\ u.form = "review"

\* What a run that did not fall back is about to post, or has posted, no run
\* that had ended when it began has posted.
NothingRepeated(r, q) ==
    /\ q # r /\ at[q] \in Ended /\ at[r] # "idle"
    /\ kind = "general" /\ r \notin fellBack =>
         /\ at[r] = "postSkip" => [form |-> "skip", run |-> q] \notin comments
         /\ at[r] = "postFailure" => [form |-> "failure", run |-> q] \notin comments
         /\ \A f \in {"skip", "failure"} :
                [form |-> f, run |-> r] \in comments =>
                    [form |-> f, run |-> q] \notin comments

Notices ==
    /\ \A r \in Run : \A q \in earlier[r] : NothingRepeated(r, q)
    /\ \A r \in Run : at[r] = "idle" => \A c \in comments : c.run # r

IInv == /\ Shape /\ StagesOfKind /\ MarkersAddUp /\ NoEarlyReview
        /\ PassedDiffer /\ Spending /\ Recorded /\ Notices

-----------------------------------------------------------------------------
(* Counting markers.                                                       *)

MarkersOf(cs, form) == {c \in cs : c.form = form}

LEMMA CountIsNat ==
  ASSUME IsFiniteSet(comments), NEW form
  PROVE  /\ CountMarker(form) \in Nat
         /\ CountMarker(form) = 0 => \A c \in comments : c.form # form
<1>1. IsFiniteSet({c \in comments : c.form = form})
  BY FS_Subset
<1>2. CountMarker(form) \in Nat
  BY <1>1, FS_CardinalityType DEF CountMarker
<1>3. CountMarker(form) = 0 => {c \in comments : c.form = form} = {}
  BY <1>1, FS_EmptySet DEF CountMarker
<1> QED BY <1>2, <1>3

\* Posting the review adds one marker, posting a notice none.
LEMMA PostingCounts ==
  ASSUME IsFiniteSet(comments), NEW r \in Run, NEW form \in Forms,
         comments' = comments \cup {[form |-> form, run |-> r]},
         form = "review" => Mine(r) \notin comments
  PROVE  /\ IsFiniteSet(comments')
         /\ Markers' = IF form = "review" THEN Markers + 1 ELSE Markers
<1> DEFINE c0 == [form |-> form, run |-> r]
           old == {c \in comments : c.form = "review"}
           new == {c \in comments' : c.form = "review"}
<1>1. IsFiniteSet(comments') /\ IsFiniteSet(old)
  BY FS_AddElement, FS_Subset
<1>2. Markers = Cardinality(old) /\ Markers' = Cardinality(new)
  BY DEF Markers, CountMarker
<1>3. CASE form = "review"
  <2>1. new = old \cup {c0} /\ c0 \notin old
    BY <1>3 DEF Mine
  <2>2. Cardinality(old \cup {c0}) = Cardinality(old) + 1
    BY <1>1, <2>1, FS_AddElement
  <2> QED BY <1>1, <1>2, <1>3, <2>1, <2>2
<1>4. CASE form # "review"
  <2>1. new = old
    BY <1>4
  <2> QED BY <1>1, <1>2, <1>4, <2>1
<1> QED BY <1>3, <1>4

-----------------------------------------------------------------------------
(* Every step keeps the invariant.                                         *)

LEMMA InitIInv == Init => IInv
<1> SUFFICES ASSUME Init PROVE IInv
  OBVIOUS
<1> USE DEF Init
<1>1. Shape
  BY FS_EmptySet DEF Shape, AllStages, Stages
<1>2. StagesOfKind /\ NoEarlyReview
  BY DEF StagesOfKind, NoEarlyReview, Mine
<1>3. MarkersAddUp /\ PassedDiffer
  BY DEF MarkersAddUp, PassedDiffer, Working, Passed
<1>4. Spending /\ Recorded /\ Notices
  BY DEF Spending, Recorded, Notices, Working, Preparing
<1> QED BY <1>1, <1>2, <1>3, <1>4 DEF IInv

\* A step of r that only goes on: no comment, no row, nothing billed.
LEMMA MoveKeepsIInv ==
  ASSUME IInv, NEW r \in Run, NEW s \in AllStages,
         at' = [at EXCEPT ![r] = s],
         UNCHANGED <<kind, failClosed, before, spent, comments, usage, billed,
                     earlier>>,
         fellBack' = fellBack \/ fellBack' = fellBack \cup {r},
         at[r] \notin Ended \cup {"idle"}, s # "idle",
         s \in {"record", "recordVisual", "completed"} =>
            kind = "responsiveness",
         s \in Preparing => at[r] \in Preparing,
         s \in Unposted => at[r] \in Unposted,
         kind # "responsiveness" /\ s \in Working => at[r] \in Working,
         s \in {"reviewer", "synthesis", "provider", "listBefore", "visual",
                "check"} => s = at[r],
         kind = "general" /\ r \notin fellBack' /\ s \in {"postSkip", "postFailure"} =>
            \A q \in earlier[r] :
               [form |-> (IF s = "postSkip" THEN "skip" ELSE "failure"),
                run |-> q] \notin comments,
         s = "retain" => s = at[r] \/ kind = "glm-swarm"
  PROVE  IInv'
<1> USE DEF IInv
<1>1. Shape'
  BY DEF Shape
<1>2. at \in [Run -> AllStages] /\ at'[r] = s /\ \A q \in Run : q # r => at'[q] = at[q]
  BY DEF Shape
<1>m. Markers' = Markers
  BY DEF Markers, CountMarker
<1>3. StagesOfKind'
  BY <1>2 DEF StagesOfKind
<1>4. NoEarlyReview'
  BY <1>2 DEF NoEarlyReview, Mine
<1>5. MarkersAddUp'
  BY <1>2, <1>m DEF MarkersAddUp, Mine, Working
<1>6. PassedDiffer'
  BY <1>2 DEF PassedDiffer, Passed, Mine
<1>7. Spending'
  BY <1>2 DEF Spending, Working, Preparing
<1>8. Recorded'
  BY <1>2 DEF Recorded, Mine, Shape, UsageRow
<1>9. Notices'
  BY <1>2 DEF Notices, NothingRepeated, Shape, Ended
<1> QED BY <1>1, <1>3, <1>4, <1>5, <1>6, <1>7, <1>8, <1>9

LEMMA BeginKeepsIInv ==
  ASSUME IInv, NEW r \in Run, Begin(r)
  PROVE  IInv'
<1> USE DEF IInv
<1>1. PICK s \in AfterHydration : at' = [at EXCEPT ![r] = s]
  BY DEF Begin, GoTo
<1>2. /\ at[r] = "idle"
      /\ earlier' = [earlier EXCEPT ![r] = {q \in Run : at[q] \in Ended}]
      /\ UNCHANGED <<kind, failClosed, before, calls, text, spent, comments,
                     usage, billed, fellBack>>
  BY DEF Begin
<1>3. /\ s \in {"failed", "completed", "listFailure", "listSkip", "recordSkip",
                "listBefore", "postSkip", "visual", "post"}
      /\ kind = "general" => s \notin {"postSkip", "visual", "post"}
      /\ kind = "glm-swarm" => s \notin {"visual", "post"}
      /\ kind = "responsiveness" => s # "listBefore"
      /\ kind \in Kinds /\ at \in [Run -> AllStages]
  BY DEF AfterHydration, Shape, Kinds
<1>4. at'[r] = s /\ \A q \in Run : q # r => at'[q] = at[q]
  BY <1>1, <1>3
<1>5. Shape'
  BY <1>1, <1>2, <1>3 DEF Shape, AllStages, Ended, Stages, Calling
<1>6. Mine(r) \notin comments
  BY <1>2 DEF NoEarlyReview, Unposted, Preparing
<1>m. Markers' = Markers
  BY <1>2 DEF Markers, CountMarker
<1>7. StagesOfKind' /\ NoEarlyReview'
  BY <1>2, <1>3, <1>4, <1>6 DEF StagesOfKind, NoEarlyReview, Mine
<1>8. MarkersAddUp'
  BY <1>2, <1>3, <1>4, <1>m DEF MarkersAddUp, Mine, Working, Kinds
<1>9. PassedDiffer'
  BY <1>2, <1>3, <1>4, <1>6 DEF PassedDiffer, Passed, Mine
<1>10. Spending'
  BY <1>2, <1>3, <1>4 DEF Spending, Working, Preparing, Kinds
<1>11. Recorded'
  BY <1>2, <1>3, <1>4, <1>6 DEF Recorded, Mine, Shape, UsageRow, Ended
<1>12. Notices'
  <2>1. ASSUME NEW p \in Run, NEW q \in earlier'[p] PROVE NothingRepeated(p, q)'
    <3>1. CASE p = r
      <4>1. q \in Run /\ at[q] \in Ended /\ q # r
        BY <1>2, <2>1, <3>1 DEF Shape, Ended
      <4>2. \A f : [form |-> f, run |-> r] \notin comments
        BY <1>2 DEF Notices
      <4> QED BY <1>2, <1>3, <1>4, <3>1, <4>1, <4>2 DEF NothingRepeated
    <3>2. CASE p # r
      <4>1. q \in earlier[p] /\ q \in Run
        BY <1>2, <2>1, <3>2 DEF Shape
      <4>2. q # r
        BY <1>2, <4>1 DEF Notices, NothingRepeated, Ended
      <4> QED BY <1>2, <1>4, <3>2, <4>1, <4>2 DEF Notices, NothingRepeated
    <3> QED BY <3>1, <3>2
  <2>2. ASSUME NEW p \in Run, at'[p] = "idle"
        PROVE  \A c \in comments' : c.run # p
    BY <1>2, <1>3, <1>4, <2>2 DEF Notices
  <2> QED BY <2>1, <2>2 DEF Notices
<1> QED BY <1>5, <1>7, <1>8, <1>9, <1>10, <1>11, <1>12

\* A comment that is posted, with its answer or without: to the next stage,
\* or to "failed".
LEMMA PostKeepsIInv ==
  ASSUME IInv, NEW r \in Run, NEW stage, NEW form \in Forms, NEW next,
         PostComment(r, stage, form, next),
         stage \in {"postFailure", "postSkip", "post"},
         form = "review" <=> stage = "post",
         stage = "postSkip" => form = "skip",
         stage = "postFailure" => form = "failure",
         stage = "post" =>
             next = IF kind = "responsiveness" THEN "record" ELSE "check",
         stage = "postSkip" => next = "recordSkip",
         stage = "postFailure" => next = "failed"
  PROVE  IInv'
<1> USE DEF IInv
<1>1. PICK s \in {next, "failed"} : at' = [at EXCEPT ![r] = s]
  BY DEF PostComment, GoTo, Throw
<1>2. /\ at[r] = stage
      /\ comments' = comments \cup {[form |-> form, run |-> r]}
      /\ UNCHANGED <<kind, failClosed, before, calls, text, spent, usage,
                     billed, earlier, fellBack>>
  BY DEF PostComment
<1>3. /\ s \in {"record", "check", "recordSkip", "failed"}
      /\ s = "recordSkip" => stage = "postSkip"
      /\ s = "record" => kind = "responsiveness"
      /\ s = "check" => stage = "post" /\ kind # "responsiveness"
      /\ at \in [Run -> AllStages]
  BY DEF Shape
<1>4. at'[r] = s /\ \A q \in Run : q # r => at'[q] = at[q]
  BY <1>1, <1>3
<1>5. form = "review" => Mine(r) \notin comments
  BY <1>2 DEF NoEarlyReview, Unposted
<1>6. /\ IsFiniteSet(comments')
      /\ Markers' = IF form = "review" THEN Markers + 1 ELSE Markers
  BY <1>2, <1>5, PostingCounts DEF Shape
<1>7. Markers \in Nat
  BY CountIsNat DEF Markers, Shape
<1>8. \A q \in Run : Mine(q) \in comments' <=>
          Mine(q) \in comments \/ (q = r /\ form = "review")
  BY <1>2 DEF Mine
<1>9. Shape'
  BY <1>1, <1>2, <1>3, <1>6 DEF Shape, AllStages, Ended, Stages
<1>10. StagesOfKind'
  BY <1>2, <1>3, <1>4 DEF StagesOfKind
<1>11. NoEarlyReview'
  BY <1>2, <1>3, <1>4, <1>8 DEF NoEarlyReview, Unposted, Preparing, Mine
<1>12. MarkersAddUp'
  <2> SUFFICES ASSUME kind # "responsiveness"
               PROVE  MarkersAddUp'
    BY <1>2 DEF MarkersAddUp
  <2>1. before \in [Run -> Nat]
    BY DEF Shape
  <2>2. form = "review" => before[r] <= Markers
    BY <1>2 DEF MarkersAddUp, Working
  <2>3. \A p \in Run : at'[p] \in Working \cup {"provider"} => before'[p] <= Markers'
    BY <1>2, <1>3, <1>4, <1>6, <1>7, <2>1 DEF MarkersAddUp, Working
  <2>4. \A p \in Run : Mine(p)' \in comments' => before'[p] + 1 <= Markers'
    BY <1>2, <1>6, <1>7, <1>8, <2>1, <2>2 DEF MarkersAddUp, Mine
  <2>5. \A p, q \in Run :
           /\ p # q /\ before'[p] = before'[q]
           /\ Mine(p)' \in comments' /\ Mine(q)' \in comments'
           => before'[p] + 2 <= Markers'
    BY <1>2, <1>6, <1>7, <1>8, <2>1 DEF MarkersAddUp, Mine
  <2> QED BY <2>3, <2>4, <2>5 DEF MarkersAddUp
<1>13. PassedDiffer'
  BY <1>2, <1>3, <1>4, <1>8 DEF PassedDiffer, Passed, Mine
<1>14. Spending'
  BY <1>2, <1>3, <1>4 DEF Spending, Working, Preparing
<1>15. Recorded'
  BY <1>2, <1>3, <1>4, <1>8 DEF Recorded, Mine, Shape, UsageRow, Ended
<1>16. Notices'
  <2>1. ASSUME NEW p \in Run, NEW q \in earlier'[p] PROVE NothingRepeated(p, q)'
    <3>1. /\ q \in earlier[p] /\ q \in Run /\ q # r
          /\ NothingRepeated(p, q)
      BY <1>2, <2>1 DEF Notices, NothingRepeated, Ended, Shape
    <3>2. \A f : [form |-> f, run |-> q] \in comments'
                    => [form |-> f, run |-> q] \in comments
      BY <1>2, <3>1
    <3>3. \A f \in {"skip", "failure"} : [form |-> f, run |-> p] \in comments'
                    => \/ [form |-> f, run |-> p] \in comments
                       \/ p = r /\ form = f
      BY <1>2
    <3>4. /\ p = r /\ form = "skip" => at[p] = "postSkip"
          /\ p = r /\ form = "failure" => at[p] = "postFailure"
      BY <1>2
    <3>5. at'[p] \in {"postSkip", "postFailure"} => at'[p] = at[p]
      BY <1>3, <1>4
    <3>6. at'[q] = at[q] /\ at'[p] # "idle"
      BY <1>3, <1>4, <3>1 DEF NothingRepeated
    <3> QED BY <1>2, <3>1, <3>2, <3>3, <3>4, <3>5, <3>6 DEF NothingRepeated
  <2>2. ASSUME NEW p \in Run, at'[p] = "idle"
        PROVE  \A c \in comments' : c.run # p
    BY <1>2, <1>3, <1>4, <2>2 DEF Notices
  <2> QED BY <2>1, <2>2 DEF Notices
<1> QED BY <1>9, <1>10, <1>11, <1>12, <1>13, <1>14, <1>15, <1>16

\* A row of the ledger, written or not.
LEMMA WriteKeepsIInv ==
  ASSUME IInv, NEW r \in Run, NEW stage, NEW form \in {"review", "skip", "visual"},
         NEW cost \in Nat, NEW next,
         WriteUsage(r, stage, form, cost, next),
         stage \in {"recordSkip", "record", "recordVisual"},
         stage = "recordSkip" => form = "skip" /\ next = "completed",
         kind # "responsiveness" /\ stage = "record" =>
             form = "review" /\ cost = spent[r] /\ next = "completed",
         next \in {"recordVisual", "completed"},
         next = "recordVisual" => kind = "responsiveness"
  PROVE  IInv'
<1> USE DEF IInv
<1> DEFINE row == [form |-> form, run |-> r, cost |-> cost]
<1>1. PICK s \in {next, "failed"} : at' = [at EXCEPT ![r] = s]
  BY DEF WriteUsage, GoTo
<1>2. /\ at[r] = stage
      /\ usage' \in {usage, usage \cup {row}}
      /\ UNCHANGED <<kind, failClosed, before, calls, text, spent, comments,
                     billed, earlier, fellBack>>
  BY DEF WriteUsage
<1>3. /\ s \in {"recordVisual", "completed", "failed"}
      /\ s = "recordVisual" => kind = "responsiveness"
      /\ at \in [Run -> AllStages]
  BY DEF Shape
<1>4. at'[r] = s /\ \A q \in Run : q # r => at'[q] = at[q]
  BY <1>1, <1>3
<1>5. s = "completed" /\ failClosed => usage' = usage \cup {row}
  <2>1. CASE usage' = usage \cup {row}
    BY <2>1
  <2>2. CASE ~(usage' = usage \cup {row} /\ at' = [at EXCEPT ![r] = next])
    <3>1. failClosed => at' = [at EXCEPT ![r] = "failed"]
      BY <2>2 DEF WriteUsage, GoTo
    <3> QED BY <1>3, <1>4, <3>1
  <2> QED BY <2>1, <2>2
<1>6. Shape'
  <2>1. row \in UsageRow
    BY DEF UsageRow
  <2> QED BY <1>1, <1>2, <1>3, <2>1 DEF Shape, AllStages, Ended
<1>m. Markers' = Markers
  BY <1>2 DEF Markers, CountMarker
<1>7. StagesOfKind' /\ NoEarlyReview'
  BY <1>2, <1>3, <1>4 DEF StagesOfKind, NoEarlyReview, Mine, Unposted, Preparing
<1>8. MarkersAddUp'
  BY <1>2, <1>3, <1>4, <1>m DEF MarkersAddUp, Mine, Working
<1>9. PassedDiffer'
  <2>1. ASSUME NEW q \in Run, kind # "responsiveness", Passed(q)' PROVE Passed(q)
    <3>1. CASE q # r
      BY <1>2, <1>4, <2>1, <3>1 DEF Passed, Mine
    <3>2. CASE q = r /\ stage = "record"
      BY <1>2, <2>1, <3>2 DEF Passed, Mine
    <3>3. CASE q = r /\ stage = "recordSkip"
      BY <1>2, <2>1, <3>3 DEF Passed, Mine, NoEarlyReview, Unposted, Preparing
    <3>4. stage = "recordVisual" => kind = "responsiveness"
      BY <1>2 DEF StagesOfKind, Shape, Kinds
    <3> QED BY <2>1, <3>1, <3>2, <3>3, <3>4
  <2> QED BY <1>2, <2>1 DEF PassedDiffer
<1>10. Spending'
  BY <1>2, <1>3, <1>4 DEF Spending, Working, Preparing
<1>11. Recorded'
  <2> SUFFICES ASSUME kind # "responsiveness" PROVE Recorded'
    BY <1>2 DEF Recorded
  <2>1. stage \in {"record", "recordSkip"} /\ s \in {"completed", "failed"}
    BY <1>2, <1>3 DEF StagesOfKind, Shape, Kinds
  <2>2. stage = "record" => form = "review" /\ cost = billed[r]
    BY <1>2, <2>1 DEF Spending
  <2>3. ASSUME NEW u \in usage', u.form = "review"
        PROVE  at'[u.run] \in Ended /\ u.cost = billed'[u.run]
    <3>1. CASE u \in usage
      BY <1>2, <1>3, <1>4, <2>1, <2>3, <3>1 DEF Recorded, Shape, UsageRow, Ended
    <3>2. CASE u = row
      BY <1>2, <1>4, <2>1, <2>2, <2>3, <3>2 DEF Ended
    <3> QED BY <1>2, <3>1, <3>2
  <2>4. ASSUME NEW q \in Run, failClosed', at'[q] = "completed",
               Mine(q)' \in comments'
        PROVE  \E u \in usage' : u.run = q /\ u.form = "review"
    <3>1. CASE q # r
      BY <1>2, <1>4, <2>4, <3>1 DEF Recorded, Mine
    <3>2. CASE q = r
      <4>1. stage = "record"
        BY <1>2, <2>1, <2>4, <3>2 DEF NoEarlyReview, Unposted, Preparing, Mine
      <4>2. row \in usage' /\ row.run = r /\ row.form = "review"
        BY <1>2, <1>4, <1>5, <2>2, <2>4, <3>2, <4>1
      <4> QED BY <3>2, <4>2
    <3> QED BY <3>1, <3>2
  <2> QED BY <2>3, <2>4 DEF Recorded
<1>12. Notices'
  BY <1>2, <1>3, <1>4 DEF Notices, NothingRepeated, Shape, Ended
<1> QED BY <1>6, <1>7, <1>8, <1>9, <1>10, <1>11, <1>12

LEMMA ListKeepsIInv ==
  ASSUME IInv, NEW r \in Run, ListBefore(r)
  PROVE  IInv'
<1> USE DEF IInv
<1> DEFINE s == IF kind = "general" THEN "provider" ELSE "reviewer"
<1>1. /\ at[r] = "listBefore" /\ at' = [at EXCEPT ![r] = s]
      /\ before' \in {[before EXCEPT ![r] = Markers], [before EXCEPT ![r] = 0]}
      /\ UNCHANGED <<kind, failClosed, calls, text, spent, comments, usage,
                     billed, earlier, fellBack>>
  BY DEF ListBefore, GoTo, Markers, MarkersSeen
<1>2. at'[r] = s /\ \A q \in Run : q # r => at'[q] = at[q]
  BY <1>1 DEF Shape
<1>3. Markers \in Nat /\ Markers' = Markers
  BY <1>1, CountIsNat DEF Shape, Markers, CountMarker
<1>4. before'[r] \in {Markers, 0} /\ \A q \in Run : q # r => before'[q] = before[q]
  BY <1>1 DEF Shape
<1>5. Mine(r) \notin comments
  BY <1>1 DEF NoEarlyReview, Unposted, Preparing
<1>6. Shape'
  BY <1>1, <1>3 DEF Shape, AllStages, Calling
<1>7. StagesOfKind'
  BY <1>1, <1>2 DEF StagesOfKind
<1>8. NoEarlyReview'
  BY <1>1, <1>2, <1>5 DEF NoEarlyReview, Mine
<1>9. MarkersAddUp'
  BY <1>1, <1>2, <1>3, <1>4, <1>5 DEF MarkersAddUp, Mine, Working
<1>10. PassedDiffer'
  BY <1>1, <1>2, <1>4, <1>5 DEF PassedDiffer, Passed, Mine
<1>11. Spending'
  BY <1>1, <1>2, CommandsAssumption DEF Spending, Working, Preparing
<1>12. Recorded'
  BY <1>1, <1>2 DEF Recorded, Mine, Shape, UsageRow, Ended
<1>13. Notices'
  BY <1>1, <1>2 DEF Notices, NothingRepeated, Shape, Ended
<1> QED BY <1>6, <1>7, <1>8, <1>9, <1>10, <1>11, <1>12, <1>13

\* An answer of a model: it is billed, and used or not.
LEMMA AnswerKeepsIInv ==
  ASSUME IInv, NEW r \in Run, NEW s, NEW cost \in Nat, NEW total \in Nat,
         at[r] \in Calling,
         at' = [at EXCEPT ![r] = s],
         billed' = [billed EXCEPT ![r] = @ + cost],
         spent' = [spent EXCEPT ![r] = total],
         UNCHANGED <<kind, failClosed, before, comments, usage, earlier, fellBack>>,
         s \in {"failed", "post", "retain", "reviewer", "synthesis"},
         s \in {"retain", "reviewer", "synthesis"} => kind = "glm-swarm",
         kind # "responsiveness" /\ s # "failed" => total = billed'[r],
         s \in {"reviewer", "synthesis"} => total <= CostCap
  PROVE  IInv'
<1> USE DEF IInv
<1>1. at'[r] = s /\ \A q \in Run : q # r => at'[q] = at[q]
  BY DEF Shape
<1>2. /\ spent'[r] = total /\ billed'[r] = billed[r] + cost
      /\ \A q \in Run : q # r => spent'[q] = spent[q] /\ billed'[q] = billed[q]
  BY DEF Shape
<1>3. Markers' = Markers
  BY DEF Markers, CountMarker
<1>4. Mine(r) \notin comments
  BY DEF NoEarlyReview, Unposted, Preparing, Calling
<1>5. kind # "responsiveness" => at[r] \in Working \cup {"provider"}
  BY DEF StagesOfKind, Shape, Kinds, Calling, Working
<1>6. Shape'
  BY DEF Shape, AllStages, Stages, Ended, Calling
<1>7. StagesOfKind'
  BY <1>1 DEF StagesOfKind
<1>8. NoEarlyReview'
  BY <1>1, <1>4 DEF NoEarlyReview, Mine
<1>9. MarkersAddUp'
  BY <1>1, <1>3, <1>5 DEF MarkersAddUp, Mine, Working
<1>10. PassedDiffer'
  BY <1>1, <1>4 DEF PassedDiffer, Passed, Mine
<1>11. Spending'
  BY <1>1, <1>2 DEF Spending, Working, Preparing
<1>12. Recorded'
  BY <1>1, <1>2, <1>4 DEF Recorded, Mine, Shape, UsageRow, Ended, Calling
<1>13. Notices'
  BY <1>1 DEF Notices, NothingRepeated, Shape, Ended, Calling
<1> QED BY <1>6, <1>7, <1>8, <1>9, <1>10, <1>11, <1>12, <1>13

LEMMA CheckKeepsIInv ==
  ASSUME IInv, NEW r \in Run, CheckMarker(r)
  PROVE  IInv'
<1> USE DEF IInv
<1>0. PICK fallback \in BOOLEAN :
        at' = [at EXCEPT ![r] = IF ExactlyOneNew(r, fallback) THEN "record" ELSE "failed"]
  BY DEF CheckMarker, GoTo
<1> DEFINE s == IF ExactlyOneNew(r, fallback) THEN "record" ELSE "failed"
<1>1. /\ at[r] = "check" /\ at' = [at EXCEPT ![r] = s]
      /\ UNCHANGED <<kind, failClosed, before, calls, text, spent, comments,
                     usage, billed, earlier, fellBack>>
  BY <1>0 DEF CheckMarker
<1>2. at'[r] = s /\ \A q \in Run : q # r => at'[q] = at[q]
  BY <1>1 DEF Shape
<1>3. kind # "responsiveness"
  BY <1>1 DEF StagesOfKind
<1>4. Shape'
  BY <1>1 DEF Shape, AllStages, Ended
<1>5. StagesOfKind' /\ NoEarlyReview'
  BY <1>1, <1>2 DEF StagesOfKind, NoEarlyReview, Mine, Unposted, Preparing
<1>6. MarkersAddUp'
  BY <1>1, <1>2 DEF MarkersAddUp, Mine, Working, Markers, CountMarker
<1>7. PassedDiffer'
  <2>1. ASSUME NEW q \in Run, q # r, Passed(q), s = "record", Mine(r) \in comments
        PROVE  before[q] # before[r]
    <3>1. Markers = before[r] + 1 /\ before[r] \in Nat
      BY <2>1 DEF ExactlyOneNew, MarkersSeen, Markers, Shape
    <3>2. before[q] = before[r] => before[r] + 2 <= Markers
      BY <1>3, <2>1 DEF MarkersAddUp, Passed
    <3> QED BY <3>1, <3>2
  <2>2. ASSUME NEW q \in Run, q # r PROVE Passed(q)' <=> Passed(q)
    BY <1>1, <1>2, <2>2 DEF Passed, Mine
  <2>3. Passed(r)' => s = "record" /\ Mine(r) \in comments
    BY <1>1, <1>2 DEF Passed, Mine
  <2> QED BY <1>1, <2>1, <2>2, <2>3 DEF PassedDiffer
<1>8. Spending'
  BY <1>1, <1>2 DEF Spending, Working, Preparing
<1>9. Recorded'
  BY <1>1, <1>2 DEF Recorded, Mine, Shape, UsageRow, Ended
<1>10. Notices'
  BY <1>1, <1>2 DEF Notices, NothingRepeated, Shape, Ended
<1> QED BY <1>4, <1>5, <1>6, <1>7, <1>8, <1>9, <1>10

LEMMA LookUpKeepsIInv ==
  ASSUME IInv, NEW r \in Run, NEW stage, NEW form \in {"skip", "failure"},
         NEW absent, NEW present,
         LookUp(r, stage, form, absent, present),
         \/ stage = "listFailure" /\ form = "failure"
               /\ absent = "postFailure" /\ present = "failed"
         \/ stage = "listSkip" /\ form = "skip"
               /\ absent = "postSkip" /\ present = "recordSkip"
  PROVE  IInv'
<1>0. PICK fallback \in BOOLEAN :
        /\ at' = [at EXCEPT ![r] = IF MarkersSeen(form, fallback) = 0 THEN absent ELSE present]
        /\ fellBack' = IF fallback THEN fellBack \cup {r} ELSE fellBack
  BY DEF LookUp, GoTo
<1> DEFINE s == IF MarkersSeen(form, fallback) = 0 THEN absent ELSE present
<1>1. /\ at[r] = stage /\ at' = [at EXCEPT ![r] = s]
      /\ UNCHANGED <<kind, failClosed, before, calls, text, spent, comments,
                     usage, billed, earlier>>
      /\ fellBack' = fellBack \/ fellBack' = fellBack \cup {r}
  BY <1>0 DEF LookUp
<1>2. s \in {"postFailure", "failed", "postSkip", "recordSkip"}
  OBVIOUS
<1>3. s \in AllStages
  BY <1>2 DEF AllStages, Stages, Ended
<1>4. s \in {"postSkip", "postFailure"} /\ r \notin fellBack' => CountMarker(form) = 0
  BY <1>0 DEF MarkersSeen
<1>5. CountMarker(form) = 0 => \A q : [form |-> form, run |-> q] \notin comments
  BY CountIsNat DEF IInv, Shape
<1>6. s \in {"postSkip", "postFailure"} =>
          form = (IF s = "postSkip" THEN "skip" ELSE "failure")
  OBVIOUS
<1>7. stage \in Preparing /\ stage \notin Ended \cup {"idle"} /\ stage \in Unposted
  BY DEF Preparing, Unposted, Ended
<1>8. s \notin Working
  BY <1>2 DEF Working
<1> QED BY <1>1, <1>2, <1>3, <1>4, <1>5, <1>6, <1>7, <1>8, MoveKeepsIInv

LEMMA NextIInv == IInv /\ [Next]_vars => IInv'
<1> SUFFICES ASSUME IInv, [Next]_vars PROVE IInv'
  OBVIOUS
<1> USE CommandsAssumption
<1>1. ASSUME NEW r \in Run, Begin(r) PROVE IInv'
  BY <1>1, BeginKeepsIInv
<1>2. ASSUME NEW r \in Run, GithubFails(r) PROVE IInv'
  BY <1>2, MoveKeepsIInv DEF GithubFails, Throw, GoTo, AllStages, Ended, Stages,
     Preparing, Unposted, Working
<1>3. ASSUME NEW r \in Run, ReportFailure(r) PROVE IInv'
  <2>1. CASE LookUp(r, "listFailure", "failure", "postFailure", "failed")
    BY <2>1, LookUpKeepsIInv
  <2>2. CASE PostComment(r, "postFailure", "failure", "failed")
    BY <2>2, PostKeepsIInv DEF Forms
  <2> QED BY <1>3, <2>1, <2>2 DEF ReportFailure
<1>4. ASSUME NEW r \in Run, ReportSkip(r) PROVE IInv'
  <2>1. CASE LookUp(r, "listSkip", "skip", "postSkip", "recordSkip")
    BY <2>1, LookUpKeepsIInv
  <2>2. CASE PostComment(r, "postSkip", "skip", "recordSkip")
    BY <2>2, PostKeepsIInv DEF Forms
  <2>3. CASE WriteUsage(r, "recordSkip", "skip", 0, "completed")
    BY <2>3, WriteKeepsIInv
  <2> QED BY <1>4, <2>1, <2>2, <2>3 DEF ReportSkip
<1>5. ASSUME NEW r \in Run, ListBefore(r) PROVE IInv'
  BY <1>5, ListKeepsIInv
<1>6. ASSUME NEW r \in Run, CallFails(r) PROVE IInv'
  <2> DEFINE s == AfterCallFails(r)
  <2>1. /\ at[r] \in Calling /\ at' = [at EXCEPT ![r] = s]
        /\ UNCHANGED <<kind, failClosed, before, calls, text, spent, comments,
                       usage, billed, earlier, fellBack>>
    BY <1>6 DEF CallFails, MayTimeOut, GoTo
  <2>2. \/ s = "failed"
        \/ s = "post" /\ at[r] = "visual" /\ kind = "responsiveness"
    BY DEF AfterCallFails, IInv, StagesOfKind, Shape, Kinds
  <2>3. s \in AllStages /\ s \notin Preparing /\ s # "idle"
    BY <2>2 DEF AllStages, Stages, Ended, Preparing
  <2>4. at[r] \in Unposted /\ at[r] \notin Ended \cup {"idle"}
    BY <2>1 DEF Calling, Unposted, Preparing, Ended
  <2>5. kind # "responsiveness" => s \notin Working
    BY <2>2 DEF Working
  <2> HIDE DEF s
  <2> QED BY <2>1, <2>2, <2>3, <2>4, <2>5, MoveKeepsIInv
<1>7. ASSUME NEW r \in Run, RetainRawOutputs(r) PROVE IInv'
  <2>1. PICK s \in {"post", "failed"} :
            /\ at[r] = "retain" /\ at' = [at EXCEPT ![r] = s]
            /\ UNCHANGED <<kind, failClosed, before, calls, text, spent,
                           comments, usage, billed, earlier, fellBack>>
    BY <1>7 DEF RetainRawOutputs, GoTo, Throw
  <2> QED BY <2>1, MoveKeepsIInv DEF AllStages, Stages, Ended, Preparing,
             Unposted, Working
<1>8. ASSUME NEW r \in Run, PostReview(r) PROVE IInv'
  BY <1>8, PostKeepsIInv DEF PostReview, Forms
<1>9. ASSUME NEW r \in Run, CheckMarker(r) PROVE IInv'
  BY <1>9, CheckKeepsIInv
<1>10. ASSUME NEW r \in Run, RecordUsage(r) PROVE IInv'
  <2>1. spent[r] \in Nat
    BY DEF IInv, Shape
  <2>2. CASE kind # "responsiveness"
    <3>1. WriteUsage(r, "record", "review", spent[r], "completed")
      BY <1>10, <2>2 DEF RecordUsage
    <3> QED BY <2>1, <3>1, WriteKeepsIInv
  <2>3. CASE kind = "responsiveness"
    <3>1. CASE WriteUsage(r, "record", "review", 0,
                          IF spent[r] > 0 THEN "recordVisual" ELSE "completed")
      BY <2>3, <3>1, WriteKeepsIInv
    <3>2. CASE WriteUsage(r, "recordVisual", "visual", spent[r], "completed")
      BY <2>1, <2>3, <3>2, WriteKeepsIInv
    <3> QED BY <1>10, <2>3, <3>1, <3>2 DEF RecordUsage
  <2> QED BY <2>2, <2>3
<1>11. ASSUME NEW r \in Run, NEW cost \in 0..MaxCost, NEW hasText \in BOOLEAN,
              CallProvider(r, cost, hasText)
       PROVE  IInv'
  <2> DEFINE s == IF hasText THEN "post" ELSE AfterCallFails(r)
             total == IF hasText THEN cost ELSE spent[r]
  <2>1. /\ at[r] \in {"provider", "visual"} /\ at' = [at EXCEPT ![r] = s]
        /\ billed' = [billed EXCEPT ![r] = @ + cost]
        /\ spent' = [spent EXCEPT ![r] = total]
        /\ UNCHANGED <<kind, failClosed, before, comments, usage, earlier, fellBack>>
    BY <1>11 DEF CallProvider, Answer, GoTo, IInv, Shape
  <2>2. total \in Nat /\ cost \in Nat /\ at[r] \in Calling
    BY <2>1 DEF IInv, Shape, Calling
  <2>3. s \in {"post", "failed"}
    BY DEF AfterCallFails
  <2>4. kind # "responsiveness" => at[r] = "provider"
    BY <2>1 DEF IInv, StagesOfKind, Shape, Kinds
  <2>5. kind # "responsiveness" /\ s # "failed" => total = billed'[r]
    <3> SUFFICES ASSUME kind # "responsiveness", s # "failed"
                 PROVE  total = billed'[r]
      OBVIOUS
    <3>1. hasText /\ total = cost
      BY <2>4 DEF AfterCallFails
    <3>2. billed[r] = 0 /\ billed'[r] = billed[r] + cost
      BY <2>1, <2>4 DEF IInv, Shape, Spending, Preparing
    <3> QED BY <2>2, <3>1, <3>2
  <2> HIDE DEF s, total
  <2> QED BY <2>1, <2>2, <2>3, <2>5, AnswerKeepsIInv
<1>12. ASSUME NEW r \in Run, NEW cost \in 0..MaxCost, NEW hasText \in BOOLEAN,
              CallReviewer(r, cost, hasText)
       PROVE  IInv'
  <2> DEFINE total == spent[r] + cost
             s == AfterReviewer(calls'[r], total, text'[r])
  <2>1. /\ spent[r] \in Nat /\ cost \in Nat /\ total \in Nat
        /\ CostCap \in Nat
    BY DEF IInv, Shape
  <2>2. /\ at[r] = "reviewer"
        /\ billed' = [billed EXCEPT ![r] = @ + cost]
        /\ spent' = [spent EXCEPT ![r] = total]
        /\ UNCHANGED <<kind, failClosed, before, comments, usage, earlier, fellBack>>
    BY <1>12 DEF CallReviewer, Answer, Accumulate, IInv, Shape
  <2>3. spent'[r] = total
    BY <2>2 DEF IInv, Shape
  <2>4. at' = [at EXCEPT ![r] = s]
    BY <1>12, <2>3 DEF CallReviewer, GoTo
  <2>5. /\ s \in {"reviewer", "failed", "retain", "synthesis"}
        /\ s \in {"reviewer", "synthesis"} => total <= CostCap
    BY <2>1 DEF AfterReviewer
  <2>6. kind = "glm-swarm" /\ at[r] \in Calling
    BY <2>2 DEF IInv, StagesOfKind, Shape, Kinds, Calling
  <2>7. total = billed'[r]
    BY <2>2, <2>6 DEF IInv, Shape, Spending, Working
  <2> HIDE DEF s, total
  <2> QED BY <2>1, <2>2, <2>4, <2>5, <2>6, <2>7, AnswerKeepsIInv
<1>13. ASSUME NEW r \in Run, NEW cost \in 0..MaxCost, NEW hasText \in BOOLEAN,
              CallSynthesis(r, cost, hasText)
       PROVE  IInv'
  <2> DEFINE total == IF hasText THEN spent[r] + cost ELSE spent[r]
             s == IF hasText THEN "retain" ELSE "failed"
  <2>1. spent[r] \in Nat /\ cost \in Nat /\ total \in Nat
    BY DEF IInv, Shape
  <2>2. /\ at[r] = "synthesis" /\ at' = [at EXCEPT ![r] = s]
        /\ billed' = [billed EXCEPT ![r] = @ + cost]
        /\ spent' = [spent EXCEPT ![r] = total]
        /\ UNCHANGED <<kind, failClosed, before, comments, usage, earlier, fellBack>>
    BY <1>13 DEF CallSynthesis, Answer, Accumulate, GoTo, IInv, Shape
  <2>3. kind = "glm-swarm" /\ at[r] \in Calling
    BY <2>2 DEF IInv, StagesOfKind, Shape, Kinds, Calling
  <2>4. s # "failed" => total = billed'[r]
    BY <2>2, <2>3 DEF IInv, Shape, Spending, Working
  <2>5. s \in {"retain", "failed"}
    OBVIOUS
  <2> HIDE DEF s, total
  <2> QED BY <2>1, <2>2, <2>3, <2>4, <2>5, AnswerKeepsIInv
<1>14. ASSUME NEW r \in Run, Killed(r) PROVE IInv'
  BY <1>14, MoveKeepsIInv DEF Killed, GoTo, AllStages, Ended, Preparing,
     Unposted, Working
<1>15. CASE UNCHANGED vars
  BY <1>15 DEF vars, IInv, Shape, StagesOfKind, MarkersAddUp, NoEarlyReview,
     PassedDiffer, Spending, Recorded, Notices, NothingRepeated, Mine, Markers,
     CountMarker, Passed
<1> QED BY <1>1, <1>2, <1>3, <1>4, <1>5, <1>6, <1>7, <1>8, <1>9, <1>10, <1>11,
           <1>12, <1>13, <1>14, <1>15 DEF Next, Progress, Answered

-----------------------------------------------------------------------------
(* Theorems.                                                               *)

LEMMA Invariance == Spec => []IInv
<1>1. Init => IInv
  BY InitIInv
<1>2. IInv /\ [Next]_vars => IInv'
  BY NextIInv
<1> QED BY <1>1, <1>2, PTL DEF Spec

(* Of any number of runs for one head, no two that complete have counted   *)
(* the markers before either had posted.                                   *)
THEOREM NoOverlapCompletes == Spec => []CompletedRunsDoNotOverlap
<1>1. IInv => CompletedRunsDoNotOverlap
  BY DEF IInv, PassedDiffer, CompletedRunsDoNotOverlap, Reviewed, Passed, Mine
<1> QED BY <1>1, Invariance, PTL

(* The row of a completed review holds all that was billed for it, for any *)
(* number of reviewers, with and without text.                             *)
THEOREM SpendIsRecorded == Spec => []CompletedRunsRecordTheirSpend
<1>1. IInv => CompletedRunsRecordTheirSpend
  <2> SUFFICES ASSUME IInv, kind # "responsiveness", NEW r \in Run, Reviewed(r)
               PROVE  /\ \A u \in RowsOf(r) : u.cost = billed[r]
                      /\ failClosed => RowsOf(r) # {}
    BY DEF CompletedRunsRecordTheirSpend
  <2>1. \A u \in RowsOf(r) : u.cost = billed[r]
    BY DEF IInv, Recorded, RowsOf
  <2>2. failClosed => \E u \in usage : u.run = r /\ u.form = "review"
    BY DEF IInv, Recorded, Reviewed, Mine
  <2> QED BY <2>1, <2>2 DEF RowsOf
<1> QED BY <1>1, Invariance, PTL

(* A run that begins when another has ended posts no notice it has posted, *)
(* unless it could not list the issue comments: then the fallback hides    *)
(* the marker of the notice (getPrComments, isTrustedMarkerAuthor).        *)
THEOREM RerunsThatListRepeatNothing == Spec => []RerunsRepeatNothing
<1>1. IInv => RerunsRepeatNothing
  <2> SUFFICES ASSUME IInv, kind = "general", NEW r \in Run \ fellBack, NEW q \in earlier[r],
                      NEW f \in Told(r), f \in Told(q)
               PROVE  FALSE
    BY DEF RerunsRepeatNothing
  <2>1. PICK c \in comments : c.run = r /\ c.form = f /\ f # "review"
    BY DEF Told
  <2>2. PICK d \in comments : d.run = q /\ d.form = f
    BY DEF Told
  <2>3. c = [form |-> f, run |-> r] /\ d = [form |-> f, run |-> q]
        /\ f \in {"skip", "failure"}
    BY <2>1, <2>2 DEF IInv, Shape, Forms
  <2> QED BY <2>1, <2>2, <2>3 DEF IInv, Notices, NothingRepeated
<1> QED BY <1>1, Invariance, PTL

(* A swarm that is over its cap is billed nothing more, for any cap, number*)
(* of reviewers and cost of a call.                                        *)
THEOREM CapStopsCalls == Spec => NoCallOverTheCap
<1>1. IInv /\ [Next]_vars =>
          [\A r \in Run : kind = "glm-swarm" /\ billed[r] > CostCap
                              => billed'[r] = billed[r]]_vars
  <2> SUFFICES ASSUME IInv, [Next]_vars, NEW r \in Run, kind = "glm-swarm",
                      billed[r] > CostCap
               PROVE  billed'[r] = billed[r]
    OBVIOUS
  <2>1. at[r] \notin {"provider", "visual", "reviewer", "synthesis"}
    BY CommandsAssumption DEF IInv, StagesOfKind, Spending, Shape
  <2>2. CASE UNCHANGED billed
    BY <2>2
  <2>3. ASSUME NEW q \in Run, NEW cost \in 0..MaxCost, NEW hasText \in BOOLEAN,
               \/ CallProvider(q, cost, hasText)
               \/ CallReviewer(q, cost, hasText)
               \/ CallSynthesis(q, cost, hasText)
        PROVE  billed'[r] = billed[r]
    <3>1. q # r /\ billed' = [billed EXCEPT ![q] = @ + cost]
      BY <2>1, <2>3 DEF CallProvider, CallReviewer, CallSynthesis, Answer
    <3> QED BY <3>1 DEF IInv, Shape
  <2>4. ASSUME NEW q \in Run, Begin(q) \/ Progress(q) \/ Killed(q)
        PROVE  UNCHANGED billed
    BY <2>4 DEF Begin, Progress, Killed, GithubFails, ReportFailure, ReportSkip,
       ListBefore, CallFails, RetainRawOutputs, PostReview, CheckMarker,
       RecordUsage, LookUp, PostComment, WriteUsage
  <2> QED BY <2>2, <2>3, <2>4 DEF Next, Answered, vars
<1> QED BY <1>1, Invariance, PTL DEF NoCallOverTheCap, Spec
-----------------------------------------------------------------------------
(* The types, with what a run can be billed.                               *)

\* A run calls every thread once and the synthesis once, and has in hand no
\* more than it was billed.
Costs ==
    \A r \in Run :
        /\ at[r] \in Preparing \cup {"visual"} => calls[r] = 0 /\ billed[r] = 0
        /\ at[r] = "reviewer" => calls[r] < Threads
        /\ at[r] \in {"reviewer", "synthesis"} => billed[r] <= calls[r] * MaxCost
        /\ spent[r] <= billed[r] /\ billed[r] <= MaxSpent

CostInv ==
    /\ calls \in [Run -> 0..Threads] /\ text \in [Run -> BOOLEAN]
    /\ before \in [Run -> 0..Cardinality(Run)]
    /\ usage \subseteq [form: {"review", "skip", "visual"}, run: Run, cost: 0..MaxSpent]
    /\ Costs

LEMMA CostOfCalls ==
  ASSUME NEW n \in 0..Threads
  PROVE  /\ n * MaxCost \in Nat /\ MaxSpent \in Nat
         /\ (n + 1) * MaxCost = n * MaxCost + MaxCost
         /\ n * MaxCost + MaxCost <= MaxSpent
<1> USE CommandsAssumption
<1>1. /\ n \in Nat /\ Threads - n \in Nat /\ Threads \in Nat /\ MaxCost \in Nat
  OBVIOUS
<1>2. \A i, j \in Nat : i * j \in Nat /\ (i + 1) * j = i * j + j
  OBVIOUS
<1>3. \A i, j, k \in Nat : (i + j) * k = i * k + j * k
  OBVIOUS
<1>4. n * MaxCost \in Nat /\ (Threads - n) * MaxCost \in Nat /\ Threads * MaxCost \in Nat
      /\ (n + 1) * MaxCost = n * MaxCost + MaxCost
      /\ MaxSpent = Threads * MaxCost + MaxCost
  BY <1>1, <1>2 DEF MaxSpent
<1>5. n + (Threads - n) = Threads
  BY <1>1
<1>6. Threads * MaxCost = n * MaxCost + (Threads - n) * MaxCost
  BY <1>1, <1>3, <1>5
<1> QED BY <1>1, <1>4, <1>6

\* There is one marker of a review for each run, at most.
LEMMA MarkersOfRuns ==
  ASSUME IInv
  PROVE  Markers \in 0..Cardinality(Run)
<1> DEFINE M == {c \in comments : c.form = "review"}
           f == [c \in M |-> c.run]
<1>1. IsFiniteSet(Run) /\ Cardinality(Run) \in Nat
  BY CommandsAssumption, FS_CardinalityType
<1>2. \A c \in M : c.run \in Run /\ c = Mine(c.run)
  BY DEF IInv, Shape, Mine
<1>3. f \in Injection(M, Run)
  <2>1. f \in [M -> Run] /\ \A c, d \in M : f[c] = f[d] => c = d
    BY <1>2
  <2> HIDE DEF f, M
  <2> QED BY <2>1 DEF Injection, IsInjective
<1> HIDE DEF f, M
<1>4. IsFiniteSet(M) /\ Cardinality(M) <= Cardinality(Run)
  BY <1>1, <1>3, FS_Injection
<1>5. Cardinality(M) \in Nat
  BY <1>4, FS_CardinalityType
<1>6. Markers = Cardinality(M)
  BY DEF Markers, CountMarker, M
<1> QED BY <1>1, <1>4, <1>5, <1>6

LEMMA InitCosts == Init => CostInv
<1> SUFFICES ASSUME Init PROVE CostInv
  OBVIOUS
<1>1. Cardinality(Run) \in Nat /\ Threads \in Nat
  BY CommandsAssumption, FS_CardinalityType
<1>2. 0 \in 0..Threads /\ MaxSpent \in Nat /\ 0 * MaxCost = 0
  BY <1>1, CostOfCalls, CommandsAssumption
<1> QED BY <1>1, <1>2 DEF Init, CostInv, Costs

\* A step that calls no model: at most it moves on.
LEMMA MoveKeepsCosts ==
  ASSUME IInv, CostInv, NEW r \in Run, NEW s,
         at' = [at EXCEPT ![r] = s],
         UNCHANGED <<calls, text, spent, billed>>,
         \/ before' = before
         \/ before' \in {[before EXCEPT ![r] = Markers], [before EXCEPT ![r] = 0]},
         usage' \subseteq usage
           \cup [form: {"review", "skip", "visual"}, run: Run, cost: 0..MaxSpent],
         s \in Preparing \cup {"visual"} => at[r] \in Preparing,
         s = "reviewer" => at[r] \in Preparing,
         s # "synthesis"
  PROVE  CostInv'
<1>1. before' \in [Run -> 0..Cardinality(Run)]
  <2>1. 0 \in 0..Cardinality(Run)
    BY CommandsAssumption, FS_CardinalityType
  <2> QED BY <2>1, MarkersOfRuns DEF CostInv
<1>2. usage' \subseteq [form: {"review", "skip", "visual"}, run: Run, cost: 0..MaxSpent]
  BY DEF CostInv
<1>3. at \in [Run -> AllStages]
  BY DEF IInv, Shape
<1>4. Costs'
  <2> SUFFICES ASSUME NEW q \in Run
               PROVE  /\ at'[q] \in Preparing \cup {"visual"} => calls[q] = 0 /\ billed[q] = 0
                      /\ at'[q] = "reviewer" => calls[q] < Threads
                      /\ at'[q] \in {"reviewer", "synthesis"} => billed[q] <= calls[q] * MaxCost
                      /\ spent[q] <= billed[q] /\ billed[q] <= MaxSpent
    BY DEF Costs, MaxSpent
  <2>1. CASE q # r
    BY <1>3, <2>1 DEF CostInv, Costs
  <2>2. CASE q = r
    <3>1. at'[r] = s
      BY <1>3
    <3>2. CASE s = "reviewer"
      <4>1. calls[r] = 0 /\ billed[r] = 0
        BY <3>2 DEF CostInv, Costs
      <4>2. 0 < Threads /\ 0 <= 0 * MaxCost
        BY CommandsAssumption
      <4> QED BY <2>2, <3>1, <3>2, <4>1, <4>2 DEF CostInv, Costs, Preparing
    <3>3. CASE s # "reviewer"
      BY <2>2, <3>1, <3>3 DEF CostInv, Costs
    <3> QED BY <3>2, <3>3
  <2> QED BY <2>1, <2>2
<1> QED BY <1>1, <1>2, <1>4 DEF CostInv, MaxSpent

\* A call of a model adds at most MaxCost, and there are Threads + 1 of them.
LEMMA CallKeepsCosts ==
  ASSUME IInv, CostInv, NEW r \in Run, NEW cost \in 0..MaxCost, NEW s, NEW total, NEW n,
         at' = [at EXCEPT ![r] = s],
         billed' = [billed EXCEPT ![r] = @ + cost],
         spent' = [spent EXCEPT ![r] = total],
         calls' = [calls EXCEPT ![r] = n],
         text' \in [Run -> BOOLEAN],
         UNCHANGED <<before, usage>>,
         total \in Nat, total <= spent[r] + cost \/ (billed[r] = 0 /\ total <= cost),
         \/ at[r] \in {"provider", "visual"} /\ n = calls[r]
         \/ at[r] = "reviewer" /\ n = calls[r] + 1
         \/ at[r] = "synthesis" /\ n = calls[r],
         s \notin Preparing \cup {"visual"},
         s = "reviewer" => n < Threads,
         s \in {"reviewer", "synthesis"} => at[r] = "reviewer"
  PROVE  CostInv'
<1> DEFINE b == billed[r] + cost
<1>1. /\ at \in [Run -> AllStages] /\ spent \in [Run -> Nat] /\ billed \in [Run -> Nat]
      /\ calls \in [Run -> 0..Threads] /\ Threads \in Nat /\ MaxCost \in Nat
      /\ MaxSpent \in Nat
  BY CostOfCalls, CommandsAssumption DEF IInv, Shape, CostInv, MaxSpent
<1>2. /\ at'[r] = s /\ billed'[r] = b /\ spent'[r] = total /\ calls'[r] = n
      /\ \A q \in Run \ {r} : /\ at'[q] = at[q] /\ billed'[q] = billed[q]
                              /\ spent'[q] = spent[q] /\ calls'[q] = calls[q]
  BY <1>1
<1>3. calls[r] \in 0..Threads /\ billed[r] \in Nat /\ spent[r] \in Nat /\ spent[r] <= billed[r]
  BY <1>1 DEF CostInv, Costs
<1>4. /\ calls[r] * MaxCost \in Nat
      /\ (calls[r] + 1) * MaxCost = calls[r] * MaxCost + MaxCost
      /\ calls[r] * MaxCost + MaxCost <= MaxSpent
  BY <1>3, CostOfCalls
<1>5. billed[r] <= calls[r] * MaxCost
  <2>1. CASE at[r] \in {"provider", "visual"}
    BY <1>3, <1>4, <2>1 DEF CostInv, Costs, Preparing
  <2>2. CASE at[r] \in {"reviewer", "synthesis"}
    BY <2>2 DEF CostInv, Costs
  <2> QED BY <2>1, <2>2
<1>6. b <= calls[r] * MaxCost + MaxCost /\ b <= MaxSpent /\ total <= b
  BY <1>1, <1>3, <1>4, <1>5
<1>7. n \in 0..Threads
  BY <1>1, <1>3 DEF CostInv, Costs
<1>8. s \in {"reviewer", "synthesis"} => b <= n * MaxCost
  BY <1>4, <1>6
<1> HIDE DEF b
<1>9. Costs'
  BY <1>2, <1>6, <1>8 DEF CostInv, Costs, MaxSpent
<1>10. calls' \in [Run -> 0..Threads]
  BY <1>1, <1>7
<1> QED BY <1>9, <1>10 DEF CostInv, MaxSpent

LEMMA NextCosts == IInv /\ CostInv /\ [Next]_vars => CostInv'
<1> SUFFICES ASSUME IInv, CostInv, [Next]_vars PROVE CostInv'
  OBVIOUS
<1>1. ASSUME NEW r \in Run, Begin(r) PROVE CostInv'
  <2>1. PICK s \in AfterHydration : at' = [at EXCEPT ![r] = s]
    BY <1>1 DEF Begin, GoTo
  <2>2. /\ at[r] = "idle" /\ UNCHANGED <<calls, text, spent, billed, before, usage>>
    BY <1>1 DEF Begin
  <2>3. s \notin {"reviewer", "synthesis"}
    BY DEF AfterHydration, IInv, Shape, Kinds
  <2> QED BY <2>1, <2>2, <2>3, MoveKeepsCosts DEF Preparing
<1>2. ASSUME NEW r \in Run, GithubFails(r) PROVE CostInv'
  BY <1>2, MoveKeepsCosts DEF GithubFails, Throw, GoTo, Preparing
<1>3. ASSUME NEW r \in Run, NEW stage, NEW form, NEW absent, NEW present,
             LookUp(r, stage, form, absent, present),
             stage \in Preparing,
             absent \notin {"reviewer", "synthesis"}, present \notin {"reviewer", "synthesis"}
      PROVE  CostInv'
  <2>1. PICK s \in {absent, present} : at' = [at EXCEPT ![r] = s]
    BY <1>3 DEF LookUp, GoTo
  <2>2. /\ at[r] = stage /\ UNCHANGED <<calls, text, spent, billed, before, usage>>
    BY <1>3 DEF LookUp
  <2> QED BY <1>3, <2>1, <2>2, MoveKeepsCosts
<1>4. ASSUME NEW r \in Run, NEW stage, NEW form, NEW next, PostComment(r, stage, form, next),
             \/ next \in {"failed", "record", "check"}
             \/ next = "recordSkip" /\ stage \in Preparing
      PROVE  CostInv'
  <2>1. PICK s \in {next, "failed"} : at' = [at EXCEPT ![r] = s]
    BY <1>4 DEF PostComment, GoTo, Throw
  <2>2. /\ at[r] = stage /\ UNCHANGED <<calls, text, spent, billed, before, usage>>
    BY <1>4 DEF PostComment
  <2> QED BY <1>4, <2>1, <2>2, MoveKeepsCosts DEF Preparing
<1>5. ASSUME NEW r \in Run, NEW stage, NEW form \in {"review", "skip", "visual"},
             NEW cost \in 0..MaxSpent, NEW next, WriteUsage(r, stage, form, cost, next),
             next \in {"completed", "recordVisual"}
      PROVE  CostInv'
  <2>1. PICK s \in {next, "failed"} : at' = [at EXCEPT ![r] = s]
    BY <1>5 DEF WriteUsage, GoTo
  <2>2. /\ UNCHANGED <<calls, text, spent, billed, before>>
        /\ usage' \subseteq usage \cup {[form |-> form, run |-> r, cost |-> cost]}
    BY <1>5 DEF WriteUsage
  <2>3. usage' \subseteq usage
          \cup [form: {"review", "skip", "visual"}, run: Run, cost: 0..MaxSpent]
    BY <1>5, <2>2
  <2>4. s \notin {"reviewer", "synthesis", "visual"} \cup Preparing
    BY <1>5, <2>1 DEF Preparing
  <2> QED BY <2>1, <2>2, <2>3, <2>4, MoveKeepsCosts
<1>6. ASSUME NEW r \in Run, ReportFailure(r) PROVE CostInv'
  BY <1>3, <1>4, <1>6 DEF ReportFailure, Preparing
<1>7. \A r \in Run : spent[r] \in 0..MaxSpent /\ 0 \in 0..MaxSpent
  <2>1. MaxSpent \in Nat
    BY CostOfCalls, CommandsAssumption
  <2> QED BY <2>1 DEF CostInv, Costs, IInv, Shape
<1>8. ASSUME NEW r \in Run, ReportSkip(r) PROVE CostInv'
  BY <1>3, <1>4, <1>5, <1>7, <1>8 DEF ReportSkip, Preparing
<1>9. ASSUME NEW r \in Run, ListBefore(r) PROVE CostInv'
  <2>1. PICK s \in {"provider", "reviewer"} : at' = [at EXCEPT ![r] = s]
    BY <1>9 DEF ListBefore, GoTo
  <2>2. /\ at[r] = "listBefore" /\ UNCHANGED <<calls, text, spent, billed, usage>>
        /\ before' \in {[before EXCEPT ![r] = Markers], [before EXCEPT ![r] = 0]}
    BY <1>9 DEF ListBefore, MarkersSeen, Markers
  <2> QED BY <2>1, <2>2, MoveKeepsCosts DEF Preparing
<1>10. ASSUME NEW r \in Run, CallFails(r) \/ RetainRawOutputs(r) \/ CheckMarker(r) \/ Killed(r)
       PROVE CostInv'
  <2>1. PICK s \in {"post", "failed", "record", "killed"} : at' = [at EXCEPT ![r] = s]
    BY <1>10 DEF CallFails, AfterCallFails, RetainRawOutputs, CheckMarker, Killed, GoTo, Throw
  <2>2. UNCHANGED <<calls, text, spent, billed, before, usage>>
    BY <1>10 DEF CallFails, RetainRawOutputs, CheckMarker, Killed
  <2> QED BY <2>1, <2>2, MoveKeepsCosts DEF Preparing
<1>11. ASSUME NEW r \in Run, PostReview(r) PROVE CostInv'
  <2>1. PICK next \in {"record", "check"} : PostComment(r, "post", "review", next)
    BY <1>11 DEF PostReview
  <2> QED BY <1>4, <2>1
<1>12. ASSUME NEW r \in Run, RecordUsage(r) PROVE CostInv'
  BY <1>5, <1>7, <1>12 DEF RecordUsage
<1>13. ASSUME NEW r \in Run, NEW cost \in 0..MaxCost, NEW hasText \in BOOLEAN,
              \/ CallProvider(r, cost, hasText)
              \/ CallReviewer(r, cost, hasText)
              \/ CallSynthesis(r, cost, hasText)
       PROVE  CostInv'
  <2>1. /\ spent \in [Run -> Nat] /\ calls \in [Run -> 0..Threads] /\ text \in [Run -> BOOLEAN]
        /\ cost \in Nat /\ spent[r] \in Nat
    BY CommandsAssumption DEF IInv, Shape, CostInv
  <2>2. CASE CallProvider(r, cost, hasText)
    <3>1. PICK s \in {"post", "failed"} : at' = [at EXCEPT ![r] = s]
      BY <2>2 DEF CallProvider, AfterCallFails, GoTo
    <3>2. PICK total \in {cost, spent[r]} : spent' = [spent EXCEPT ![r] = total]
      BY <2>1, <2>2 DEF CallProvider
    <3>3. /\ at[r] \in {"provider", "visual"} /\ billed' = [billed EXCEPT ![r] = @ + cost]
          /\ calls' = [calls EXCEPT ![r] = calls[r]] /\ text' = text
          /\ UNCHANGED <<before, usage>>
      BY <2>1, <2>2 DEF CallProvider, Answer
    <3>4. billed[r] = 0
      BY <3>3 DEF CostInv, Costs, Preparing
    <3>5. total \in Nat /\ (total <= spent[r] + cost \/ (billed[r] = 0 /\ total <= cost))
      BY <2>1, <3>4
    <3>6. s \notin {"reviewer", "synthesis", "visual"} \cup Preparing
      BY <3>1 DEF Preparing
    <3> QED BY <2>1, <3>1, <3>2, <3>3, <3>5, <3>6, CallKeepsCosts
  <2>3. CASE CallReviewer(r, cost, hasText)
    <3>1. PICK total, n : total = spent[r] + cost /\ n = calls[r] + 1
      OBVIOUS
    <3>2. /\ at[r] = "reviewer" /\ billed' = [billed EXCEPT ![r] = @ + cost]
          /\ calls' = [calls EXCEPT ![r] = n] /\ spent' = [spent EXCEPT ![r] = total]
          /\ text' \in [Run -> BOOLEAN] /\ UNCHANGED <<before, usage>>
      BY <2>1, <2>3, <3>1 DEF CallReviewer, Answer, Accumulate
    <3>3. PICK s : s = AfterReviewer(n, total, text'[r])
      OBVIOUS
    <3>4. at' = [at EXCEPT ![r] = s]
      BY <2>1, <2>3, <3>2, <3>3 DEF CallReviewer, GoTo
    <3>5. s \in {"reviewer", "failed", "retain", "synthesis"} /\ (s = "reviewer" => n < Threads)
      BY <3>3 DEF AfterReviewer
    <3>6. total \in Nat /\ total <= spent[r] + cost
      BY <2>1, <3>1
    <3>7. s \notin {"visual"} \cup Preparing
      BY <3>5 DEF Preparing
    <3> QED BY <3>1, <3>2, <3>4, <3>5, <3>6, <3>7, CallKeepsCosts
  <2>4. CASE CallSynthesis(r, cost, hasText)
    <3>1. PICK s \in {"retain", "failed"} : at' = [at EXCEPT ![r] = s]
      BY <2>4 DEF CallSynthesis, GoTo
    <3>2. PICK total \in {spent[r], spent[r] + cost} : spent' = [spent EXCEPT ![r] = total]
      BY <2>1, <2>4 DEF CallSynthesis, Accumulate
    <3>3. /\ at[r] = "synthesis" /\ billed' = [billed EXCEPT ![r] = @ + cost]
          /\ calls' = [calls EXCEPT ![r] = calls[r]] /\ text' = text
          /\ UNCHANGED <<before, usage>>
      BY <2>1, <2>4 DEF CallSynthesis, Answer
    <3>4. total \in Nat /\ total <= spent[r] + cost
      BY <2>1, <3>2
    <3> QED BY <2>1, <3>1, <3>2, <3>3, <3>4, CallKeepsCosts DEF Preparing
  <2> QED BY <1>13, <2>2, <2>3, <2>4
<1>14. CASE UNCHANGED vars
  BY <1>14 DEF vars, CostInv, Costs, MaxSpent
<1> QED BY <1>1, <1>2, <1>6, <1>8, <1>9, <1>10, <1>11, <1>12, <1>13, <1>14
        DEF Next, Progress, Answered

(* A run calls no more reviewers than it has threads, is billed for one    *)
(* call more at most, and its row holds no more than that.                 *)
THEOREM CommandTypes == Spec => []TypeOK
<1>1. Init => CostInv
  BY InitCosts
<1>2. IInv /\ CostInv => TypeOK
  <2> SUFFICES ASSUME IInv, CostInv PROVE TypeOK
    OBVIOUS
  <2>1. \A r \in Run : spent[r] \in 0..MaxSpent /\ billed[r] \in 0..MaxSpent
    <3>1. MaxSpent \in Nat
      BY CostOfCalls, CommandsAssumption
    <3> QED BY <3>1 DEF CostInv, Costs, IInv, Shape
  <2>2. spent \in [Run -> 0..MaxSpent] /\ billed \in [Run -> 0..MaxSpent]
    BY <2>1 DEF IInv, Shape
  <2> QED BY <2>2 DEF TypeOK, IInv, Shape, AllStages, CostInv
<1> QED BY <1>1, <1>2, NextCosts, Invariance, PTL DEF Spec
=============================================================================
