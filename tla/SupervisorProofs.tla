-------------------------- MODULE SupervisorProofs --------------------------
(***************************************************************************)
(* Theorems about Supervisor, for any number of sessions and signals.      *)
(***************************************************************************)
EXTENDS Supervisor, TLAPS

-----------------------------------------------------------------------------
(* The inductive invariant.                                                *)

Running == Watching \cup {"start"}
Ending == {"stop", "graceSweep", "killSweep", "stopServer", "graceServer",
           "killServer", "drain"}
Returned == {"returned", "writing", "ended"}
SweepStopped == {"stopServer", "graceServer", "killServer", "drain"}
                    \cup Returned

AbortType == [kind: Kinds, code: {1, 3, 4, 143}] \cup {NoAbort}
DiskType == [status: {"none", "pass", "fail"}, reason: Kinds \cup {"none"},
             code: {0, 1, 3, 4, 143, 256}]

\* Until the teardown nothing is decided and the sweep has no result.
Undecided ==
    at \in Running => abort = NoAbort /\ ~thrown /\ codes[session] = "none"

\* Later sessions have no result, earlier ones passed or left their failure.
SessionsInOrder ==
    /\ \A s \in 1..Sessions : s > session => codes[s] = "none"
    /\ firstFailure = 0 =>
           \A s \in 1..Sessions : s < session => codes[s] = "passed"

\* An exception is thrown before the sweep, and is the reason afterwards.
ThrownBeforeSweep ==
    thrown => /\ codes[session] = "none"
              /\ at \in Ending => abort = NoAbort
              /\ at \in Returned => abort # NoAbort

\* A child without a pid has no group.
TreeShape(tree) == tree.leader = "none" => ~tree.rest

TreesInOrder ==
    /\ TreeShape(server) /\ TreeShape(playwright)
    /\ at \in Running \cup {"stop"} /\ playwright.seen => codes[session] # "none"
    /\ at \in SweepStopped /\ codes[session] = "none" => GroupGone(playwright)
    /\ at \in {"drain"} \cup Returned => GroupGone(server)

\* What is on disk is the reason that was decided, passing is final, and
\* nothing final is written before the last session or a stop.
DiskInOrder ==
    /\ disk.reason # "none" => disk.reason = abort.kind
    /\ disk.status = "pass" =>
           /\ at \in {"writing", "ended", "killed"}
           /\ \A s \in 1..Sessions : codes[s] = "passed"
    /\ at = "writing" => Stopped \/ session = Sessions

IInv == /\ TypeOK /\ Undecided /\ SessionsInOrder /\ ThrownBeforeSweep
        /\ TreesInOrder /\ FinishedSweepStands /\ DiskInOrder

-----------------------------------------------------------------------------
(* Lemmas about the operators.                                             *)

LEMMA AbortCodes ==
  \A k \in Kinds : AbortExitCode[k] \in {1, 3, 4, 143}
<1> SUFFICES ASSUME NEW k \in Kinds PROVE AbortExitCode[k] \in {1, 3, 4, 143}
  OBVIOUS
<1> DEFINE code == CASE k \in {"dev-server-exit", "dev-server-stall",
                               "dev-server-start"} -> 3
                    [] k \in {"playwright-start", "runner-error"} -> 1
                    [] k = "deadline" -> 4
                    [] k = "interrupted" -> 143
<1>1. AbortExitCode[k] = code
  BY DEF AbortExitCode
<1>2. code \in {1, 3, 4, 143}
  BY DEF Kinds
<1> QED BY <1>1, <1>2

\* What aborting does: a reason where there was none, and files that are the
\* old ones or say why.
LEMMA AbortStep ==
  ASSUME TypeOK, NEW kind \in Kinds, Abort(kind)
  PROVE  /\ at \in Watching /\ at' = "stop"
         /\ abort = NoAbort
         /\ abort' \in AbortType /\ abort' # NoAbort /\ abort'.kind = kind
         /\ disk' \in DiskType
         /\ disk'.reason \in {disk.reason, kind}
         /\ disk'.status \in {disk.status, "fail"}
<1> DEFINE a == [kind |-> kind, code |-> AbortExitCode[kind]]
           files == Artifacts(a, a.code)
<1>1. at \in Watching /\ at' = "stop" /\ abort' = a
      /\ disk' \in {disk, SummaryOf(files), files}
  BY DEF Abort, MayAbort, BestEffort
<1>2. a.code \in {1, 3, 4, 143} /\ a \in AbortType
  BY AbortCodes DEF AbortType
<1>3. a # NoAbort
  BY DEF NoAbort, Kinds
<1>4. files = [status |-> "fail", reason |-> kind, code |-> a.code]
  BY <1>2, <1>3 DEF Artifacts
<1>5. disk \in DiskType /\ abort = NoAbort
  BY <1>1 DEF TypeOK, DiskType
<1>6. SummaryOf(files) = [status |-> "fail", reason |-> kind, code |-> disk.code]
  BY <1>4 DEF SummaryOf
<1>7. files \in DiskType /\ SummaryOf(files) \in DiskType
  BY <1>2, <1>4, <1>5, <1>6 DEF DiskType
<1> QED BY <1>1, <1>2, <1>3, <1>4, <1>5, <1>6, <1>7

LEMMA Killing ==
  ASSUME NEW tree \in Tree, TreeShape(tree)
  PROVE  /\ SigKill(tree) \in Tree /\ TreeShape(SigKill(tree))
         /\ GroupGone(SigKill(tree)) /\ SigKill(tree).seen = tree.seen
BY DEF Tree, TreeShape, SigKill, GroupGone

LEMMA Dying ==
  ASSUME NEW tree \in Tree, TreeShape(tree), NEW t \in Deaths(tree)
  PROVE  /\ t \in Tree /\ TreeShape(t) /\ t.seen = tree.seen
         /\ GroupGone(tree) => GroupGone(t)
BY DEF Tree, TreeShape, Deaths, GroupGone

LEMMA Seeing ==
  ASSUME NEW tree \in Tree, TreeShape(tree)
  PROVE  LET t == [tree EXCEPT !.seen = TRUE]
         IN  t \in Tree /\ TreeShape(t) /\ (GroupGone(tree) => GroupGone(t))
BY DEF Tree, TreeShape, GroupGone

LEMMA Spawning ==
  ASSUME NEW tree \in SpawnProcessGroup
  PROVE  tree \in Tree /\ TreeShape(tree) /\ ~tree.seen
<1>1. CASE tree = NoTree
  BY <1>1 DEF NoTree, Tree, TreeShape
<1>2. CASE tree \in [leader: {"alive"}, seen: {FALSE}, rest: BOOLEAN,
                     escaped: BOOLEAN]
  <2>1. tree.leader = "alive" /\ tree.seen = FALSE
    BY <1>2
  <2>2. tree \in Tree
    BY <1>2 DEF Tree
  <2> QED BY <2>1, <2>2 DEF TreeShape
<1> QED BY <1>1, <1>2 DEF SpawnProcessGroup

-----------------------------------------------------------------------------
(* Every step keeps the invariant.                                         *)

LEMMA InitIInv == Init => IInv
<1> SUFFICES ASSUME Init PROVE IInv
  OBVIOUS
<1> USE SupervisorAssumption DEF Init
<1>1. TypeOK
  <2>1. at \in Stages /\ session \in 1..Sessions /\ signals \in 0..MaxSignals
    BY DEF Stages, Awaiting, Watching
  <2>2. server \in Tree /\ playwright \in Tree
    BY DEF Tree, NoTree
  <2>3. codes \in [1..Sessions -> Codes \cup {"none"}]
    OBVIOUS
  <2>4. disk \in DiskType
    BY DEF DiskType, NotWritten
  <2> QED BY <2>1, <2>2, <2>3, <2>4 DEF TypeOK, DiskType
<1>2. Undecided
  BY DEF Undecided
<1>3. SessionsInOrder
  BY DEF SessionsInOrder
<1>4. ThrownBeforeSweep
  BY DEF ThrownBeforeSweep
<1>5. TreesInOrder
  BY DEF TreesInOrder, TreeShape, NoTree, SweepStopped, Returned
<1>6. FinishedSweepStands
  BY DEF FinishedSweepStands
<1>7. DiskInOrder
  BY DEF DiskInOrder, NotWritten
<1> QED BY <1>1, <1>2, <1>3, <1>4, <1>5, <1>6, <1>7 DEF IInv

\* The step that decides a reason: from a stage of Watching to the teardown.
LEMMA AbortKeepsIInv ==
  ASSUME IInv, NEW kind \in Kinds, Abort(kind),
         UNCHANGED <<reuse, session, playwright, thrown, codes, firstFailure,
                     late, over>>,
         server' \in Tree, TreeShape(server'), signals' \in 0..MaxSignals
  PROVE  IInv'
<1>1. /\ at \in Watching /\ at' = "stop" /\ abort = NoAbort
      /\ abort' \in AbortType /\ abort' # NoAbort /\ abort'.kind = kind
      /\ disk' \in DiskType /\ disk'.reason \in {disk.reason, kind}
      /\ disk'.status \in {disk.status, "fail"}
  BY AbortStep DEF IInv
<1>2. TypeOK'
  BY <1>1 DEF IInv, TypeOK, Stages, Watching, AbortType, DiskType
<1>3. ~thrown /\ codes[session] = "none"
  BY <1>1 DEF IInv, Undecided, Running
<1>4. Undecided' /\ ThrownBeforeSweep' /\ FinishedSweepStands'
  BY <1>1, <1>3 DEF Undecided, Running, Watching, ThrownBeforeSweep,
                    FinishedSweepStands
<1>5. SessionsInOrder'
  BY DEF IInv, SessionsInOrder
<1>6. TreesInOrder'
  BY <1>1, <1>3 DEF IInv, TreesInOrder, Running, Watching, Returned,
                    SweepStopped, TreeShape
<1>7. DiskInOrder'
  <2>1. disk.reason = "none" /\ disk.status # "pass"
    BY <1>1 DEF IInv, DiskInOrder, NoAbort, Watching, TypeOK, DiskType, Kinds
  <2> QED BY <1>1, <2>1 DEF DiskInOrder
<1> QED BY <1>2, <1>4, <1>5, <1>6, <1>7 DEF IInv

\* A step that decides nothing: the runner waits, a child moves, time passes.
\* It keeps the invariant if it keeps the trees in order.
LEMMA QuietStepKeepsIInv ==
  ASSUME IInv,
         UNCHANGED <<reuse, session, abort, thrown, codes, firstFailure,
                     signals, disk>>,
         server' \in Tree, playwright' \in Tree,
         late' \in BOOLEAN, over' \in BOOLEAN,
         at' \in Stages,
         at' \in Running => at \in Running,
         at' \in Ending => at \in Running \cup Ending,
         at' \in Returned => at' = at,
         at \in {"writing", "ended", "killed"} => at' \in {at, "killed"},
         TreesInOrder'
  PROVE  IInv'
<1>1. at' \in Running => abort = NoAbort
  BY DEF IInv, Undecided
<1>2. TypeOK'
  BY <1>1 DEF IInv, TypeOK, Running
<1>3. Undecided'
  BY DEF IInv, Undecided
<1>4. SessionsInOrder'
  BY DEF IInv, SessionsInOrder
<1>5. ThrownBeforeSweep'
  BY DEF IInv, ThrownBeforeSweep, Undecided
<1>6. FinishedSweepStands'
  BY DEF IInv, FinishedSweepStands, Stopped
<1>7. DiskInOrder'
  BY DEF IInv, DiskInOrder, Stopped, Returned
<1> QED BY <1>2, <1>3, <1>4, <1>5, <1>6, <1>7 DEF IInv

LEMMA NextIInv == IInv /\ [Next]_vars => IInv'
<1> SUFFICES ASSUME IInv, [Next]_vars PROVE IInv'
  OBVIOUS
<1> USE SupervisorAssumption
<1>a. /\ server \in Tree /\ playwright \in Tree
      /\ late \in BOOLEAN /\ over \in BOOLEAN /\ at \in Stages
      /\ signals \in 0..MaxSignals /\ MaxSignals \in Nat
      /\ TreeShape(server) /\ TreeShape(playwright)
  BY DEF IInv, TypeOK, TreesInOrder
<1>p. ASSUME at \in {"returned", "writing"}, Stopped \/ session = Sessions
      PROVE  /\ FinalExitCode \in {0, 1, 3, 4, 143}
             /\ FinalExitCode = 0 /\ abort = NoAbort =>
                    \A s \in 1..Sessions : codes[s] = "passed"
  <2>1. FirstFailure \in {0, 1}
    BY DEF FirstFailure, ExitCode, IInv, TypeOK
  <2>2. CASE Stopped
    <3>1. abort.code \in {1, 3, 4, 143}
      BY <2>2 DEF Stopped, IInv, TypeOK
    <3> QED BY <2>2, <3>1 DEF FinalExitCode, Stopped
  <2>3. CASE ~Stopped /\ session = Sessions
    <3>1. FirstFailure = 0 => firstFailure = 0 /\ codes[session] = "passed"
      BY DEF FirstFailure, ExitCode
    <3>2. FinalExitCode = FirstFailure
      BY <2>3 DEF FinalExitCode
    <3>3. FirstFailure = 0 => \A s \in 1..Sessions : codes[s] = "passed"
      BY <2>3, <3>1 DEF IInv, SessionsInOrder
    <3> QED BY <2>1, <3>2, <3>3
  <2> QED BY <1>p, <2>2, <2>3
<1>1. CASE AlreadyAvailable
  BY <1>1, <1>a, AbortKeepsIInv DEF AlreadyAvailable, Kinds
<1>2. CASE ServerCannotStart
  BY <1>2, <1>a, AbortKeepsIInv DEF ServerCannotStart, Kinds
<1>3. CASE ServerStalls
  BY <1>3, <1>a, AbortKeepsIInv DEF ServerStalls, Kinds
<1>4. CASE SweepCannotStart
  BY <1>4, <1>a, AbortKeepsIInv DEF SweepCannotStart, Kinds
<1>5. CASE DeadlineFires
  BY <1>5, <1>a, AbortKeepsIInv DEF DeadlineFires, Kinds
<1>6. CASE ReuseServer
  <2>1. server' \in Tree /\ playwright' \in Tree /\ TreesInOrder'
    BY <1>6, <1>a DEF ReuseServer, IInv, TreesInOrder, SweepStopped,
           Running, Watching, Returned
  <2> QED BY <1>6, <1>a, <2>1, QuietStepKeepsIInv
          DEF ReuseServer, Running, Watching, Ending, Returned, Stages, Awaiting
<1>7. CASE SpawnServer
  <2>1. server' \in Tree /\ playwright' \in Tree /\ TreesInOrder'
    BY <1>7, <1>a, Spawning DEF SpawnServer, IInv, TreesInOrder, SweepStopped,
           Running, Watching, Returned
  <2> QED BY <1>7, <1>a, <2>1, QuietStepKeepsIInv
          DEF SpawnServer, Running, Watching, Ending, Returned, Stages, Awaiting
<1>8. CASE ServerReady
  <2>1. server' \in Tree /\ playwright' \in Tree /\ TreesInOrder'
    BY <1>8, <1>a DEF ServerReady, IInv, TreesInOrder, SweepStopped,
           Running, Watching, Returned
  <2> QED BY <1>8, <1>a, <2>1, QuietStepKeepsIInv
          DEF ServerReady, Running, Watching, Ending, Returned, Stages, Awaiting
<1>9. CASE StartSweep
  <2>1. server' \in Tree /\ playwright' \in Tree /\ TreesInOrder'
    BY <1>9, <1>a, Spawning DEF StartSweep, IInv, TreesInOrder, SweepStopped,
           Running, Watching, Returned
  <2> QED BY <1>9, <1>a, <2>1, QuietStepKeepsIInv
          DEF StartSweep, Running, Watching, Ending, Returned, Stages, Awaiting
<1>10. CASE StopSweep
  <2>1. at = "stop" /\ UNCHANGED <<server, playwright, codes, session>>
    BY <1>10 DEF StopSweep
  <2>2. CASE at' = "graceSweep"
    <3>1. TreesInOrder'
      BY <1>a, <2>1, <2>2 DEF TreesInOrder, SweepStopped, Running, Watching,
         Returned
    <3> QED BY <1>10, <1>a, <2>2, <3>1, QuietStepKeepsIInv
            DEF StopSweep, Running, Watching, Ending, Returned, Stages, Awaiting
  <2>3. CASE ~IsRunning(playwright) /\ at' = "stopServer"
    <3>1. codes[session] = "none" => ~playwright.seen
      BY <2>1 DEF IInv, TreesInOrder
    <3>2. codes[session] = "none" => GroupGone(playwright)
      BY <1>a, <2>3, <3>1 DEF IsRunning, TreeShape, GroupGone
    <3>3. TreesInOrder'
      BY <1>a, <2>1, <2>3, <3>2 DEF TreesInOrder, SweepStopped, Running,
         Watching, Returned, GroupGone
    <3> QED BY <1>10, <1>a, <2>3, <3>3, QuietStepKeepsIInv
            DEF StopSweep, Running, Watching, Ending, Returned, Stages, Awaiting
  <2> QED BY <1>10, <2>2, <2>3 DEF StopSweep, Terminate
<1>11. CASE GraceOfSweepEnds
  <2>1. server' \in Tree /\ playwright' \in Tree /\ TreesInOrder'
    BY <1>11, <1>a, Killing DEF GraceOfSweepEnds, IInv, TreesInOrder, SweepStopped,
           Running, Watching, Returned
  <2> QED BY <1>11, <1>a, <2>1, QuietStepKeepsIInv
          DEF GraceOfSweepEnds, Running, Watching, Ending, Returned, Stages, Awaiting
<1>12. CASE KillOfSweepEnds
  <2>1. server' \in Tree /\ playwright' \in Tree /\ TreesInOrder'
    BY <1>12, <1>a, Killing DEF KillOfSweepEnds, IInv, TreesInOrder, SweepStopped,
           Running, Watching, Returned
  <2> QED BY <1>12, <1>a, <2>1, QuietStepKeepsIInv
          DEF KillOfSweepEnds, Running, Watching, Ending, Returned, Stages, Awaiting
<1>13. CASE StopServer
  <2>1. server' \in Tree /\ playwright' \in Tree /\ TreesInOrder'
    BY <1>13, <1>a, Killing DEF StopServer, Terminate, IsRunning, LastKill, IInv,
           TreesInOrder, SweepStopped,
           Running, Watching, Returned
  <2> QED BY <1>13, <1>a, <2>1, QuietStepKeepsIInv
          DEF StopServer, Terminate, IsRunning, LastKill, Running, Watching,
              Ending, Returned, Stages, Awaiting
<1>14. CASE GraceOfServerEnds
  <2>1. server' \in Tree /\ playwright' \in Tree /\ TreesInOrder'
    BY <1>14, <1>a, Killing DEF GraceOfServerEnds, LastKill, IInv,
           TreesInOrder, SweepStopped,
           Running, Watching, Returned
  <2> QED BY <1>14, <1>a, <2>1, QuietStepKeepsIInv
          DEF GraceOfServerEnds, LastKill, Running, Watching,
              Ending, Returned, Stages, Awaiting
<1>15. CASE KillOfServerEnds
  <2>1. server' \in Tree /\ playwright' \in Tree /\ TreesInOrder'
    BY <1>15, <1>a, Killing DEF KillOfServerEnds, LastKill, IInv,
           TreesInOrder, SweepStopped,
           Running, Watching, Returned
  <2> QED BY <1>15, <1>a, <2>1, QuietStepKeepsIInv
          DEF KillOfServerEnds, LastKill, Running, Watching,
              Ending, Returned, Stages, Awaiting
<1>16. CASE ServerProcessDies
  <2>1. server' \in Tree /\ playwright' \in Tree /\ TreesInOrder'
    BY <1>16, <1>a, Dying DEF ServerProcessDies, IInv, TreesInOrder, SweepStopped,
           Running, Watching, Returned
  <2> QED BY <1>16, <1>a, <2>1, QuietStepKeepsIInv
          DEF ServerProcessDies, Running, Watching, Ending, Returned, Stages, Awaiting
<1>17. CASE SweepProcessDies
  <2>1. server' \in Tree /\ playwright' \in Tree /\ TreesInOrder'
    BY <1>17, <1>a, Dying DEF SweepProcessDies, IInv, TreesInOrder, SweepStopped,
           Running, Watching, Returned
  <2> QED BY <1>17, <1>a, <2>1, QuietStepKeepsIInv
          DEF SweepProcessDies, Running, Watching, Ending, Returned, Stages, Awaiting
<1>18. CASE StoppedSweepExits
  <2>1. server' \in Tree /\ playwright' \in Tree /\ TreesInOrder'
    BY <1>18, <1>a, Seeing DEF StoppedSweepExits, IInv, TreesInOrder, SweepStopped,
           Running, Watching, Returned
  <2> QED BY <1>18, <1>a, <2>1, QuietStepKeepsIInv
          DEF StoppedSweepExits, Running, Watching, Ending, Returned, Stages, Awaiting
<1>19. CASE GlobalTimeoutNears
  <2>1. server' \in Tree /\ playwright' \in Tree /\ TreesInOrder'
    BY <1>19, <1>a DEF GlobalTimeoutNears, IInv, TreesInOrder, SweepStopped,
           Running, Watching, Returned
  <2> QED BY <1>19, <1>a, <2>1, QuietStepKeepsIInv
          DEF GlobalTimeoutNears, Running, Watching, Ending, Returned, Stages, Awaiting
<1>20. CASE DeadlinePasses
  <2>1. server' \in Tree /\ playwright' \in Tree /\ TreesInOrder'
    BY <1>20, <1>a DEF DeadlinePasses, IInv, TreesInOrder, SweepStopped,
           Running, Watching, Returned
  <2> QED BY <1>20, <1>a, <2>1, QuietStepKeepsIInv
          DEF DeadlinePasses, Running, Watching, Ending, Returned, Stages, Awaiting
<1>21. CASE HostStops
  <2>1. server' \in Tree /\ playwright' \in Tree /\ TreesInOrder'
    BY <1>21, <1>a DEF HostStops, IInv, TreesInOrder, SweepStopped,
           Running, Watching, Returned
  <2> QED BY <1>21, <1>a, <2>1, QuietStepKeepsIInv
          DEF HostStops, Running, Watching, Ending, Returned, Stages, Awaiting
<1>22. CASE UNCHANGED vars
  BY <1>22, <1>a, QuietStepKeepsIInv DEF vars, IInv, TreesInOrder, GroupGone, TreeShape
<1>23. CASE SetupThrows
  <2>1. /\ at = "start" /\ at' = "stop" /\ thrown' = TRUE
        /\ UNCHANGED <<reuse, session, server, playwright, abort, codes,
                       firstFailure, late, over, signals, disk>>
    BY <1>23 DEF SetupThrows
  <2>2. abort = NoAbort /\ codes[session] = "none"
    BY <2>1 DEF IInv, Undecided, Running
  <2>3. TypeOK'
    BY <2>1 DEF IInv, TypeOK, Stages, Watching
  <2>4. Undecided' /\ ThrownBeforeSweep' /\ FinishedSweepStands'
    BY <2>1, <2>2 DEF Undecided, Running, Watching, ThrownBeforeSweep, Returned,
       FinishedSweepStands
  <2>5. SessionsInOrder'
    BY <2>1 DEF IInv, SessionsInOrder
  <2>6. TreesInOrder'
    BY <2>1, <1>a DEF IInv, TreesInOrder, Running, Watching, Returned,
       SweepStopped, TreeShape
  <2>7. DiskInOrder'
    BY <2>1 DEF IInv, DiskInOrder
  <2> QED BY <2>3, <2>4, <2>5, <2>6, <2>7 DEF IInv
<1>24. CASE ServerExits
  <2>1. /\ server' \in Tree /\ TreeShape(server')
        /\ GroupGone(server) => GroupGone(server')
    BY <1>24, <1>a, Seeing DEF ServerExits
  <2>2. CASE MayAbort
    BY <1>24, <1>a, <2>1, <2>2, AbortKeepsIInv DEF ServerExits, Kinds
  <2>3. CASE ~MayAbort
    <3>1. /\ UNCHANGED <<reuse, at, session, playwright, abort, thrown, codes,
                         firstFailure, late, over, signals, disk>>
      BY <1>24, <2>3 DEF ServerExits
    <3>2. TreesInOrder'
      BY <1>a, <2>1, <3>1 DEF IInv, TreesInOrder, GroupGone, TreeShape
    <3> QED BY <1>a, <2>1, <3>1, <3>2, QuietStepKeepsIInv
  <2> QED BY <2>2, <2>3
<1>25. CASE \E code \in Codes : SweepEnds(code)
  <2> PICK code \in Codes : SweepEnds(code)
    BY <1>25
  <2>1. /\ at = "sweep" /\ at' = "stop"
        /\ codes' = [codes EXCEPT ![session] = code]
        /\ playwright' = [playwright EXCEPT !.seen = TRUE]
        /\ UNCHANGED <<reuse, session, server, thrown, firstFailure, late,
                       over, signals>>
    BY DEF SweepEnds, Abort
  <2>2. /\ abort = NoAbort /\ ~thrown /\ codes[session] = "none"
        /\ session \in 1..Sessions
        /\ codes \in [1..Sessions -> Codes \cup {"none"}]
    BY <2>1 DEF IInv, Undecided, Running, Watching, TypeOK
  <2>3. /\ codes' \in [1..Sessions -> Codes \cup {"none"}]
        /\ codes'[session] = code
        /\ \A s \in 1..Sessions : s # session => codes'[s] = codes[s]
    BY <2>1, <2>2
  <2>4. /\ abort' \in AbortType
        /\ abort' # NoAbort => abort'.kind = "deadline" /\ code # "passed"
        /\ disk' \in DiskType
        /\ disk'.reason \in {disk.reason, abort'.kind}
        /\ disk'.status \in {disk.status, "fail"}
    <3>1. CASE code # "passed" /\ late
      <4>1. Abort("deadline")
        BY <3>1 DEF SweepEnds
      <4> QED BY <4>1, <3>1, AbortStep DEF Kinds, IInv
    <3>2. CASE ~(code # "passed" /\ late)
      <4>1. UNCHANGED <<abort, disk>>
        BY <3>2 DEF SweepEnds
      <4>2. abort \in AbortType /\ disk \in DiskType
        BY <2>2 DEF AbortType, IInv, TypeOK, DiskType
      <4> QED BY <4>1, <4>2, <2>2
    <3> QED BY <3>1, <3>2
  <2>5. playwright' \in Tree /\ TreeShape(playwright')
    BY <1>a, <2>1, Seeing
  <2>6. TypeOK'
    BY <2>1, <2>3, <2>4, <2>5 DEF IInv, TypeOK, Stages, Watching, AbortType,
       DiskType
  <2>7. Undecided' /\ ThrownBeforeSweep' /\ FinishedSweepStands'
    BY <2>1, <2>2, <2>3, <2>4 DEF Undecided, Running, Watching,
       ThrownBeforeSweep, FinishedSweepStands, Stopped
  <2>8. SessionsInOrder'
    BY <2>1, <2>2, <2>3 DEF IInv, SessionsInOrder, TypeOK
  <2>9. TreesInOrder'
    BY <1>a, <2>1, <2>3, <2>5 DEF TreesInOrder, Running, Watching, Returned,
       SweepStopped, Codes, TreeShape
  <2>10. DiskInOrder'
    <3>1. disk.reason = "none" /\ disk.status # "pass"
      BY <2>1, <2>2 DEF IInv, DiskInOrder, NoAbort, TypeOK, Kinds
    <3> QED BY <2>1, <2>4, <3>1 DEF DiskInOrder
  <2> QED BY <2>6, <2>7, <2>8, <2>9, <2>10 DEF IInv
<1>26. CASE Signal
  <2>1. /\ signals' \in 0..MaxSignals
        /\ UNCHANGED <<reuse, session, server, playwright, thrown, codes,
                       firstFailure, late, over>>
    BY <1>26, <1>a DEF Signal
  <2>2. CASE MayAbort
    BY <1>26, <1>a, <2>1, <2>2, AbortKeepsIInv DEF Signal, Kinds
  <2>3. CASE ~MayAbort
    <3>1. /\ at' = "killed" /\ abort' = abort
          /\ disk' \in {disk, [disk EXCEPT !.code = 143]}
      BY <1>26, <2>3 DEF Signal
    <3>2. /\ disk' \in DiskType
          /\ disk'.reason = disk.reason /\ disk'.status = disk.status
      BY <3>1 DEF IInv, TypeOK, DiskType
    <3>3. TypeOK'
      BY <2>1, <3>1, <3>2 DEF IInv, TypeOK, Stages, Watching, DiskType
    <3>4. Undecided' /\ ThrownBeforeSweep' /\ FinishedSweepStands'
      BY <2>1, <3>1 DEF IInv, Undecided, Running, Watching, ThrownBeforeSweep,
         Ending, Returned, FinishedSweepStands, Stopped
    <3>5. SessionsInOrder'
      BY <2>1 DEF IInv, SessionsInOrder
    <3>6. TreesInOrder'
      BY <1>a, <2>1, <3>1 DEF TreesInOrder, Running, Watching, Returned,
         SweepStopped, TreeShape
    <3>7. DiskInOrder'
      BY <2>1, <3>1, <3>2 DEF IInv, DiskInOrder
    <3> QED BY <3>3, <3>4, <3>5, <3>6, <3>7 DEF IInv
  <2> QED BY <2>2, <2>3
<1>27. CASE DrainEnds
  <2>1. /\ at = "drain" /\ at' = "returned"
        /\ UNCHANGED <<reuse, session, server, playwright, thrown, codes,
                       firstFailure, late, over, signals, disk>>
    BY <1>27 DEF DrainEnds
  <2>2. CASE thrown
    <3>1. /\ abort' = [kind |-> "runner-error",
                       code |-> AbortExitCode["runner-error"]]
          /\ abort = NoAbort /\ codes[session] = "none"
      BY <1>27, <2>1, <2>2 DEF DrainEnds, IInv, ThrownBeforeSweep, Ending
    <3>2. AbortExitCode["runner-error"] \in {1, 3, 4, 143}
      BY AbortCodes DEF Kinds
    <3>3. abort' \in AbortType /\ abort' # NoAbort
      BY <3>1, <3>2 DEF AbortType, Kinds, NoAbort
    <3>4. TypeOK'
      BY <2>1, <3>3 DEF IInv, TypeOK, Stages, Watching, AbortType
    <3>5. Undecided' /\ ThrownBeforeSweep' /\ FinishedSweepStands'
      BY <2>1, <2>2, <3>1, <3>3 DEF Undecided, Running, Watching,
         ThrownBeforeSweep, Ending, FinishedSweepStands
    <3>6. SessionsInOrder'
      BY <2>1 DEF IInv, SessionsInOrder
    <3>7. TreesInOrder'
      BY <1>a, <2>1 DEF IInv, TreesInOrder, Running, Watching, Returned,
         SweepStopped, TreeShape, GroupGone
    <3>8. DiskInOrder'
      <4>1. disk.reason = "none" /\ disk.status # "pass"
        BY <2>1, <3>1 DEF IInv, DiskInOrder, NoAbort, TypeOK, Kinds
      <4> QED BY <2>1, <4>1 DEF DiskInOrder
    <3> QED BY <3>4, <3>5, <3>6, <3>7, <3>8 DEF IInv
  <2>3. CASE ~thrown
    <3>1. abort' = abort
      BY <1>27, <2>3 DEF DrainEnds
    <3>2. TypeOK'
      BY <2>1, <3>1 DEF IInv, TypeOK, Stages, Watching
    <3>3. Undecided' /\ ThrownBeforeSweep' /\ FinishedSweepStands'
      BY <2>1, <2>3, <3>1 DEF IInv, Undecided, Running, Watching,
         ThrownBeforeSweep, FinishedSweepStands, Stopped
    <3>4. SessionsInOrder'
      BY <2>1 DEF IInv, SessionsInOrder
    <3>5. TreesInOrder'
      BY <1>a, <2>1 DEF IInv, TreesInOrder, Running, Watching, Returned,
         SweepStopped, TreeShape, GroupGone
    <3>6. DiskInOrder'
      BY <2>1, <3>1 DEF IInv, DiskInOrder
    <3> QED BY <3>2, <3>3, <3>4, <3>5, <3>6 DEF IInv
  <2> QED BY <2>2, <2>3
<1>28. CASE NextSession
  <2>1. /\ at = "returned" /\ at' = "probe" /\ abort = NoAbort
        /\ session < Sessions /\ session' = session + 1
        /\ server' = NoTree /\ playwright' = NoTree
        /\ firstFailure' = FirstFailure
        /\ UNCHANGED <<reuse, abort, thrown, codes, late, over, signals, disk>>
    BY <1>28 DEF NextSession, Stopped
  <2>2. /\ session \in 1..Sessions /\ Sessions \in Nat
        /\ session' \in 1..Sessions /\ session' > session
    BY <2>1 DEF IInv, TypeOK
  <2>3. ~thrown
    BY <2>1 DEF IInv, ThrownBeforeSweep, Returned
  <2>4. /\ firstFailure' \in {0, 1}
        /\ firstFailure' = 0 => firstFailure = 0 /\ codes[session] = "passed"
    BY <2>1 DEF IInv, TypeOK, FirstFailure, ExitCode
  <2>5. TypeOK'
    BY <2>1, <2>2, <2>4 DEF IInv, TypeOK, Stages, Awaiting, Watching, NoTree, Tree
  <2>6. SessionsInOrder' /\ codes'[session'] = "none"
    BY <2>1, <2>2, <2>4 DEF IInv, SessionsInOrder
  <2>7. Undecided' /\ ThrownBeforeSweep' /\ FinishedSweepStands'
    BY <2>1, <2>3, <2>6 DEF Undecided, ThrownBeforeSweep, FinishedSweepStands
  <2>8. TreesInOrder'
    BY <2>1 DEF TreesInOrder, TreeShape, NoTree, Returned, SweepStopped
  <2>9. DiskInOrder'
    BY <2>1 DEF IInv, DiskInOrder
  <2> QED BY <2>5, <2>6, <2>7, <2>8, <2>9 DEF IInv
<1>29. CASE WriteSummary
  <2> DEFINE code == FinalExitCode
             files == Artifacts(abort, code)
  <2>1. /\ at = "returned" /\ at' = "writing"
        /\ Stopped \/ session = Sessions
        /\ disk' = [files EXCEPT !.code = disk.code]
        /\ UNCHANGED <<reuse, session, server, playwright, abort, thrown, codes,
                       firstFailure, late, over, signals>>
    BY <1>29 DEF WriteSummary, SummaryOf
  <2>2. disk'.reason = abort.kind /\ disk' \in DiskType
    BY <2>1 DEF Artifacts, IInv, TypeOK, DiskType, NoAbort
  <2>3. disk'.status = "pass" => \A s \in 1..Sessions : codes[s] = "passed"
    BY <1>p, <2>1 DEF Artifacts
  <2>4. TypeOK'
    BY <2>1, <2>2 DEF IInv, TypeOK, Stages, Watching, DiskType
  <2>5. Undecided' /\ ThrownBeforeSweep' /\ FinishedSweepStands'
    BY <2>1 DEF IInv, Undecided, Running, Watching, ThrownBeforeSweep, Ending,
       Returned, FinishedSweepStands, Stopped
  <2>6. SessionsInOrder'
    BY <2>1 DEF IInv, SessionsInOrder
  <2>7. TreesInOrder'
    BY <1>a, <2>1 DEF IInv, TreesInOrder, Running, Watching, Returned,
       SweepStopped, TreeShape, GroupGone
  <2>8. DiskInOrder'
    BY <2>1, <2>2, <2>3 DEF DiskInOrder, Stopped
  <2> QED BY <2>4, <2>5, <2>6, <2>7, <2>8 DEF IInv
<1>30. CASE WriteExitCode
  <2>1. /\ at = "writing" /\ at' = "ended"
        /\ disk' = Artifacts(abort, FinalExitCode)
        /\ UNCHANGED <<reuse, session, server, playwright, abort, thrown, codes,
                       firstFailure, late, over, signals>>
    BY <1>30 DEF WriteExitCode
  <2>w. Stopped \/ session = Sessions
    BY <2>1 DEF IInv, DiskInOrder
  <2>2. disk'.reason = abort.kind /\ disk' \in DiskType
    BY <1>p, <2>1, <2>w DEF Artifacts, IInv, TypeOK, DiskType, NoAbort
  <2>3. disk'.status = "pass" => \A s \in 1..Sessions : codes[s] = "passed"
    BY <1>p, <2>1, <2>w DEF Artifacts
  <2>4. TypeOK'
    BY <2>1, <2>2 DEF IInv, TypeOK, Stages, Watching, DiskType
  <2>5. Undecided' /\ ThrownBeforeSweep' /\ FinishedSweepStands'
    BY <2>1 DEF IInv, Undecided, Running, Watching, ThrownBeforeSweep, Ending,
       Returned, FinishedSweepStands, Stopped
  <2>6. SessionsInOrder'
    BY <2>1 DEF IInv, SessionsInOrder
  <2>7. TreesInOrder'
    BY <1>a, <2>1 DEF IInv, TreesInOrder, Running, Watching, Returned,
       SweepStopped, TreeShape, GroupGone
  <2>8. DiskInOrder'
    BY <2>1, <2>2, <2>3 DEF DiskInOrder
  <2> QED BY <2>4, <2>5, <2>6, <2>7, <2>8 DEF IInv
<1> QED BY <1>1, <1>2, <1>3, <1>4, <1>5, <1>6, <1>7, <1>8, <1>9,
          <1>10, <1>11, <1>12, <1>13, <1>14, <1>15, <1>16, <1>17, <1>18,
          <1>19, <1>20, <1>21, <1>22, <1>23, <1>24, <1>25, <1>26, <1>27,
          <1>28, <1>29, <1>30 DEF Next, Runner, Events, Over

-----------------------------------------------------------------------------
(* Theorems.                                                               *)

LEMMA Invariance == Spec => []IInv
<1>1. Init => IInv
  BY InitIInv
<1>2. IInv /\ [Next]_vars => IInv'
  BY NextIInv
<1> QED BY <1>1, <1>2, PTL DEF Spec

(* Types are kept: in particular the reason to abort is one of Kinds, with *)
(* its exit code, and none is kept from one session to the next.           *)
THEOREM SupervisorTypes == Spec => []TypeOK
<1>1. IInv => TypeOK
  BY DEF IInv
<1> QED BY <1>1, Invariance, PTL

(* When superviseBenchmark has returned, the process groups it had to stop *)
(* are gone, for any number of sessions and whatever the children do.      *)
THEOREM TreesAreStopped == Spec => []StoppedTreesAreGone
<1>1. IInv => StoppedTreesAreGone
  BY DEF IInv, TreesInOrder, StoppedTreesAreGone, SweepStopped, Returned
<1> QED BY <1>1, Invariance, PTL

(* A sweep that came to its own end is not reported as anything else.      *)
THEOREM FinishedSweepsStand == Spec => []FinishedSweepStands
<1>1. IInv => FinishedSweepStands
  BY DEF IInv
<1> QED BY <1>1, Invariance, PTL

(* The comment says "passed" only when every session's sweep passed.       *)
THEOREM CleanVerdictsAreEarned == Spec => []CleanVerdictIsEarned
<1>1. IInv => CleanVerdictIsEarned
  <2> SUFFICES ASSUME IInv, Verdict = "passed"
               PROVE  \A s \in 1..Sessions : codes[s] = "passed"
    BY DEF CleanVerdictIsEarned
  <2>1. disk.status = "pass"
    BY DEF Verdict
  <2> QED BY <2>1 DEF IInv, DiskInOrder
<1> QED BY <1>1, Invariance, PTL

(* The reason on disk never changes once there is one.                     *)
THEOREM FirstReasonsStand == Spec => FirstReasonStands
<1>1. IInv /\ IInv' /\ [Next]_vars =>
          [disk.reason # "none" => disk'.reason = disk.reason]_vars
  <2> SUFFICES ASSUME IInv, IInv', [Next]_vars, disk.reason # "none"
               PROVE  disk'.reason = disk.reason
    OBVIOUS
  <2>1. abort # NoAbort /\ abort.kind = disk.reason /\ at \notin Running
    BY DEF IInv, DiskInOrder, Undecided, NoAbort
  <2>2. ~MayAbort /\ at \notin {"probe", "ready", "start", "sweep"}
    BY <2>1 DEF MayAbort, Running, Watching
  <2>3. CASE WriteSummary \/ WriteExitCode
    BY <2>1, <2>3 DEF WriteSummary, WriteExitCode, SummaryOf, Artifacts
  <2>4. CASE Signal
    <3>1. disk' \in {disk, [disk EXCEPT !.code = 143]} /\ disk \in DiskType
      BY <2>2, <2>4 DEF Signal, IInv, TypeOK, DiskType
    <3> QED BY <3>1 DEF DiskType
  <2>5. CASE AlreadyAvailable \/ ServerCannotStart \/ ServerStalls
             \/ SweepCannotStart \/ DeadlineFires
    BY <2>2, <2>5 DEF AlreadyAvailable, ServerCannotStart, ServerStalls,
                      SweepCannotStart, DeadlineFires, Abort
  <2>6. CASE ServerExits \/ \E code \in Codes : SweepEnds(code)
    BY <2>2, <2>6 DEF ServerExits, SweepEnds
  <2>7. CASE \/ SpawnServer \/ ReuseServer \/ StartSweep
             \/ StopSweep \/ GraceOfSweepEnds \/ KillOfSweepEnds
             \/ StopServer \/ GraceOfServerEnds \/ KillOfServerEnds
             \/ DrainEnds \/ NextSession
    <3>1. disk' = disk
      BY <2>7 DEF SpawnServer, ReuseServer, StartSweep, StopSweep,
         GraceOfSweepEnds, KillOfSweepEnds, StopServer, GraceOfServerEnds,
         KillOfServerEnds, DrainEnds, NextSession
    <3> QED BY <3>1
  <2>8. CASE \/ ServerReady \/ SetupThrows \/ ServerProcessDies
             \/ SweepProcessDies \/ StoppedSweepExits \/ GlobalTimeoutNears
             \/ HostStops \/ DeadlinePasses \/ UNCHANGED vars
    <3>1. disk' = disk
      BY <2>8 DEF ServerReady, SetupThrows, ServerProcessDies,
         SweepProcessDies, StoppedSweepExits, GlobalTimeoutNears, HostStops,
         DeadlinePasses, vars
    <3> QED BY <3>1
  <2> QED BY <2>3, <2>4, <2>5, <2>6, <2>7, <2>8
          DEF Next, Runner, Events, Over
<1> QED BY <1>1, Invariance, PTL DEF FirstReasonStands, Spec
=============================================================================
