----------------------------- MODULE Supervisor -----------------------------
(***************************************************************************)
(* One responsiveness run: consecutive dev-server sessions, each of them   *)
(* supervised by superviseBenchmark (src/src/responsiveness-supervisor.    *)
(* cjs), and the loop and artifacts of runResponsiveness (src/src/         *)
(* responsiveness-runner.cjs).                                             *)
(*                                                                         *)
(* The runner is one JavaScript thread.  An event (a child's exit, a timer,*)
(* a signal, the answer of a probe) and everything it wakes run before the *)
(* next event, so deciding to abort and entering the teardown is one step; *)
(* an await is where other events come in between.  The children are       *)
(* processes: they die when they like, obey SIGTERM or not, and the runner *)
(* learns of a death later, by the exit event.                             *)
(***************************************************************************)
EXTENDS Naturals

CONSTANTS Sessions,     \* how many dev-server sessions the routes are split in
          MaxSignals    \* bound: SIGINT and SIGTERM sent to the runner

ASSUME SupervisorAssumption ==
    /\ Sessions \in Nat \ {0}
    /\ MaxSignals \in Nat

VARIABLES
    reuse,        \* options.reuseExistingServer
    at,           \* where the runner is
    session,      \* index of the loop over the sessions
    server,       \* the process tree of this session's dev server
    playwright,   \* the process tree of this session's sweep
    abort,        \* state.abort of this session, or NoAbort
    thrown,       \* superviseBenchmark is leaving by an exception
    codes,        \* playwrightResult of each session
    firstFailure, \* playwrightExitCode of the loop
    late,         \* past Playwright's global timeout, less a second
    over,         \* past deadlineAt
    signals,      \* signals sent so far
    disk          \* summary.md and exit-code.txt

vars == <<reuse, at, session, server, playwright, abort, thrown, codes,
          firstFailure, late, over, signals, disk>>

-----------------------------------------------------------------------------
(* Process trees.  Each child leads a process group of its own; the group  *)
(* may hold more processes, and a grandchild may have left it and still    *)
(* hold the pipes.                                                         *)

Tree == [leader: {"none", "alive", "dead"},  \* "none": no pid
         seen: BOOLEAN,                      \* exitCode or signalCode is set
         rest: BOOLEAN,                      \* others of the group are alive
         escaped: BOOLEAN]                   \* one that left the group is

NoTree == [leader |-> "none", seen |-> FALSE, rest |-> FALSE,
           escaped |-> FALSE]

SpawnProcessGroup == [leader: {"alive"}, seen: {FALSE}, rest: BOOLEAN,
                      escaped: BOOLEAN] \cup {NoTree}

IsRunning(tree) == tree.leader # "none" /\ ~tree.seen

SigKill(tree) == IF tree.leader = "none" THEN tree
                 ELSE [tree EXCEPT !.leader = "dead", !.rest = FALSE]

GroupGone(tree) == tree.leader # "alive" /\ ~tree.rest

-----------------------------------------------------------------------------
(* Aborting.                                                               *)

NoAbort == [kind |-> "none", code |-> 0]

Kinds == {"dev-server-exit", "dev-server-stall", "dev-server-start",
          "playwright-start", "deadline", "interrupted", "runner-error"}

AbortExitCode == [k \in Kinds |->
    CASE k \in {"dev-server-exit", "dev-server-stall", "dev-server-start"} -> 3
      [] k \in {"playwright-start", "runner-error"} -> 1
      [] k = "deadline" -> 4
      [] k = "interrupted" -> 143]   \* 130 for SIGINT, told apart by nobody

(* Exit code of a sweep: a null code, after a signal, is read as 1.        *)
ExitCode(code) == IF code = "passed" THEN 0 ELSE 1

(* summary.md (its Status and its Aborted lines) and exit-code.txt; 256    *)
(* stands for no file.                                                     *)
NotWritten == [status |-> "none", reason |-> "none", code |-> 256]
Artifacts(a, code) ==
    [status |-> IF code = 0 /\ a = NoAbort THEN "pass" ELSE "fail",
     reason |-> a.kind, code |-> code]

(* The files are written one after the other, each of them durably.        *)
SummaryOf(files) == [files EXCEPT !.code = disk.code]
BestEffort(files) == {disk, SummaryOf(files), files}

(* The stages in which the deadline timer is armed, the signal handlers    *)
(* are installed and state.stopping is false.                              *)
Watching == {"probe", "ready", "sweep"}

(* The stages that wait for an event; the others are left in the same turn.*)
Awaiting == Watching \cup {"graceSweep", "killSweep", "graceServer",
                           "killServer", "drain"}

(* Mutant: abort tests neither state.abort nor state.stopping.             *)
MayAlwaysAbort == at \in Awaiting

(* abort(kind): the first reason is kept and none is taken once the        *)
(* teardown has begun.                                                     *)
MayAbort == at \in Watching

(* state.abort is set, the early artifacts are written (best effort: the   *)
(* write may fail), and the await that is woken leads to the teardown.     *)
Abort(kind) ==
    LET a == [kind |-> kind, code |-> AbortExitCode[kind]] IN
    /\ MayAbort
    /\ abort' = a
    /\ disk' \in BestEffort(Artifacts(a, a.code))
    /\ at' = "stop"

-----------------------------------------------------------------------------
Init ==
    /\ reuse \in BOOLEAN
    /\ at = "probe"
    /\ session = 1
    /\ server = NoTree /\ playwright = NoTree
    /\ abort = NoAbort
    /\ thrown = FALSE
    /\ codes = [s \in 1..Sessions |-> "none"]
    /\ firstFailure = 0
    /\ late = FALSE /\ over = FALSE
    /\ signals = 0
    /\ disk = NotWritten

(* checkServerReady before anything is started: whether something answers  *)
(* at the base URL already.                                                *)
AlreadyAvailable ==
    /\ at = "probe" /\ ~reuse
    /\ Abort("dev-server-start")
    /\ UNCHANGED <<reuse, session, server, playwright, thrown, codes,
                   firstFailure, late, over, signals>>

ReuseServer ==
    /\ at = "probe" /\ reuse
    /\ at' = "start"
    /\ UNCHANGED <<reuse, session, server, playwright, abort, thrown, codes,
                   firstFailure, late, over, signals, disk>>

SpawnServer ==
    /\ at = "probe"
    /\ server' \in SpawnProcessGroup
    /\ at' = "ready"
    /\ UNCHANGED <<reuse, session, playwright, abort, thrown, codes,
                   firstFailure, late, over, signals, disk>>

(* waitForServerReady: some process answers, or the timeout.               *)
ServerReady ==
    /\ at = "ready"
    /\ server.leader = "alive" \/ server.rest \/ server.escaped
    /\ at' = "start"
    /\ UNCHANGED <<reuse, session, server, playwright, abort, thrown, codes,
                   firstFailure, late, over, signals, disk>>

(* Not ready in time, or the child's "error" event (it has no pid).        *)
ServerCannotStart ==
    /\ at = "ready"
    /\ Abort("dev-server-start")
    /\ UNCHANGED <<reuse, session, server, playwright, thrown, codes,
                   firstFailure, late, over, signals>>

(* The liveness monitor and Playwright are started without an await after  *)
(* the readiness answer.                                                   *)
StartSweep ==
    /\ at = "start"
    /\ playwright' \in SpawnProcessGroup
    /\ late' = FALSE
    /\ at' = "sweep"
    /\ UNCHANGED <<reuse, session, server, abort, thrown, codes, firstFailure,
                   over, signals, disk>>

(* A health probe URL that does not parse, or a spawn that throws: the     *)
(* exception leaves through the same teardown.                             *)
SetupThrows ==
    /\ at = "start"
    /\ thrown' = TRUE
    /\ at' = "stop"
    /\ UNCHANGED <<reuse, session, server, playwright, abort, codes,
                   firstFailure, late, over, signals, disk>>

-----------------------------------------------------------------------------
(* The events of the race.                                                 *)

(* The dev server's "exit" event: a reason to abort while the run is       *)
(* watched; afterwards it only ends the wait of the teardown.              *)
ServerExits ==
    /\ at \in Awaiting /\ server.leader = "dead" /\ ~server.seen
    /\ server' = [server EXCEPT !.seen = TRUE]
    /\ IF MayAbort THEN Abort("dev-server-exit")
                   ELSE UNCHANGED <<at, abort, disk>>
    /\ UNCHANGED <<reuse, session, playwright, thrown, codes, firstFailure,
                   late, over, signals>>

(* The monitor: no HTTP response for stallMs.                              *)
ServerStalls ==
    /\ at = "sweep"
    /\ Abort("dev-server-stall")
    /\ UNCHANGED <<reuse, session, server, playwright, thrown, codes,
                   firstFailure, late, over, signals>>

(* Playwright's exit wins the race: a failure after its global timeout is  *)
(* the deadline, any other outcome is the session's result.                *)
SweepEnds(code) ==
    /\ at = "sweep" /\ playwright.leader = "dead" /\ ~playwright.seen
    /\ playwright' = [playwright EXCEPT !.seen = TRUE]
    /\ codes' = [codes EXCEPT ![session] = code]
    /\ IF code # "passed" /\ late
       THEN Abort("deadline")
       ELSE at' = "stop" /\ UNCHANGED <<abort, disk>>
    /\ UNCHANGED <<reuse, session, server, thrown, firstFailure, late, over,
                   signals>>

SweepCannotStart ==
    /\ at = "sweep" /\ playwright.leader = "none"
    /\ Abort("playwright-start")
    /\ UNCHANGED <<reuse, session, server, playwright, thrown, codes,
                   firstFailure, late, over, signals>>

DeadlineFires ==
    /\ at \in Watching /\ over
    /\ Abort("deadline")
    /\ UNCHANGED <<reuse, session, server, playwright, thrown, codes,
                   firstFailure, late, over, signals>>

(* SIGINT or SIGTERM.  While the handlers are installed it is a reason to  *)
(* stop; from the teardown on it has its default action and ends the       *)
(* runner, and the workflow's shell may still note the exit code.          *)
Signal ==
    /\ at \notin {"start", "ended", "killed"} /\ signals < MaxSignals
    /\ signals' = signals + 1
    /\ IF MayAbort
       THEN Abort("interrupted")
       ELSE /\ at' = "killed"
            /\ disk' \in {disk, [disk EXCEPT !.code = 143]}
            /\ UNCHANGED abort
    /\ UNCHANGED <<reuse, session, server, playwright, thrown, codes,
                   firstFailure, late, over>>

-----------------------------------------------------------------------------
(* The teardown: terminateProcessTree of the sweep, unless its exit was    *)
(* seen, then of the server, then the drain of the server's output.        *)

(* The first half of terminateProcessTree: a running child gets SIGTERM    *)
(* and its grace; the group of one that is gone gets SIGKILL.  SIGTERM     *)
(* changes nothing by itself: the children die when they like.             *)
Terminate(tree, wait, next) ==
    IF IsRunning(tree) THEN at' = wait ELSE at' = next

StopSweep ==
    /\ at = "stop"
    /\ Terminate(playwright, "graceSweep", "stopServer")
    /\ UNCHANGED <<reuse, session, server, playwright, abort, thrown, codes,
                   firstFailure, late, over, signals, disk>>

(* Mutant: waitForExit without its timer.                                  *)
GraceUntilExit(tree) == tree.seen

(* The grace is over: the child exited, or it is killed and waited for     *)
(* two seconds.  Either way the group gets a last SIGKILL.                 *)
GraceOver(tree) == TRUE

GraceOfSweepEnds ==
    /\ at = "graceSweep" /\ GraceOver(playwright)
    /\ playwright' = SigKill(playwright)
    /\ at' = IF playwright.seen THEN "stopServer" ELSE "killSweep"
    /\ UNCHANGED <<reuse, session, server, abort, thrown, codes, firstFailure,
                   late, over, signals, disk>>

KillOfSweepEnds ==
    /\ at = "killSweep"
    /\ playwright' = SigKill(playwright)
    /\ at' = "stopServer"
    /\ UNCHANGED <<reuse, session, server, abort, thrown, codes, firstFailure,
                   late, over, signals, disk>>

(* Mutant: terminateProcessTree is done once the leader is gone.           *)
LastKillMissing(tree) == tree

(* A server whose exit has been seen may have left children behind.        *)
LastKill(tree) == SigKill(tree)

StopServer ==
    /\ at = "stopServer"
    /\ Terminate(server, "graceServer", "drain")
    /\ server' = IF IsRunning(server) THEN server ELSE LastKill(server)
    /\ UNCHANGED <<reuse, session, playwright, abort, thrown, codes,
                   firstFailure, late, over, signals, disk>>

GraceOfServerEnds ==
    /\ at = "graceServer" /\ GraceOver(server)
    /\ server' = IF server.seen THEN LastKill(server) ELSE SigKill(server)
    /\ at' = IF server.seen THEN "drain" ELSE "killServer"
    /\ UNCHANGED <<reuse, session, playwright, abort, thrown, codes,
                   firstFailure, late, over, signals, disk>>

KillOfServerEnds ==
    /\ at = "killServer"
    /\ server' = LastKill(server)
    /\ at' = "drain"
    /\ UNCHANGED <<reuse, session, playwright, abort, thrown, codes,
                   firstFailure, late, over, signals, disk>>

(* The race of the "close" event, which an escaped grandchild can hold     *)
(* back, with a timer; then superviseBenchmark returns, or throws and the  *)
(* loop takes the exception for a runner-error.                            *)
DrainEnds ==
    /\ at = "drain"
    /\ abort' = IF thrown THEN [kind |-> "runner-error",
                                code |-> AbortExitCode["runner-error"]]
                          ELSE abort
    /\ at' = "returned"
    /\ UNCHANGED <<reuse, session, server, playwright, thrown, codes,
                   firstFailure, late, over, signals, disk>>

-----------------------------------------------------------------------------
(* The loop of runResponsiveness.                                          *)

(* Mutants: the last session's exit code counts; the loop goes on after a  *)
(* session that was stopped.                                               *)
LastSessionCounts == ExitCode(codes[session])
StoppedInLastSession == abort # NoAbort /\ session = Sessions

(* The first failing session gives the exit code of a run not stopped.     *)
FirstFailure == IF firstFailure # 0 THEN firstFailure
                ELSE ExitCode(codes[session])

Stopped == abort # NoAbort

NextSession ==
    /\ at = "returned" /\ ~Stopped /\ session < Sessions
    /\ firstFailure' = FirstFailure
    /\ session' = session + 1
    /\ server' = NoTree /\ playwright' = NoTree
    /\ at' = "probe"
    /\ UNCHANGED <<reuse, abort, thrown, codes, late, over, signals, disk>>

(* The final artifacts replace the early ones, if there were any.          *)
FinalExitCode == IF Stopped THEN abort.code ELSE FirstFailure

WriteSummary ==
    /\ at = "returned" /\ (Stopped \/ session = Sessions)
    /\ disk' = SummaryOf(Artifacts(abort, FinalExitCode))
    /\ at' = "writing"
    /\ UNCHANGED <<reuse, session, server, playwright, abort, thrown, codes,
                   firstFailure, late, over, signals>>

WriteExitCode ==
    /\ at = "writing"
    /\ disk' = Artifacts(abort, FinalExitCode)
    /\ at' = "ended"
    /\ UNCHANGED <<reuse, session, server, playwright, abort, thrown, codes,
                   firstFailure, late, over, signals>>

(* What the comment job makes of the files the runner left, whenever that  *)
(* was: an unreadable exit code is read as 1.                              *)
Verdict ==
    CASE disk.status = "none" \/ disk.reason # "none" -> "did not run"
      [] disk.status = "pass" /\ disk.code = 0 -> "passed"
      [] OTHER -> "needs changes"

-----------------------------------------------------------------------------
(* The processes, the clock and the host.                                  *)

Deaths(tree) ==
    { t \in [leader: {tree.leader, "dead"}, seen: {tree.seen},
             rest: {tree.rest, FALSE}, escaped: {tree.escaped, FALSE}] :
        tree.leader # "none" /\ t # tree }

ServerProcessDies ==
    /\ at \notin {"start", "ended", "killed"}
    /\ server' \in Deaths(server)
    /\ UNCHANGED <<reuse, at, session, playwright, abort, thrown, codes,
                   firstFailure, late, over, signals, disk>>

SweepProcessDies ==
    /\ at \notin {"start", "ended", "killed"}
    /\ playwright' \in Deaths(playwright)
    /\ UNCHANGED <<reuse, at, session, server, abort, thrown, codes,
                   firstFailure, late, over, signals, disk>>

(* The exit event of a sweep that is being stopped ends a wait.            *)
StoppedSweepExits ==
    /\ at \in {"graceSweep", "killSweep"}
    /\ playwright.leader = "dead" /\ ~playwright.seen
    /\ playwright' = [playwright EXCEPT !.seen = TRUE]
    /\ UNCHANGED <<reuse, at, session, server, abort, thrown, codes,
                   firstFailure, late, over, signals, disk>>

GlobalTimeoutNears ==
    /\ at = "sweep" /\ ~late
    /\ late' = TRUE
    /\ UNCHANGED <<reuse, at, session, server, playwright, abort, thrown,
                   codes, firstFailure, over, signals, disk>>

DeadlinePasses ==
    /\ at \notin {"start", "ended", "killed"} /\ ~over
    /\ over' = TRUE
    /\ UNCHANGED <<reuse, at, session, server, playwright, abort, thrown,
                   codes, firstFailure, late, signals, disk>>

(* A host that is shutting down kills the runner after its signal.         *)
HostStops ==
    /\ at \notin {"start", "ended", "killed"} /\ signals > 0
    /\ at' = "killed"
    /\ UNCHANGED <<reuse, session, server, playwright, abort, thrown, codes,
                   firstFailure, late, over, signals, disk>>

-----------------------------------------------------------------------------
Codes == {"passed", "failed", "signal"}

(* What the runner does by itself, without any child: its timers, and its  *)
(* own continuations.                                                      *)
Runner ==
    \/ SpawnServer \/ ReuseServer \/ StartSweep
    \/ DeadlineFires
    \/ StopSweep \/ GraceOfSweepEnds \/ KillOfSweepEnds
    \/ StopServer \/ GraceOfServerEnds \/ KillOfServerEnds \/ DrainEnds
    \/ NextSession \/ WriteSummary \/ WriteExitCode

Events ==
    \/ AlreadyAvailable \/ ServerReady \/ ServerCannotStart \/ SetupThrows
    \/ ServerExits \/ ServerStalls \/ SweepCannotStart \/ Signal
    \/ \E code \in Codes : SweepEnds(code)
    \/ ServerProcessDies \/ SweepProcessDies \/ StoppedSweepExits
    \/ GlobalTimeoutNears \/ HostStops

(* The runner has stopped for good: nothing more is decided.               *)
Over == at \in {"ended", "killed"} /\ UNCHANGED vars

Next == Runner \/ Events \/ DeadlinePasses \/ Over

(* Timers fire and the event loop runs; the children owe the runner        *)
(* nothing.                                                                *)
Fairness == WF_vars(Runner) /\ WF_vars(DeadlinePasses)

Spec == Init /\ [][Next]_vars /\ Fairness

-----------------------------------------------------------------------------
(* Properties.                                                             *)

Stages == Awaiting \cup {"start", "stop", "stopServer", "returned", "writing",
                         "ended", "killed"}

TypeOK ==
    /\ reuse \in BOOLEAN /\ at \in Stages /\ session \in 1..Sessions
    /\ server \in Tree /\ playwright \in Tree
    /\ abort \in [kind: Kinds, code: {1, 3, 4, 143}] \cup {NoAbort}
    /\ at \in Watching => abort = NoAbort
    /\ thrown \in BOOLEAN
    /\ codes \in [1..Sessions -> Codes \cup {"none"}]
    /\ firstFailure \in {0, 1}
    /\ late \in BOOLEAN /\ over \in BOOLEAN
    /\ signals \in 0..MaxSignals
    /\ disk \in [status: {"none", "pass", "fail"},
                reason: Kinds \cup {"none"}, code: {0, 1, 3, 4, 143, 256}]

(* The dev server's group is gone whenever superviseBenchmark has returned,*)
(* whatever SIGTERM did and whoever of the group died first; so is the     *)
(* group of a sweep that was stopped.  The next session then finds its port*)
(* free and the final summary is written with nothing of these running     *)
(* (responsiveness-supervisor.cjs:7-9, 452-468).                           *)
StoppedTreesAreGone ==
    at \in {"returned", "writing", "ended"} =>
        /\ GroupGone(server)
        /\ (codes[session] = "none" => GroupGone(playwright))

(* A sweep that came to its own end is never reported as a failure of the  *)
(* dev server, a stall or an interruption: what happens during the teardown*)
(* is the teardown itself (responsiveness-supervisor.cjs:717-719).  Only a *)
(* failing sweep can still become the deadline's.                          *)
FinishedSweepStands ==
    codes[session] # "none" =>
        \/ ~Stopped
        \/ abort.kind = "deadline" /\ codes[session] # "passed"

(* Whenever the runner was killed and whatever it had written by then, the *)
(* comment says that the checks passed only when every session ran and its *)
(* sweep passed: no later session, stop or half-written set of files hides *)
(* an earlier failure (responsiveness-runner.cjs:2435-2442,                *)
(* responsiveness-review.cjs:886-894).                                     *)
CleanVerdictIsEarned ==
    Verdict = "passed" => \A s \in 1..Sessions : codes[s] = "passed"

(* The reason on disk is the first one that was decided: the final write   *)
(* replaces the early artifacts and no later event, session or teardown    *)
(* changes why the run was stopped.                                        *)
FirstReasonStands ==
    [][disk.reason # "none" => disk'.reason = disk.reason]_vars

(* However the children behave, whatever they ignore and hold open, the    *)
(* run ends: with its summary, or because something killed the runner.     *)
RunEnds == <>(at \in {"ended", "killed"})
=============================================================================
