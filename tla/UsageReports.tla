---------------------------- MODULE UsageReports ----------------------------
(***************************************************************************)
(* Who reads the usage ledger: the usage API of the App server with its    *)
(* response cache (src/src/usage-api.cjs) and the scheduled alert check    *)
(* (src/src/scheduled-spend-check.cjs, spend-alerts.cjs).  Both read it in *)
(* pages (src/src/usage-api-ledger.cjs), one statement each, while workers *)
(* go on writing (src/src/usage-ledger.cjs).                               *)
(*                                                                         *)
(* A statement blocks its process, so one process reads for one request at *)
(* a time, and what it does after the last page belongs to that step.  An  *)
(* event costs one unit and counts for its repository; the database and    *)
(* the server are taken to agree on the time.                              *)
(***************************************************************************)
EXTENDS Integers, Sequences, FiniteSets, SequencesExt

CONSTANTS
    Repo,
    PublicRepos,   \* settings.publicRepos and publicOrganizations
    Question,      \* bound: the requests there may be, with a route and the
                   \* "days" of the query in its order, which may repeat
                   \* them; each at most settings.maxDays
    TtlMs,         \* settings.cacheTtlMs
    MaxEntries,    \* settings.cacheMaxEntries
    PageSize,
    MaxEvents,     \* settings.maxEvents
    LookbackDays,  \* of the alert check
    PeriodDays,    \* of the budget rows
    CapUsd,        \* the enabled budget rows: [Repo -> cap]
    WarningPercent, \* policy.budgetWarningPercent
    MaxAlerts,     \* policy.maxAlerts
    SpikeAlerts,   \* bound: what spendSpikeAlerts may find
    MaxRows,       \* bound: events written
    MaxTime        \* bound: the clock

ASSUME ReportsAssumption ==
    /\ IsFiniteSet(Repo) /\ PublicRepos \subseteq Repo
    /\ Question \subseteq [visibility: {"public", "admin"},
                        days: Seq(Nat \ {0}) \ {<<>>}]
    /\ {TtlMs, MaxEntries, PageSize, MaxEvents, LookbackDays, PeriodDays, MaxAlerts}
           \subseteq Nat \ {0}
    /\ WarningPercent \in 1..100 /\ IsFiniteSet(SpikeAlerts)
    /\ SpikeAlerts \subseteq [kind: {"spend_spike"}, repo: Repo,
                             severity: {"warning", "critical"}, score: Nat]
    /\ CapUsd \in [Repo -> Nat \ {0}]
    /\ MaxRows \in Nat /\ MaxTime \in Nat

VARIABLES
    now,       \* the clock, in days: a TtlMs of 1 is a day too
    rows,      \* events whose insert has begun, committed or not
    reader,    \* what the server and the alert check read
    cache,     \* entries of the response cache, in the order of insertion
    served,    \* what the API answers in this step, and to what (observation)
    alerts     \* what the alert check finds in this step (observation)

vars == <<now, rows, reader, cache, served, alerts>>

Process == {"server", "check"}

Pending == -1
Row == [id: 1..MaxRows, at: 0..MaxTime, repo: Repo, committed: -1..MaxTime]
Ledger == {r \in rows : r.committed # Pending}

NoQuestion == [visibility |-> "none", days |-> <<>>]
Idle == [question |-> NoQuestion, from |-> 0, to |-> 0, events |-> <<>>,
         reading |-> FALSE, raced |-> FALSE]
NoAnswer == [question |-> NoQuestion, events |-> <<>>, names |-> {},
             to |-> 0, loaded |-> 0, raced |-> FALSE]
NotServed == [answer |-> NoAnswer, at |-> 0, asked |-> NoQuestion]
NoCheck == [events |-> <<>>, to |-> 0, loaded |-> 0, raced |-> FALSE,
            reported |-> {}]

Init ==
    /\ now = 0
    /\ rows = {}
    /\ reader = [p \in Process |-> Idle]
    /\ cache = <<>>
    /\ served = NotServed
    /\ alerts = NoCheck

Quiet == served' = NotServed /\ alerts' = NoCheck

-----------------------------------------------------------------------------
(* The workers.  created_at is the time at which the insert begins; the    *)
(* row is seen once it is committed, or never.                             *)

BeginWrite(repo) ==
    /\ Cardinality(rows) < MaxRows
    /\ rows' = rows \cup {[id |-> Cardinality(rows) + 1, at |-> now,
                           repo |-> repo, committed |-> Pending]}
    /\ Quiet /\ UNCHANGED <<now, reader, cache>>

InRange(row, r) == r.from <= row.at /\ row.at < r.to

(* A reader is raced when a row in its range is committed while it reads.  *)
CommitWrite(row) ==
    /\ row \in rows \ Ledger
    /\ rows' = (rows \ {row}) \cup {[row EXCEPT !.committed = now]}
    /\ reader' = [p \in Process |->
           IF reader[p].reading /\ InRange(row, reader[p])
           THEN [reader[p] EXCEPT !.raced = TRUE] ELSE reader[p]]
    /\ Quiet /\ UNCHANGED <<now, cache>>

-----------------------------------------------------------------------------
(* readUsageEvents.                                                        *)

(* Mutant: the query has no upper bound.                                   *)
MatchingFrom(r) == {row \in Ledger : r.from <= row.at}

Matching(r) == {row \in Ledger : InRange(row, r)}

(* "order by created_at desc" leaves the order of ties to the database,    *)
(* anew in every statement.                                                *)
Orders(S) == {s \in [1..Cardinality(S) -> S] :
                 \A i, j \in 1..Len(s) : i < j => s[i] # s[j] /\ s[i].at >= s[j].at}

Least(m, n) == IF m < n THEN m ELSE n

PageLimit(r) == Least(PageSize, MaxEvents - Len(r.events))

(* Every page before the last one is full, so what was read is the offset. *)
Pages(r) == {SubSeq(s, Len(r.events) + 1,
                    Least(Len(s), Len(r.events) + PageLimit(r))) :
                s \in Orders(Matching(r))}

LastPage(r, page) ==
    \/ Len(page) < PageLimit(r)
    \/ Len(r.events) + Len(page) >= MaxEvents

StartReading(p, question, days) ==
    reader' = [reader EXCEPT ![p] =
        [question |-> question, from |-> now - days, to |-> now,
         events |-> <<>>, reading |-> TRUE, raced |-> FALSE]]

(* A page that is not the last one.                                        *)
ReadPage(p) ==
    /\ reader[p].reading
    /\ \E page \in Pages(reader[p]) :
           /\ ~LastPage(reader[p], page)
           /\ reader' = [reader EXCEPT ![p].events = @ \o page]
    /\ Quiet /\ UNCHANGED <<now, rows, cache>>

(* A statement fails: the request is answered 500, the check ends.         *)
ReadFails(p) ==
    /\ reader[p].reading
    /\ reader' = [reader EXCEPT ![p] = Idle]
    /\ Quiet /\ UNCHANGED <<now, rows, cache>>

-----------------------------------------------------------------------------
(* The usage API.                                                          *)

(* usageRangeFromRequest: searchParams.get returns the first value.        *)
RangeDays(question) == Head(question.days)

(* Mutant: the key is the range, and does not tell the routes apart.       *)
KeyOfRange(question) == RangeDays(question)

(* usageApiResponseCacheKey: the route and the parameters, sorted, so that *)
(* their order is lost.                                                    *)
KeyOf(question) == [route |-> question.visibility, query |-> ToBag(question.days)]

(* Mutant: entries do not expire.                                          *)
LiveForEver(entry) == TRUE

Live(entry) == entry.expiresAt > now

PlacesOf(entries, key) == {i \in DOMAIN entries : entries[i].key = key}
Without(entries, key) ==
    IF PlacesOf(entries, key) = {} THEN entries
    ELSE RemoveAt(entries, CHOOSE i \in PlacesOf(entries, key) : TRUE)
EntryOf(key) == {cache[i] : i \in PlacesOf(cache, key)}

Serve(answer, question) ==
    served' = [answer |-> answer, at |-> now, asked |-> question]

(* handleUsageApiRequest, for a request that is authorized: a live entry   *)
(* is the answer, an expired one is deleted, and the events are read.      *)
AskCached(question) ==
    /\ ~reader["server"].reading
    /\ \E entry \in EntryOf(KeyOf(question)) :
           Live(entry) /\ Serve(entry.answer, question)
    /\ UNCHANGED <<now, rows, reader, cache>> /\ alerts' = NoCheck

Ask(question) ==
    /\ ~reader["server"].reading
    /\ \A entry \in EntryOf(KeyOf(question)) : ~Live(entry)
    /\ cache' = Without(cache, KeyOf(question))
    /\ StartReading("server", question, RangeDays(question))
    /\ Quiet /\ UNCHANGED <<now, rows>>

(* summarizeUsageEvents: the public summary names a repository only when   *)
(* the settings make it public (usageRecordToEvent, repoKey).              *)
NamesIn(question, events) ==
    LET repos == {events[i].repo : i \in DOMAIN events} IN
    IF question.visibility = "admin" THEN repos ELSE repos \cap PublicRepos

(* Mutant: one entry too many.                                             *)
FullOffByOne(entries) == Len(entries) > MaxEntries

Full(entries) == Len(entries) >= MaxEntries

(* set: at the limit the oldest insertion goes; an entry that is replaced  *)
(* keeps its place.                                                        *)
CacheSet(entries, key, answer) ==
    LET entry == [key |-> key, expiresAt |-> now + TtlMs, answer |-> answer]
        places == PlacesOf(entries, key)
    IN  IF places # {} THEN [i \in DOMAIN entries |->
                                IF i \in places THEN entry ELSE entries[i]]
        ELSE Append(IF Full(entries) THEN Tail(entries) ELSE entries, entry)

Ids(events) == [i \in DOMAIN events |-> events[i].id]

(* The last page, the summary, the cache and the response.                 *)
FinishAnswer ==
    LET r == reader["server"] IN
    /\ r.reading
    /\ \E page \in Pages(r) :
           /\ LastPage(r, page)
           /\ LET events == r.events \o page
                  answer == [question |-> r.question, events |-> Ids(events),
                             names |-> NamesIn(r.question, events),
                             to |-> r.to, loaded |-> now, raced |-> r.raced]
              IN  /\ cache' = CacheSet(cache, KeyOf(r.question), answer)
                  /\ Serve(answer, r.question)
    /\ reader' = [reader EXCEPT !["server"] = Idle]
    /\ UNCHANGED <<now, rows>> /\ alerts' = NoCheck

(* A deployment or a crash: the cache is that of the process.              *)
RestartServer ==
    /\ cache' = <<>>
    /\ reader' = [reader EXCEPT !["server"] = Idle]
    /\ cache # <<>> \/ reader["server"].reading
    /\ Quiet /\ UNCHANGED <<now, rows>>

-----------------------------------------------------------------------------
(* The alert check.                                                        *)

StartCheck ==
    /\ ~reader["check"].reading
    /\ StartReading("check", NoQuestion, LookbackDays)
    /\ Quiet /\ UNCHANGED <<now, rows, cache>>

PeriodStart(t) == t - (t % PeriodDays)

SpentIn(events, repo, from) ==
    Cardinality({i \in DOMAIN events : events[i].repo = repo /\ events[i].at >= from})

(* Mutant: only a cap that is passed is critical.                          *)
CriticalOverCap(repo, spent) == spent > CapUsd[repo]

(* budgetUtilizationAlerts, with the critical threshold at 100 percent.    *)
Critical(repo, spent) == spent >= CapUsd[repo]

Percent(repo, spent) == (100 * spent) \div CapUsd[repo]

BudgetAlerts(events, to) ==
    LET spent(repo) == SpentIn(events, repo, PeriodStart(to))
        warned == {repo \in Repo : Percent(repo, spent(repo)) >= WarningPercent}
    IN  {[kind |-> "budget_utilization", repo |-> repo,
          severity |-> IF Critical(repo, spent(repo)) THEN "critical" ELSE "warning",
          score |-> Percent(repo, spent(repo))] : repo \in warned}

(* Mutant: the alerts are sorted by their scores only.                     *)
BeforeByScore(a, b) == a.score > b.score

(* compareAlerts; the ids decide between equals, which is left open.       *)
Before(a, b) ==
    \/ a.severity = "critical" /\ b.severity = "warning"
    \/ a.severity = b.severity /\ a.score > b.score

(* What evaluateSpendAlerts keeps of the sorted alerts.                    *)
Reports(found) ==
    {kept \in SUBSET found :
        /\ Cardinality(kept) = Least(MaxAlerts, Cardinality(found))
        /\ \A a \in kept, b \in found \ kept : ~Before(b, a)}

(* The last page and the evaluation; what is sent keeps no state.          *)
FinishCheck ==
    LET r == reader["check"] IN
    /\ r.reading
    /\ \E page \in Pages(r), spikes \in SUBSET SpikeAlerts :
           /\ LastPage(r, page)
           /\ LET events == r.events \o page
              IN  \E reported \in Reports(BudgetAlerts(events, r.to) \cup spikes) :
                      alerts' = [events |-> Ids(events), to |-> r.to, loaded |-> now,
                                 raced |-> r.raced, reported |-> reported]
    /\ reader' = [reader EXCEPT !["check"] = Idle]
    /\ UNCHANGED <<now, rows, cache>> /\ served' = NotServed

-----------------------------------------------------------------------------
Tick ==
    /\ now < MaxTime
    /\ now' = now + 1
    /\ Quiet /\ UNCHANGED <<rows, reader, cache>>

Next ==
    \/ \E repo \in Repo : BeginWrite(repo)
    \/ \E row \in rows : CommitWrite(row)
    \/ \E p \in Process : ReadPage(p) \/ ReadFails(p)
    \/ \E question \in Question : AskCached(question) \/ Ask(question)
    \/ FinishAnswer \/ RestartServer
    \/ StartCheck \/ FinishCheck
    \/ Tick

Spec == Init /\ [][Next]_vars

-----------------------------------------------------------------------------
(* Properties.                                                             *)

Answer == [question: Question, events: Seq(1..MaxRows), names: SUBSET Repo,
           to: 0..MaxTime, loaded: 0..MaxTime, raced: BOOLEAN]

TypeOK ==
    /\ now \in 0..MaxTime
    /\ rows \subseteq Row
    /\ \A p \in Process : /\ Len(reader[p].events) < MaxEvents
                          /\ \A i \in DOMAIN reader[p].events :
                                 reader[p].events[i] \in Row
    /\ \A i \in DOMAIN cache : cache[i].answer \in Answer
    /\ Len(cache) <= MaxEntries
    /\ served.answer \in Answer \cup {NoAnswer} /\ served.at \in 0..MaxTime
    /\ Cardinality(alerts.reported) <= MaxAlerts /\ Len(alerts.events) <= MaxEvents

(* Rows the database may order either way.                                 *)
Tied(row) == \E other \in Ledger \ {row} : other.at = row.at

Counts(events, id) == Cardinality({i \in DOMAIN events : events[i] = id})

(* An event that was committed longer ago than the cache keeps an answer,  *)
(* plus the time its pages took to read, is in every answer for its range, *)
(* or, if the query names several, for all of them: no insert, page        *)
(* boundary, cached copy or restart hides it.  Beyond                      *)
(* settings.maxEvents the oldest are left out, as are, at a page boundary, *)
(* events of one moment (usage-api.cjs:1067-1091, usage-api-ledger.cjs:    *)
(* 71-112).                                                                *)
OldEventsAreCounted ==
    LET a == served.answer
        delay == TtlMs + (a.loaded - a.to)
    IN  a # NoAnswer /\ Len(a.events) < MaxEvents =>
            \A row \in Ledger :
                (/\ \A days \in Range(served.asked.days) : row.at >= served.at - days
                 /\ row.committed + delay < served.at
                 /\ ~Tied(row)) => Counts(a.events, row.id) >= 1

(* No event is counted twice in a summary or for an alert, although rows   *)
(* are inserted between two pages: what begins after the reading is out of *)
(* its range.  Only a row that began before the reading and is committed   *)
(* during it can push another one onto the next page.                      *)
EventsAreCountedOnce ==
    \A read \in {served.answer, alerts} :
        ~read.raced => \A row \in Ledger :
            ~Tied(row) => Counts(read.events, row.id) <= 1

(* Whatever else is in the cache, an answer is one of the route that was   *)
(* asked, and a public one names no repository that the settings do not    *)
(* make public.  Its range is one that the query names: the first, unless  *)
(* the query repeats "days" with different values, which the key sorts     *)
(* (usage-api.cjs:399, 977-989, 1111-1120).                                *)
AnswersFitTheQuestion ==
    served.answer # NoAnswer =>
        /\ served.answer.question.visibility = served.asked.visibility
        /\ RangeDays(served.answer.question) \in Range(served.asked.days)
        /\ served.asked.visibility = "public" => served.answer.names \subseteq PublicRepos

(* The alert check agrees with budget admission: a repository whose spend  *)
(* in the period, as a snapshot taken before the check would have shown it *)
(* (budget-ledger.cjs:73-86), has reached its cap is reported as critical, *)
(* unless there were more events than the check reads.  Only policy.       *)
(* maxAlerts can drop it, and then for alerts that are all critical and    *)
(* have a score at least that of a cap that is reached (spend-alerts.cjs:  *)
(* 80, 285-290).                                                           *)
SpentBefore(repo, t) ==
    Cardinality({row \in Ledger : row.repo = repo /\ row.committed < t
                                  /\ row.at >= PeriodStart(t)})

CapsReachedAreCritical ==
    (Len(alerts.events) < MaxEvents /\ ~\E row \in Ledger : Tied(row)) =>
        \A repo \in Repo :
            SpentBefore(repo, alerts.to) >= CapUsd[repo] =>
                \/ \E a \in alerts.reported :
                       a.kind = "budget_utilization" /\ a.repo = repo /\ a.severity = "critical"
                \/ /\ Cardinality(alerts.reported) = MaxAlerts
                   /\ \A a \in alerts.reported : a.severity = "critical" /\ a.score >= 100
=============================================================================
