\* Two events, read one at a time, while the clock goes on.
SPECIFICATION Spec
CONSTANTS
    open = open
    closed = closed
    Repo = {open, closed}
    PublicRepos = {open}
    Question <- MCQuestion
    TtlMs = 1
    MaxEntries = 1
    PageSize = 1
    MaxEvents = 3
    LookbackDays = 2
    PeriodDays = 2
    CapUsd <- MCCapUsd
    WarningPercent = 80
    MaxAlerts = 1
    SpikeAlerts <- MCSpikeAlerts
    MaxRows = 2
    MaxTime = 2
INVARIANTS TypeOK OldEventsAreCounted EventsAreCountedOnce AnswersFitTheQuestion CapsReachedAreCritical
CHECK_DEADLOCK FALSE
