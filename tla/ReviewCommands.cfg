\* Two runs for one head, of each command: overlapping, killed, started again.
SPECIFICATION Spec
CONSTANTS
    r1 = r1
    r2 = r2
    Run = {r1, r2}
    Threads = 3
    CostCap = 2
    MaxCost = 2
INVARIANTS TypeOK CompletedRunsDoNotOverlap CompletedRunsRecordTheirSpend RerunsRepeatNothing
PROPERTIES NoCallOverTheCap RunsEnd
CHECK_DEADLOCK FALSE
