\* Two dev-server sessions under crashes, stalls, signals and the deadline.
SPECIFICATION Spec
CONSTANTS
    Sessions = 2
    MaxSignals = 2
INVARIANTS TypeOK StoppedTreesAreGone FinishedSweepStands CleanVerdictIsEarned
PROPERTIES FirstReasonStands RunEnds
