CONSTANTS
    TargetMaxAttempts = 3
    JudgeMaxAttempts = 2
    Jobs <- MCJobs
    Assertions = {a1, a2}
SPECIFICATION Spec
INVARIANTS
    ReplaySafe
    OnlyFailuresAreRepeated
    HistoryExplained
    VerdictIsEarned
    ReportTellsTheAttempts
    EveryAssertionIsReported
PROPERTIES
    JudgeNeedsEarnedTarget
    StepsArePaidFor
    PhasesActAtMostOnce
