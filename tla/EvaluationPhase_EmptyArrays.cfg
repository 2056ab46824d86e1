CONSTANTS
    TargetMaxAttempts = 1
    JudgeMaxAttempts = 1
    Jobs <- MCJobs
    Assertions = {a1}
SPECIFICATION Spec
INVARIANT EmptyArraysAssertNothing
