CONSTANTS
    p1 = p1
    p2 = p2
    p3 = p3
    r1 = r1
    r2 = r2
    Process = {p1, p2, p3}
    Runs = {r1, r2}
    RunOf <- SharedRun
    Failing = {p3}
    MaxFaults = 3
    MaxWipes = 2
SPECIFICATION FairSpec
INVARIANTS
    HeldDirectoryIsOneRuns
    ArtifactsAreWhole
    StrayWritesWereInFlight
PROPERTIES
    ImplementsOneOwner
    EmptyDirectoryIsClaimed
    RefusalsAreForAnother
