CONSTANTS
    NativeCalls = {"e"}
    InnerCalls = {"i"}
    Key <- ExecuteKey
    Outer <- ExecuteOuter
    Settings <- ExecuteSettings
    MaxRecords = 9
    MaxFaults = 1
SPECIFICATION FairSpec
INVARIANTS
    CompleteIsTheWholeTruth
    NoInvocationProofIsSound
    GapsAreReported
PROPERTY
    EvidenceIsBuilt
CHECK_DEADLOCK FALSE
