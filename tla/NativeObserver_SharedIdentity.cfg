CONSTANTS
    p = p
    q = q
    r = r
    NativeCalls = {p, q, r}
    InnerCalls = {}
    Key <- SharedKey
    Outer <- NoOuter
    Settings <- SharedSettings
    MaxRecords = 9
    MaxFaults = 0
SYMMETRY Symmetry
SPECIFICATION Spec
INVARIANTS
    CompleteIsTheWholeTruth
    CleanRunsAreComplete
CHECK_DEADLOCK FALSE
