CONSTANTS
    NativeCalls = {"e", "f"}
    InnerCalls = {}
    Key <- SameExecuteKey
    Outer <- NoOuter
    Settings <- SameExecuteSettings
    MaxRecords = 9
    MaxFaults = 0
SPECIFICATION Spec
INVARIANT
    DuplicatesFailClosed
CHECK_DEADLOCK FALSE
