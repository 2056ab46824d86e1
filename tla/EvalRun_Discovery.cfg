CONSTANTS
    Requests <- OneProfile
    Raises = {"expected", "unexpected"}
    MaxFaults = 0
SPECIFICATION FairSpec
INVARIANT
    ExitOneIsAVerdict
