CONSTANTS
    Requests <- MCRequests
    Raises = {"expected"}
    MaxFaults = 1
SPECIFICATION FairSpec
INVARIANTS
    PlanIsTheSelection
    
    ManifestTellsTheRun
    RuntimeLaneIsGated
    OnlyFaultsLeaveARunOpen
PROPERTIES
    Terminates
    StepsArePaidFor
