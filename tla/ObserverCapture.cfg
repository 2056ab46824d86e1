CONSTANTS
    MaxRecords = 6
    Budget = 4
    Alphabets <- Alphabet
    Cases <- MCCases
SPECIFICATION Spec
INVARIANTS
    BuiltEvidenceIsAccepted
    CompleteExactlyWhenFaultless
    InvalidStaysInvalid
    ChecksTellTheLines
CHECK_DEADLOCK FALSE
