CONSTANTS
    Pairs <- MCPairs
SPECIFICATION Spec
INVARIANTS
    SidesRunInTurn
    PairVerdictIsEarned
    PassIsNoRegression
