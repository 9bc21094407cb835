SPECIFICATION DotSpec
CONSTANTS
    Precision = 7
    Dimension = 2
    One = 25
    Delta = 1
    Quantum = 4
    LargestEntry = 150
    Models = {"m1", "m2"}
    PrimaryVector <- MCPrimaryVector
    ResidualVector <- MCResidualVector
    Blocks = {1, 2}
    Labels = {"label"}
    RowLists <- MCRowLists
    Queries <- MCQueries
    FractionBits = 1
    LargestHalf = 5
    HalfUnit = 16
    MinNorm = 3
    RowLengths = {2, 8, 24, 40, 95, 97}
    QueryScales = {1, 2}
INVARIANTS
    IntervalsHoldTruth
    DotIntervalsHoldTruth
CHECK_DEADLOCK FALSE
