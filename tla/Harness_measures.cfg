SPECIFICATION PackageSpec
CONSTANTS
    RowCount = 3
    QueryCount = 2
    MaxScore = 2
    Truths <- MCTruths
    Encodings <- MCEncodings
    Ks = {0, 1, 2, 4}
    BudgetLists <- MCBudgets
    Near = 1
    Far = 2
    Seeds = {1, 2}
    RowScores <- MCRowScores
    Sources <- MCSources
    ChunkRows = 3
    RowLimit = 8
    Threads = 3
    Depth = 2
    CallerChunks <- MCCallerChunks
    CallerDepths = {0, 1, 3}
    MergeOrders <- MCMergeOrders
    MaxGeneration = 3
INVARIANTS
    BoundsSound
    SurvivorsBracketed
    ExactReference
CHECK_DEADLOCK FALSE
