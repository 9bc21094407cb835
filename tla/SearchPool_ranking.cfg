SPECIFICATION Spec
CONSTANTS
    Callers = {c1}
    Workers = {w1, w2}
    RowCounts <- TwoSegments
    TileRows = 2
    Units <- Magnitudes
    Queries <- Searches
    MinBudget = 3
    UsizeMax = 7
    MaxCalls = 1
    MaxPanics = 0
INVARIANTS
    ExactAnswer
    BudgetFilled
