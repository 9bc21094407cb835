SPECIFICATION FairSpec
CONSTANTS
    Callers = {c1, c2}
    Workers = {w1, w2}
    RowCounts <- TwoSegments
    TileRows = 1
    Units <- Magnitudes
    Queries <- Searches
    MinBudget = 2
    UsizeMax = 3
    MaxCalls = 2
    MaxPanics = 2
INVARIANTS
    CorruptForCause
    NoWorkAfterAnswer
PROPERTIES
    Answers
    DropJoins
