SPECIFICATION Spec
CONSTANTS
    Dimension = 2
    Subquantizers = 1
    I32Max = 7
    I64Max = 31
    LimitError = 1
    Products <- MCProducts
    Segments <- MCSegments
    RowCounts = {3, 32, 33}
INVARIANTS
    ScoresExact
    RefinedExact
    AdditionsFit
    NeverPanics
