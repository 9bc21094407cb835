SPECIFICATION DriftSpec
CONSTANTS
    NegZero = NegZero
    Centroids = 3
    Centers = 2
    LloydIterations = 6
    ValidationRows = {0, 1, 2, 3}
    TrainingRows <- MCTrainingRows
    HashOrders <- MCHashOrders
    ResidualSets <- MCResidualSets
    PushedSegments <- MCPushedSegments
    MostRows = 4
    Priorities <- MCPriorities
    Capacity = 2
    SufficientSample = 3
INVARIANTS
    SeedsDistinct
    StopsAtFixpoint
    TrainedModelRestores
    ReportsWholeCommit
PROPERTIES
    ErrorNeverGrows
CHECK_DEADLOCK FALSE
