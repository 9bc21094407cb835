SPECIFICATION Spec
CONSTANTS
    Builders = {b1, b2}
    Readers = {r1}
    Vectors = {v1}
    Models = {1}
    MaxSegmentRows = 2
    MaxSegments = 3
    MaxRows = 4
    U64Max = 7
    MaxSegmentIds = 4
    MaxManifests = 3
    MaxMishaps = 2
SYMMETRY Symmetry
INVARIANTS
    Recoverable
    ReadersSeeCurrent
    ChainKept
    StartsClean
    AckedSurvives
PROPERTIES
    CommitFailsOnlyOnMishap
    PublishesSuccessor
