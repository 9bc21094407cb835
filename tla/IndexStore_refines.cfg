SPECIFICATION Spec
CONSTANTS
    Builders = {b1}
    Readers = {}
    Vectors = {v1, v2}
    Models = {1}
    MaxSegmentRows = 2
    MaxSegments = 3
    MaxRows = 3
    U64Max = 7
    MaxSegmentIds = 3
    MaxManifests = 2
    MaxMishaps = 2
SYMMETRY Symmetry
INVARIANTS
    PublishesPushedRows
PROPERTIES
    ImplementsPromise
