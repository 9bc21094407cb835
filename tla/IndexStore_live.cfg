SPECIFICATION FairSpec
CONSTANTS
    Builders = {b1, b2}
    Readers = {}
    Vectors = {v1}
    Models = {1}
    MaxSegmentRows = 1
    MaxSegments = 2
    MaxRows = 2
    U64Max = 7
    MaxSegmentIds = 3
    MaxManifests = 2
    MaxMishaps = 1
PROPERTIES
    CallsReturn
