SPECIFICATION Spec
CONSTANTS
    U64Max = 100000000
    Ids = {"s1", "s2", "s3"}
    RowCounts = {33, 65536}
    MaxSegments = 3
    Descriptors = 67
    Edits <- MCEdits
    Magnitudes = {"negative"}
INVARIANTS
    FreshGenerationOpens
