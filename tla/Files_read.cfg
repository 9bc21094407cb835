SPECIFICATION FilesSpec
CONSTANTS
    U64Max = 500000000
    RowCounts = {1024, 1025}
    Originals <- Written
    Rewrites <- MCRewrites
    MaxRewrites = 2
    ExpectedIdentity = "held"
    Probes = {0, 1, 32, 1023, 1024, 1025}
    MaxSegmentRows = 2
    MaxSegments = 2
    MaxRows = 3
    MaxRow64 = 5
    MaxPayload = 11
    DamageValues = {0, 1, 2, 3}
    MaxDamage = 2
    EntryIds = {1, 2}
    EntryFirsts <- MCEntryFirsts
    EntryCounts <- MCEntryCounts
    Totals <- MCTotals
    Generations = {1, 2}
INVARIANTS
    OpenedWellFormed
    RefusalsJustified
    WrittenOpens
    ReadsInside
    AcceptsPartitions
    ReadsExactlyTheFile
