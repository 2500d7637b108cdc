CONSTANTS
    c1 = c1
    c2 = c2
    h1 = h1
    h2 = h2
    None = None
    Base = 2
    Actions = {"allow", "block"}
    LegacyTotals <- OldTotals
    LegacySettings <- OldSettings
    Default <- NewSettings
    Retentions = {0, 4}
    Levels = {0, 2}
    CleanupBatch = 1
    Start = 8
    MaxTime = 13
    MaxEvents = 2
    MaxSaves = 1
    MaxRestarts = 2
    MaxFaults = 1
    Viewers = {c1, c2}
    Changers = {h1, h2}
    TTL = 2
    MaxCacheTime = 3
    MaxChanges = 2
    MaxCacheFaults = 1
    Clients = {0, 1, 2}
    Names = {1, 2}
    Limits = {1, 5}
    maxQueriesLimit = 2
    Retention = 4
    TopLimit = 1
    BucketCount = 2
    BucketInterval = 4
    LogStart = 12
    MaxLogTime = 16
    MaxLogEvents = 3
    PagedKinds <- PlainKinds
    MaxSumTime = 14
SPECIFICATION DatabaseSpec
SYMMETRY Symmetry
INVARIANTS
    StoreKeepsCount
    SummaryIsFresh
    QueriesAreExact
PROPERTY CleanupKeepsYoung
CHECK_DEADLOCK FALSE
