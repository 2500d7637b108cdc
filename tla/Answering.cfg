CONSTANTS
    r1 = r1
    r2 = r2
    loader = loader
    aQuery = aQuery
    Names = {1, 2, 3, 4, 5, 6}
    Malformed = {6}
    PtrNames = {5}
    IPv4 = {7}
    IPv6 = {8}
    DefaultTTL = 1
    MaxTTL = 2
    maxCNAMEChain = 3
    Loader = loader
    Editors = {r1, r2}
    Inputs <- EditInputs
    MaxRows = 6
    MaxEdits = 3
    MaxReadFaults = 1
    ChainTables <- HostTables
    ClientQueries = {aQuery}
    MaxChanges = 3
    Zones = {"secure", "insecure", "bogus"}
    CacheEnabled = TRUE
    CacheSize = 2
    NoMsg = NoMsg
    Half = 64
    ClockSecond = 4
    AskedSeconds <- Seconds
    Ends = {0, 1, 2, 3, 4, 5, 6, 7, 8, 9}
    MaxClock = 14
    MaxStarts = 2
    None = None
SPECIFICATION AnsweringSpec
INVARIANTS
    CustomRecordsServed
    ChainsAnswer
    QueriesAnswered
    DNSSECKeptApart
    PauseLasts
CHECK_DEADLOCK FALSE
