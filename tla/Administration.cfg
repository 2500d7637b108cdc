CONSTANTS
    t1 = t1
    t2 = t2
    s1 = s1
    s2 = s2
    k1 = k1
    k2 = k2
    h1 = h1
    h2 = h2
    h3 = h3
    p1 = p1
    p2 = p2
    Down = Down
    NoTime = NoTime
    None = None
    MaxCacheSuccessTTL = 3
    MaxCacheDenialTTL = 2
    DefaultCacheDenialTTL = 1
    DefaultCapacity = 2
    MinCacheCapacity = 1
    DefaultReadConnections = 1
    Texts = {"1.1.1.1", "tls://9.9.9.9", "lan", "ads.example", "(", "30", "https://9.9.9.9/path"}
    Regexes = {"1.1.1.1", "tls://9.9.9.9", "lan", "ads.example", "30"}
    Schemed = {"tls://9.9.9.9", "https://9.9.9.9/path"}
    RRTypes = {"A", "AAAA"}
    RCodes = {"SERVFAIL", "NOERROR"}
    TTLRanges = {"30"}
    ConfigFiles <- FileSet
    OldRows <- RowSet
    Unusable = {"nowhere", "https://9.9.9.9/path"}
    Updates <- UpdateSet
    MaxUpdates = 2
    MaxReloadFaults = 1
    Passwords = {"p", "q"}
    Keys = {k1, k2}
    Handlers = {h1, h2, h3}
    MaxStarts = 5
    MaxAccountFaults = 1
    Processes = {p1, p2}
    DefaultRetention = 48
    MaxOld = 1
    MaxEvents = 3
    MaxCrashes = 3
    Tokens = {t1, t2}
    Requests = {s1, s2}
    Legacy = {t1}
    TTL = 2
    InstalledAt = 3
    Base = 2
    MaxTime = 5
    MaxRestarts = 2
    MaxFaults = 1
SPECIFICATION AdministrationSpec
INVARIANTS
    AcceptedStarts
    ProcessFollowsConfig
    SessionsHold
    AccountsHold
    UpgradesKeepData
CHECK_DEADLOCK FALSE
