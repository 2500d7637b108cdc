CONSTANTS
    l1 = l1
    l2 = l2
    r1 = r1
    refresher = refresher
    starter = starter
    nobody = nobody
    q1 = q1
    q2 = q2
    c1 = c1
    c2 = c2
    c3 = c3
    h1 = h1
    None = None
SPECIFICATION MCSpec
INVARIANT ShutdownOrdered
PROPERTIES
    RefreshesEnd
    EventsEnd
    AuditingGoesOn
    ShutdownEnds
CHECK_DEADLOCK FALSE
