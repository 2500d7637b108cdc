CONSTANTS
    r1 = r1
    r2 = r2
    q1 = q1
    d1 = d1
    d2 = d2
    n1 = n1
    n2 = n2
    DnsSettings <- MCDns
    Responses <- MCResponses
    DefaultDns = d1
    DefaultResponse = n1
    Second = 2
    Requests <- MCRequests
    Readers <- MCOneReader
    Durations = {1}
    MaxTime = 3
    MaxFaults = 1
    MaxRestarts = 1
    MaxDisturbed = 2
SPECIFICATION Spec
SYMMETRY Symmetry
INVARIANTS
    QuietRuntimeMatchesConfig
    AcknowledgedIsSaved
CHECK_DEADLOCK FALSE
