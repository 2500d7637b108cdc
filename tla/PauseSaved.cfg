CONSTANTS
    r1 = r1
    r2 = r2
    q1 = q1
    d1 = d1
    d2 = d2
    n1 = n1
    n2 = n2
    DnsSettings <- MCDns
    Responses <- MCResponses
    DefaultDns = d1
    DefaultResponse = n1
    Second = 2
    Requests <- MCRequests
    Readers <- MCOneReader
    Durations <- MCDurations
    MaxTime = 4
    MaxFaults = 0
    MaxRestarts = 0
    MaxDisturbed = 3
SPECIFICATION Spec
INVARIANT AcknowledgedPauseIsSaved
CHECK_DEADLOCK FALSE
