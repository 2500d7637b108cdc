CONSTANTS
    r1 = r1
    r2 = r2
    q1 = q1
    Worker = worker
    Loader = loader
    NoCaller = nobody
    Requests <- MCOneRequest
    Queries = {}
    MaxEdits = 2
    MaxGone = 0
    MaxFaults = 1
SPECIFICATION Spec
PROPERTY FailedReloadKeepsMatcher
CHECK_DEADLOCK FALSE
