CONSTANTS
    r1 = r1
    r2 = r2
    q1 = q1
    Worker = worker
    Loader = loader
    NoCaller = nobody
    Queries <- MCQueries
    Requests <- MCRequests
    MaxEdits = 3
    MaxGone = 1
    MaxFaults = 1
SPECIFICATION Spec
SYMMETRY RequestSymmetry
INVARIANTS
    SuccessIsActive
    QueryIsCurrent
    QuietRuntimeIsCurrent
PROPERTY NeverBackwards
CHECK_DEADLOCK FALSE
