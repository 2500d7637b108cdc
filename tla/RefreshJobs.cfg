CONSTANTS
    l1 = l1
    l2 = l2
    l3 = l3
    Lists <- MCLists
    MaxActive = 2
    MaxKept = 3
    MaxJobs = 4
    MaxFaults = 2
    MaxStops = 2
SPECIFICATION Spec
SYMMETRY ListSymmetry
INVARIANTS
    TypeOK
    NoJobStranded
    NoLostWakeup
    AcceptedNotLost
    SuccessIsDurable
    MemoryMatchesDisk
PROPERTIES
    FinishedRowStaysFinished
    ImplementsQueue
CHECK_DEADLOCK FALSE
