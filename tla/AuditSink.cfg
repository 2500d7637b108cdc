CONSTANTS
    r1 = r1
    r2 = r2
    Recorders <- MCRecorders
    QueueSize = 3
    BatchSize = 2
    MaxRecords = 7
    MaxFaults = 2
SPECIFICATION Spec
SYMMETRY RecorderSymmetry
INVARIANTS
    EveryEventAccounted
    CloseMeansWritten
    DrainedBeforeStop
CHECK_DEADLOCK FALSE
