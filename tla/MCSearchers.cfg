CHECK_DEADLOCK FALSE
CONSTANTS
    NWorkers = 2
    Check = 2
    MaxBatches = 2
    MaxSignals = 1
    NThreads = 2
    Iters = 2
    MaxLaunches = 2
    NLanes = 2
    Report = 2
    MaxHashes = 4
    Count = 4
    Checks = 2
SPECIFICATION Spec
INVARIANTS
    TypeOK
    TotalIsTried
    OnlyRefusedLaunchesLeaveGaps
    MinerVerdictsHold
PROPERTY
    ImplementsSearch
    SolveReturns
