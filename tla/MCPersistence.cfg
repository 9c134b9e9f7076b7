SPECIFICATION MCSpec
CONSTANTS
    t1 = t1
    t2 = t2
    Thread <- TwoThreads
    MaxChange = 3
    MaxFault = 2
    Touched <- Tree
    MaxSeq = 3
    CompactMin = 4
    MaxCrash = 1
    MaxFailed = 1
    MaxLines = 3
    Leaf <- TwoFiles
    Path <- ThreePaths
    Seed <- SeedTwo
    Moves <- OneMove
    Lag = TRUE
    Linger = TRUE
    MaxOps = 3
    MaxLost = 1
CHECK_DEADLOCK FALSE
INVARIANTS
    CleanMeansSaved
    ReplayReproduces
    CursorSurvives
    NoPathForgotten
    UnmovedDelivered
PROPERTIES
    StoreIsAtomic
    AckedWereApplied
    EventuallyDrained
