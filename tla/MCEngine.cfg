SPECIFICATION MCSpec
CONSTANTS
    Thread <- OneThread
    MaxStamp = 3
    MaxOps = 4
    DiskFails = TRUE
    LargeThread <- TwoThreads
    LargeStamp = 2
    TotalChunks = 2
    MaxBegin = 3
    Name = {"d", "e"}
    MaxInode = 3
    LocalFile = {"a", "b"}
    Seeded = {"a"}
    MaxOp = 3
    MaxMiss = 1
    MaxScan = 2
CHECK_DEADLOCK FALSE
INVARIANTS
    NewestActionWins
    ManifestMatchesDisk
    CommittedIsWhole
    ReportedIsSettled
    NeverResurrected
    WatchesAreTrue
    MirrorFollows
PROPERTY NothingStaysSuppressed
