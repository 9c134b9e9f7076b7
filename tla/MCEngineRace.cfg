SPECIFICATION Spec
CONSTANTS
    t1 = t1
    t2 = t2
    Thread <- TwoThreads
    MaxStamp = 2
    MaxOps = 2
    DiskFails = FALSE
CHECK_DEADLOCK FALSE
INVARIANT NewestActionWins
