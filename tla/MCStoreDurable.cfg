SPECIFICATION Spec
CONSTANTS
    t1 = t1
    t2 = t2
    Thread <- TwoThreads
    MaxChange = 2
    MaxFault = 0
INVARIANT FlushedIsDurable
