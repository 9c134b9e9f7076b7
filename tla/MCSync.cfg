SPECIFICATION MCSpec
CONSTANTS
    Client = {c1, c2}
    QueueDepth = 3
    MaxOps = 3
    MaxFault = 1
    Slot = {1, 2}
    Depth = 1
    MaxWire = 1
    MaxEpoch = 1
CONSTRAINT Tracked
CHECK_DEADLOCK FALSE
INVARIANTS InStep ListedWhileLive ReplicasAgree LastDeleteWins
PROPERTIES Reconnects EventuallyAgree
