SPECIFICATION Spec
CONSTANTS
    c1 = c1
    c2 = c2
    Client <- TwoClients
    QueueDepth = 3
    Overlap = TRUE
    MaxOps = 1
    MaxFault = 0
CHECK_DEADLOCK FALSE
INVARIANT ReplicasAgree
