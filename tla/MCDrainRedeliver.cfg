SPECIFICATION Spec
CONSTANTS
    from = from
    onto = onto
    Leaf <- TwoFiles
    Path <- TwoFiles
    Seed <- SeedTwo
    Moves <- OneMove
    Lag = FALSE
    Linger = FALSE
    MaxOps = 2
    MaxFault = 1
CHECK_DEADLOCK FALSE
INVARIANT DrainDelivers
