SPECIFICATION MCSpec
CONSTANTS
    Worker = {w1, w2}
    User = {"bob"}
    Group = {"admin", "ops"}
    Client = {"c"}
    Title = {"framework"}
    File <- MCFile
    MaxChange = 2
    MaxLogin = 1
    MaxClient = 1
    Publisher = {p1, p2}
    Topic <- MCTopic
    Subscription = {"log", "sse"}
    Logger = "log"
    pattern <- MCPattern
    depth <- MCDepth
    MaxMessage = 3
    MaxFiles = 2
    MaxSize = 1
    Cap = 2
    MaxClean = 1
    MaxFail = 1
SYMMETRY Sym
CHECK_DEADLOCK FALSE
INVARIANTS SessionsHaveUsers ConfigAgrees Accounted LogKeepsTail
