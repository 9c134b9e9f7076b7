SPECIFICATION MCSpec
CONSTANTS
    Todo <- OneWay
    SendDepth = 2
    RecvDepth = 1
    Cap = 1
    MaxPing = 1
    MaxFault = 1
    Admin = {"a", "b"}
    Worker = {1, 2}
    Subscriber = {1}
    MaxStart = 2
    MaxEdit = 1
CHECK_DEADLOCK FALSE
INVARIANTS FramesIntact StatusIsTrue
PROPERTIES TornDown DataArrives SupersededThreadsEnd
