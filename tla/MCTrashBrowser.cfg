SPECIFICATION Spec
CHECK_DEADLOCK FALSE
CONSTANTS
    b1 = b1
    b2 = b2
    e1 = e1
    Path = {"p", "q"}
    Thread = {b1, b2, e1}
    Manager = {"browser", "engine"}
    ManagerOf <- OneEach
    ExpiryDays = 1
    Stored <- OneStored
    MaxItem = 3
    MaxCall = 3
    MaxId = 2
    MaxDay = 2
    MaxFault = 1
    Token = {"k"}
    User = {"ann", "guest"}
    RoleOf <- TwoUsers
    Inner <- OneChild
    Buried = {"p/c"}
    MaxCount = 1
SYMMETRY Workers
INVARIANTS
    NothingDestroyed
    IndexExact
    RevokedStaysRevoked
    TombstonesSurvive
