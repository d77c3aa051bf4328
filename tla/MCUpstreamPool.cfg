SPECIFICATION Spec
CONSTANTS
    a1 = a1
    a2 = a2
    q1 = q1
    q2 = q2
    q3 = q3
    Queries = {q1, q2, q3}
    Addresses = {a1, a2}
    Traffic <- MCTraffic
    MaxConns = 3
    NumIds = 2
    ClosedRetries = 1
    Timeout = 2
    Budget = 3
    MaxTime = 5
CHECK_DEADLOCK FALSE
INVARIANTS
    TypeOK
    WaitingIsWatched
    IdsAreOwn
    OneConnectionPerAddress
    DowngradeIsResent
PROPERTIES
    ImplementsResolution
