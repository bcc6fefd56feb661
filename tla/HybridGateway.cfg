SPECIFICATION Spec
CONSTANTS
    r1 = r1
    r2 = r2
    k1 = k1
    Requests = {r1, r2}
    Keys = {k1}
    KeyOf <- SameClient
    Configs <- Guarded
    Window = 2
    MaxRequests = 2
    Second = 2
    MaxClock = 2
INVARIANTS
    NothingSlipsThrough
    DrainIsPatient
PROPERTIES
    LimiterKeepsItsWord
    DeadlinesAreKept
CHECK_DEADLOCK FALSE
