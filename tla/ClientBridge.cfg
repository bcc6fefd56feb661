SPECIFICATION MCSpec
CONSTANTS
    Calls = {"c1", "c2"}
    Providers = {"p1", "p2"}
    Tool = "tool"
    Static = "none"
    OwnToken = {"p1"}
    Managed = TRUE
    LogicOf <- Logics
    PolicyOf <- PolicyGiven
    Registered = TRUE
    Answers <- Responses
    MaxData <- DataBound
    MaxFaults = 1
    Requests = {1, 2, 3}
    Ips = {"a"}
    Ids = {1, 2}
    Messages <- AllMessages
    MaxSessionsPerIp = 1
    Timeout = 1
    Concurrency = 2
INVARIANTS
    OutcomesAreJustified
    SessionsAreAccounted
PROPERTIES
    FaultedIsEvicted
    EveryCallSettles
    EvictionIsJust
CHECK_DEADLOCK FALSE
