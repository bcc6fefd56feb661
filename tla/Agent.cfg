SPECIFICATION MCSpec
CONSTANTS
    Requests = {1, 2}
    Tools = {"records", "market"}
    Status = "LiopMeshStatus"
    Alias <- Aliases
    MeshTools = {"market"}
    Settings <- Environments
    Locals <- Urls
    FailureCap = 2
    MaxChanges = 1
    Callers = {"c1", "c2"}
    HasCredentials = TRUE
    Life = 3
    Buffer = 1
    Latency = 1
    MaxTokens = 3
    MaxRotations = 1
    MaxClock = 5
INVARIANTS
    TokensAreFresh
    ListedIsCallable
PROPERTIES
    EveryCallerReturns
    EveryRequestAnswered
CHECK_DEADLOCK FALSE
