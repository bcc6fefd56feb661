SPECIFICATION MCSpec
CONSTANTS
    Peers = {1, 2}
    Tools = {"query"}
    Manifest = "liop:manifest"
    Listen <- Addresses
    Mapped = TRUE
    MaxRuns = 2
    MaxFaults = 1
    Calls = {1, 2}
    AgentOf <- AgentsOf
    Modules <- Injected
    Tokens = {"s", "t"}
    MaxRequests = 1
    Window = 1
    Ttl = 2
    Capacity = 1
INVARIANTS
    SessionsAreLimited
    FirstVerdictIsTrue
PROPERTIES
    RestartsAreSafe
    ConnectedPeersLearn
    EveryRunEnds
CHECK_DEADLOCK FALSE
