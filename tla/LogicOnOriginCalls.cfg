SPECIFICATION Spec
CONSTANTS
    t1 = t1
    t2 = t2
    c1 = c1
    c2 = c2
    i1 = i1
    i2 = i2
    NoToken = NoToken
    Tokens = {t1, t2}
    Intents = {i1, i2}
    Calls = {c1, c2}
    Presents <- OwnTokens
    Requests <- TwoCallers
    LogicOf <- OneOfEach
    AuthModes = {"jwt", "static"}
    StaticToken = t1
    ZkMode = "required"
    ProverInstalled = TRUE
    MaxThreads = 1
    MaxQueue = 0
    TTL = 0
    MaxClock = 1
    MaxAuditFaults = 1
INVARIANTS
    ReleasedIsRecorded
    BlockingHasProof
PROPERTIES
    OnlyEntitledLogicRuns
    EveryCallAnswered
CHECK_DEADLOCK FALSE
