SPECIFICATION Spec
CONSTANTS
    t1 = t1
    t2 = t2
    c1 = c1
    c2 = c2
    i1 = i1
    i2 = i2
    NoToken = NoToken
    Tokens = {t1, t2}
    Intents = {i1}
    Calls = {c1}
    Presents <- AnyToken
    Requests <- AnyRequest
    LogicOf <- OneOfEach
    AuthModes = {"jwt"}
    StaticToken = t1
    ZkMode = "required"
    ProverInstalled = FALSE
    MaxThreads = 1
    MaxQueue = 0
    TTL = 1
    MaxClock = 0
    MaxAuditFaults = 0
INVARIANT RequiredIsEnforced
CHECK_DEADLOCK FALSE
