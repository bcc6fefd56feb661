SPECIFICATION MCSpec
CONSTANTS
    p1 = p1
    p2 = p2
    Down = Down
    Peers = {p1, p2}
    Offers <- TwoOffers
    Scenarios <- Starts
    LocalTools <- Locals
    Alias <- Aliases
    ShortId <- ShortIds
    EndsIn <- Endings
    CallNames <- Called
    TokenFor = {}
    CacheTTL = 1
    BaseCooldown = 1
    MaxCooldown = 2
    DialBaseCooldown = 1
    DialMaxCooldown = 1
    FailureCap = 2
    MaxAttempts = 2
    ColdAttempts = 2
    ExpectedProviders = 2
    ListTimeout = 2
    RaceWait = 1
    StableChecks = 1
    Budgets <- Bounds
    RequestIds = {"r1"}
    Asks <- AllAsks
    Uris = {"u1"}
    LegacySupport = TRUE
    MaxMessages = 2
INVARIANTS
    ListsAreSound
    AnswersAreSound
PROPERTIES
    NoTokenlessCall
    DiscoveryRecovers
    DispatchAnswers
CHECK_DEADLOCK FALSE
