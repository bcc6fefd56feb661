SPECIFICATION Spec
CONSTANTS
    p1 = p1
    p2 = p2
    c1 = c1
    t1 = t1
    t2 = t2
    f1 = f1
    f2 = f2
    s1 = s1
    s2 = s2
    NoStore = NoStore
    NoOverride = NoOverride
    Free = Free
    Procs = {p1, p2}
    Clients = {c1}
    Tools = {t1, t2}
    Fields = {f1}
    Stores = {s1, s2}
    ConfigStore = s1
    PolicyStore <- SecondHasStore
    Sensitivity <- TwoToolsClass
    Override <- SecondOverrides
    ForbiddenLimit = 1
    SensitiveLimit = 2
    PublicLimit = 2
    MaxRetries = 2
    MaxOps = 3
    MaxCrashes = 1
    MaxFaults = 1
INVARIANTS
    GrantsAreCounted
    FallbackIsLimited
PROPERTIES
    BudgetIsAtomic
    OperationsReturn
CHECK_DEADLOCK FALSE
