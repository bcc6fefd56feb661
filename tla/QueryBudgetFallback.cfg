SPECIFICATION Spec
CONSTANTS
    p1 = p1
    p2 = p2
    c1 = c1
    t1 = t1
    t2 = t2
    f1 = f1
    f2 = f2
    s1 = s1
    s2 = s2
    NoStore = NoStore
    NoOverride = NoOverride
    Free = Free
    Procs = {p1}
    Clients = {c1}
    Tools = {t1}
    Fields = {f1, f2}
    Stores = {s1}
    ConfigStore = s1
    PolicyStore <- NoPolicyStore
    Sensitivity <- OneToolClass
    Override <- NoOverrides
    ForbiddenLimit = 1
    SensitiveLimit = 2
    PublicLimit = 3
    MaxRetries = 2
    MaxOps = 4
    MaxCrashes = 1
    MaxFaults = 0
INVARIANT AdmittedWithinLimit
CHECK_DEADLOCK FALSE
