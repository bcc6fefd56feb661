SPECIFICATION MCSpec
CONSTANTS
    p1 = p1
    p2 = p2
    t1 = t1
    t2 = t2
    Procs = {p1, p2}
    Tokens = {t1, t2}
    Deployments <- OneEditor
    MaxClock = 5
    MaxCrashes = 1
    MaxFaults = 2
    MaxOps = 3
    MaxEntries = 6
    MaxRestarts = 3
    MaxFailedAppends = 2
    MaxCorruptions = 1
    TornWrites = TRUE
SYMMETRY TokenSymmetry
INVARIANTS
    ListIsHonoured
    ChainIsSound
CHECK_DEADLOCK FALSE
