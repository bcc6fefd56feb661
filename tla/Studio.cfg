CONSTANTS
    r1 = r1
    r2 = r2
    Requests = {r1, r2}
    Ops <- MCOps
    Kinds <- MCKinds
    MaxKids = 2
    Executions = {e1, e2}
    Vias = {"mesh"}
    HistoryCap = 1
SPECIFICATION MCSpec
INVARIANTS
    SwitchIsClean
    PageFollowsItsRun
PROPERTY
    EverythingEnds
CHECK_DEADLOCK FALSE
