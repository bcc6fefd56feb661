SPECIFICATION MCSpec
CONSTANTS
    CallTools = {"query", "echo"}
    PayloadTools = {"query"}
    Window = 2
    MaxPerTool = 1
    MaxGlobal = 2
    Threshold = 1
    Cooldown = 3
    Straddle = 1
    MaxCalls = 4
    MaxClock = 5
    Values <- AllParts
    KMin = 2
    SmallKeys = 1
    Jobs = {"c1", "c2"}
    Policies <- AllPolicies
    Menus <- AllMenus
    Sizes = {1, 3}
    Threads = 1
    MaxQueue = 1
INVARIANTS
    WindowsSlide
    HintIsHonoured
    ReleasedIsAggregated
PROPERTIES
    CallsAreAnswered
CHECK_DEADLOCK FALSE
