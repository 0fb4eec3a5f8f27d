SPECIFICATION Spec
CONSTANTS
    N = 2
    Proc = {"R", "C"}
    Route = {"r1"}
    Change = {"c1"}
    Edit = {}
    Kind <- MCKind
    PlanOf <- MCPlanOf
    Targets <- MCTargets
    Base <- MCBase
    MaxLive = 2
    MaxCrashes = 1
    MaxFaults = 1
    MaxRebinds = 1
    LiveEdits = FALSE
INVARIANTS
    SingleWriter
    AppliedIsDurable
    NothingLeftBehind
PROPERTIES
    AbstractSpec
CHECK_DEADLOCK FALSE
