SPECIFICATION Spec
CONSTANTS
    N = 2
    Proc = {"R", "C", "D"}
    Route = {"r1"}
    Change = {"c1", "c2"}
    Edit = {}
    Kind <- MCKind
    PlanOf <- MCPlanOf
    Targets <- MCTargets
    Base <- MCBase
    MaxLive = 3
    MaxCrashes = 0
    MaxFaults = 0
    MaxRebinds = 0
    LiveEdits = FALSE
INVARIANTS
    SingleWriter
CHECK_DEADLOCK FALSE
