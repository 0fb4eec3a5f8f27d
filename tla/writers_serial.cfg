SPECIFICATION FairSpec
CONSTANTS
    N = 2
    Proc = {"R","T","C","V","W"}
    Route = {"r1", "r2"}
    Change = {"c1"}
    Edit = {"e1"}
    Kind <- MCKind
    PlanOf <- MCPlanOf
    Targets <- MCTargets
    Base <- MCBase
    MaxLive = 1
    MaxCrashes = 2
    MaxFaults = 1
    MaxRebinds = 0
    LiveEdits = FALSE
INVARIANTS
    OriginalsSurvive
    UnfinishedIsRecoverable
    BlobsBeforeRecords
PROPERTIES
    Settles
CHECK_DEADLOCK FALSE
