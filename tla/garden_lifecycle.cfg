SPECIFICATION Spec
CONSTANTS
    V0Gardens <- MCV0Gardens
    Operator = {"P", "Q"}
    NewVisibility = "private"
    Gaps = {}
    MaxUpsets = 1
INVARIANTS
    OriginalKept
    RelationsKept
PROPERTIES
    ReportsAreTrue
    RefusalsAreKnown
CHECK_DEADLOCK FALSE
