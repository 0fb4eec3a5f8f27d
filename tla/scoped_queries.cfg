SPECIFICATION Spec
CONSTANTS
    Gardens = 2
    World <- MCWorld
    Records <- MCRecords
    Session <- MCSession
    Operation = {"index", "search", "unreviewed", "graph", "backlinks",
                 "outbound", "context", "llms", "evidence"}
    Target <- MCTarget
    Checks = 2
INVARIANTS
    AnswersAreAuthorized
    AnswersAreComplete
    AnswersStand
    DeniedLeaveNoTrace
    ScopesDominate
    PacksFit
CHECK_DEADLOCK FALSE
