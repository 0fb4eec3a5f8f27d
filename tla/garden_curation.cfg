SPECIFICATION Spec
CONSTANTS
    Gardens <- MCGardens
    Bindings <- MCBindings
    Proposals <- MCProposals
    Curator = {P, Q}
    Caveat = {"later"}
    Gaps = {}
    MaxEdits = 2
SYMMETRY AnyCurator
INVARIANTS
    LineageBinds
    QualificationsKept
PROPERTIES
    AppliedFitsGarden
CHECK_DEADLOCK FALSE
