SPECIFICATION FairSpec
CONSTANTS
    Garden = {"a", "b"}
    Root = {"x", "y"}
    View = {"v"}
    Session = {"s"}
    Version = {"m1", "m2"}
    Place = {"near"}
    MaxGardens = 2
    MaxViews = 1
    MaxViewEpochs = 1
    Missing = Missing
    Unbound = Unbound
    NoView = NoView
    Absent = Absent
    Handwritten <- MCHandwritten
    FirstDisk <- MCFirstDisk
    MaxPlans = 2
    Clerk = {"p", "q"}
    Mover = {}
    MaxSnapshots = 2
    MaxEdits = 1
    MaxInterrupts = 1
    InterruptAt = {"published"}
    Overlap = FALSE
    QuietOwner = TRUE
INVARIANTS
    AlwaysUnregisterable
PROPERTIES
    RefinesLedger
    PlanSettles
CHECK_DEADLOCK FALSE
