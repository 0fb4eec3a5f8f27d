SPECIFICATION Spec
CONSTANTS
    Garden = {"a", "b"}
    Root = {"x", "y"}
    View = {"v"}
    Session = {"s"}
    Version = {"m1"}
    Place = {"near", "far"}
    MaxGardens = 2
    MaxViews = 1
    MaxViewEpochs = 1
    Missing = Missing
    Unbound = Unbound
    NoView = NoView
    Absent = Absent
    Handwritten <- MCHandwritten
    FirstDisk <- MCFirstDisk
    MaxPlans = 4
    Clerk = {"p"}
    Mover = {"m"}
    MaxSnapshots = 3
    MaxEdits = 1
    MaxInterrupts = 1
    InterruptAt = {"marking"}
    Overlap = FALSE
    QuietOwner = TRUE
INVARIANTS
    SnapshotsRestorable
PROPERTIES
    NoRevival
    NothingOverwrittenUnkept
    RevocationsKept
CHECK_DEADLOCK FALSE
