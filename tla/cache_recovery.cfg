SPECIFICATION FairSpec
CONSTANTS
    Writer = {"v", "w"}
    Name = {"index", "pack"}
    Text = {"new"}
    Quarantine = {"q1", "q2"}
    Restore = {"r1"}
    MaxWrites = 2
    MaxUpsets = 1
INVARIANTS
    QuarantineHoldsReviewed
PROPERTIES
    RestoreStands
    RepeatReconciles
CHECK_DEADLOCK FALSE
