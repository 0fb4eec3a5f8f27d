SPECIFICATION Spec
CONSTANTS
    Page = {"index", "note"}
    Revision = {"r1", "r2"}
    MaxUpsets = 2
    MaxEdits = 3
INVARIANTS
    ManifestMeansComplete
PROPERTIES
    CallersFilesKept
    ReceiptNamesComplete
CHECK_DEADLOCK FALSE
