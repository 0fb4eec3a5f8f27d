SPECIFICATION Spec
CONSTANTS
    Blob = {"o", "m", "n"}
    MaxObjects = 2
    Capture <- MCCapture
    Adapter <- MCAdapter
    Accepts <- MCAccepts
    Units <- MCUnits
    MaxUnits = 2
    Clerk = {"I"}
    Keeper = {"K"}
    Place = {"near", "far"}
    Home = "near"
    MaxUpsets = 1
INVARIANTS
    ReferencesResolve
    CapturesNeverConflict
PROPERTIES
    BackupsCover
    MovesKeepContent
CHECK_DEADLOCK FALSE
