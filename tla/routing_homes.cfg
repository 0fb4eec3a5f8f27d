SPECIFICATION Spec
CONSTANTS
    Manifest <- MCManifest
    Gardens <- MCGardens
    Bindings <- MCBindings
    Requests <- MCRequests
    Catalogs <- MCCatalogs
    Transitions <- MCTransitions
    Router = {R, S}
    Gaps = {}
    MaxRebinds = 1
SYMMETRY AnyRouter
INVARIANTS
    OneHome
    PublicNamesPublic
CHECK_DEADLOCK FALSE
