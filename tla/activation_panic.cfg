SPECIFICATION Spec
CONSTANTS
    N = 4
    Deps <- PanicDeps
    Config <- DiamondConfig
    FnActs <- PanicActs
    Programs <- FnPanicPrograms
INVARIANTS
    EdgesOwned
CHECK_DEADLOCK FALSE
