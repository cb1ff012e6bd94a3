SPECIFICATION Spec
CONSTANTS
    N = 4
    Deps <- GateDeps
    Config <- DiamondConfig
    FnActs <- GateActs
    Programs <- GatePrograms
INVARIANTS
    EveryDirtySettles
CHECK_DEADLOCK FALSE
