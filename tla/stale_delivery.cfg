SPECIFICATION Spec
CONSTANTS
    N = 4
    Deps <- PanicDeps
    Config <- DiamondConfig
    FnActs <- Emits
    Programs <- StalePrograms
INVARIANTS
    InactiveIsEmpty
CHECK_DEADLOCK FALSE
