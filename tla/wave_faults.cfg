SPECIFICATION Spec
CONSTANTS
    N = 16
    Deps <- FaultDeps
    Config <- FaultConfig
    FnActs <- FaultActs
    Programs <- FaultPrograms
INVARIANTS
    Recovers
PROPERTIES
    TerminalForever
    CallsReturn
CHECK_DEADLOCK FALSE
