SPECIFICATION Spec
CONSTANTS
    N = 16
    Deps <- WaveDeps
    Config <- WaveConfig
    FnActs <- WaveActs
    Programs <- WavePrograms
INVARIANTS
    PendingCounts
    ValuesConsistent
    BatchSafe
    ControlSafe
    EdgesOwned
PROPERTIES
    SinksServed
CHECK_DEADLOCK FALSE
