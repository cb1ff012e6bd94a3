SPECIFICATION CheckpointSpec
CONSTANTS
    Size = 3
INVARIANTS
    RestoreRunsNothing
CHECK_DEADLOCK FALSE
