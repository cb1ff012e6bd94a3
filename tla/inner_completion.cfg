SPECIFICATION CoreSpec
CONSTANTS
    Parts = {"inners"}
    MaxNodes = 3
    MaxHandles = 2
    MaxPins = 1
    GenMod = 4
    MaxRegs = 4
    MaxDepth = 2
    Inners = {"a", "b", "c"}
    Cases <- ColdMerge
    MaxValues = 3
    MaxEmits = 1
    BoundaryGraphs = {"g", "h"}
    BoundaryNodes = {"n", "x", "m"}
    GraphOf <- MCGraphOf
    BoundaryRequests <- MCRequests
    MaxTasks = 3
    MaxBodies = 2
    MaxBatches = 1
    MaxToggles = 1
    TimedOps = {"throttle", "audit", "shared", "timeout", "buffer"}
    MaxInputs = 4
    MaxTicks = 3
    MaxInvocations = 4
    OpCases <- MCOpCases
    MaxMessages = 5
    TopologyBounds <- MCTopologyBounds
    DriverKinds <- MCDriverKinds
    MaxActivations = 3
    MaxCallbacks = 4
    MaxConsecutiveErrors = 2
INVARIANT
    EndsWithItsInners
CHECK_DEADLOCK FALSE
