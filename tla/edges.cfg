SPECIFICATION EdgesSpec
CONSTANTS
    Parts = {"files", "collection", "cache", "checkpoint", "bridge", "calls", "edges", "session", "outbound"}
    Writers = {v, w}
    MaxAttempts = 2
    MaxEvents = 3
    MaxFaults = 1
    MaxTruncates = 1
    PageLimit = 1
    Nil = Nil
    Items = {1, 2}
    Keys = {1, 2}
    Setups <- MCSetups
    MaxCalls = 3
    MaxLogged = 6
    MaxFailures = 1
    MaxDeaths = 1
    Nothing = Nothing
    CacheKeys = {1}
    CacheValues = {1}
    Tiers = {1, 2}
    Versioned = {1}
    Policies <- MCPolicies
    MaxWaves = 2
    MaxWrites = 3
    Size = 3
    SeqMax = 3
    BridgeAttempts = 2
    BridgeDelay <- MCDelay
    BridgeTimes = {0}
    BridgeUses <- MCBridgeUses
    NoTime = NoTime
    NoPayload = NoPayload
    CallIds = {1}
    CallOps = {"a", "x"}
    HandledOps = {"a"}
    RejectUnknown = FALSE
    CallUses <- MCCallUses
    CallPushes <- MCPushes
    Edges = {"e", "f"}
    MaxVersion = 3
    TombstoneLimit = 3
    Strays <- MCStrays
    WsAttempts = 3
    WsDelays <- MCDelays
    WsBuffer = 1
    WsMessages = 2
    WsConnections = 2
    ObAttempts = 3
    ObDelays <- MCDelays
    ObTimers = {TRUE, FALSE}
    ObValues = 2
INVARIANTS
    AppendsKept
    FollowerComplete
    
    ScanExact
    CacheSound
    
    AcceptedInOrder
    CallsExact
    CohortsWhole
    SessionAccounted
    
CHECK_DEADLOCK FALSE
