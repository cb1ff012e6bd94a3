SPECIFICATION DeliverySpec
CONSTANTS
    Nil = Nil
    Default = Default
    In = "in"
    Out = "out"
    Sub = "s"
    Topics = {"in", "out"}
    Subs = {"s"}
    MaxRetained = 1
    MaxAge = Nil
    DuplicateIsIssue = FALSE
    Handler <- MCHandler
    CommandWindow = 1
    EventWindow = 1
    Payloads <- MCPayloads
    ProducerIds = {}
    ProducerKeys = {k}
    Ticks = {0}
    MaxPublishes = 2
    MaxAdmin = 2
    MaxPulls = 2
    MaxEffects = 1
INVARIANTS
    NoSilentLoss
    CursorsFresh
    PublishedOnce
    
    EventsExact
CHECK_DEADLOCK FALSE
