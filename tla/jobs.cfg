SPECIFICATION JobsSpec
CONSTANTS
    Scenarios = {"readiness", "recipe"}
    Default = Default
    Handler <- MCHandler
    Behaviours = {"emits", "throws"}
    CommandWindow = 0
    EventWindow = 0
    Works = {1, 2}
    Workers = {a}
    None = None
    Keys = {}
    MaxCommands = 3
    MaxMessages = 2
    Times = {0, 1}
    TimeMax = 1
    Durations = {1}
    Requests = {{}}
    Submits <- MCSubmits
    Schedules <- MCSchedules
    MaxAttempts = 2
    Backoff <- MCBackoff
INVARIANTS
    LeasesEndOnce
    PagesComplete
    CandidatesExact
    
PROPERTY
    LeasesReclaimed
CHECK_DEADLOCK FALSE
