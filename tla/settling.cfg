SPECIFICATION FairSpec
CONSTANTS
    s1 = s1
    s2 = s2
    c1 = c1
    c2 = c2
    NoOwner = NoOwner
    RunCount = 1
    Supervisors = {s1}
    SupervisorId <- SharedId
    Foreground = {}
    Clients = {c1}
    ControlKinds = {"RunCancelled"}
    Isolated = TRUE
    Children = {}
    Prompt = {"ticks", "starts"}
    TTL = 2
    MaxClock = 3
    Budget <- SettleBudget
CHECK_DEADLOCK FALSE
INVARIANTS
    ProjectionIsFold
PROPERTIES
    AcceptedTurnsSettle
    CancelledRunsStop
