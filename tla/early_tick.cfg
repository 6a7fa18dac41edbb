SPECIFICATION Spec
CONSTANTS
    s1 = s1
    s2 = s2
    c1 = c1
    c2 = c2
    NoOwner = NoOwner
    RunCount = 1
    Supervisors = {s1, s2}
    SupervisorId <- SharedId
    Foreground = {}
    Clients = {}
    ControlKinds = {}
    Isolated = FALSE
    Children = {}
    Prompt = {"ticks"}
    TTL = 2
    MaxClock = 1
    Budget <- NoBudget
CHECK_DEADLOCK FALSE
SYMMETRY SupervisorSymmetry
INVARIANTS
    RebuildEqualsLive
