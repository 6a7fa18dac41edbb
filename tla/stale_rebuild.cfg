SPECIFICATION Spec
CONSTANTS
    s1 = s1
    s2 = s2
    c1 = c1
    c2 = c2
    NoOwner = NoOwner
    RunCount = 1
    Supervisors = {s1, s2}
    SupervisorId <- SharedId
    Foreground = {}
    Clients = {c1}
    ControlKinds = {}
    Isolated = FALSE
    Children = {}
    Prompt = {"ticks", "starts"}
    TTL = 1
    MaxClock = 1
    Budget <- SubscribeBudget
CHECK_DEADLOCK FALSE
SYMMETRY SupervisorSymmetry
PROPERTIES
    TerminalSticky
