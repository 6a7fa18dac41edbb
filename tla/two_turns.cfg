SPECIFICATION Spec
CONSTANTS
    s1 = s1
    s2 = s2
    c1 = c1
    c2 = c2
    NoOwner = NoOwner
    RunCount = 2
    Supervisors = {s1, s2}
    SupervisorId <- SharedId
    Foreground = {s1}
    Clients = {}
    ControlKinds = {}
    Isolated = FALSE
    Children = {"role"}
    Prompt = {"ticks", "starts"}
    TTL = 2
    MaxClock = 3
    Budget <- StartBudget
CHECK_DEADLOCK FALSE
INVARIANTS
    OneSupervisorPerTurn
    SettledMessageAgrees
PROPERTIES
    TerminalSticky
