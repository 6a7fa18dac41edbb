SPECIFICATION FairSpec
CONSTANTS
    a = a
    b = b
    c = c
    d = d
    w = w
    Items <- FourItems
    Deps <- Dependencies
    Rank <- Ranks
    Conflicting <- Overlaps
    Pool <- Pools
    NoPool = "none"
    Admitted = 2
    PerPool = 1
    Workers = {w}
    Driver = "driver"
    TTL = 0
    MaxClock = 1
    MaxLeases = 1
    MaxErrors = 1
INVARIANTS
    TypeOK
    LogAgrees
    FencesCurrent
    DependentsWait
    ExecutingIsSound
    NothingLeftRunning
PROPERTIES
    TerminalStays
    DispatchReturns
