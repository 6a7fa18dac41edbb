SPECIFICATION Spec
CHECK_DEADLOCK FALSE
CONSTANTS
    t1 = t1
    t2 = t2
    t3 = t3
    x1 = x1
    startup = startup
    TurnStarts <- ThreeTurnStarts
    ExplicitTicks <- NoTicks
    Startup = startup
    HasStore = FALSE
    Backlog = 0
    MaxPending = 3
    MaxDrainTicks = 4
SYMMETRY TurnSymmetry
INVARIANT NoTurnStranded
