SPECIFICATION FairSpec
CHECK_DEADLOCK FALSE
CONSTANTS
    t1 = t1
    t2 = t2
    t3 = t3
    x1 = x1
    startup = startup
    TurnStarts <- TwoTurnStarts
    ExplicitTicks <- OneExplicitTick
    Startup = startup
    HasStore = TRUE
    Backlog = 1
    MaxPending = 2
    MaxDrainTicks = 2
INVARIANTS
    TypeOK
    OneDrainer
    RequestHasTaker
    AdmissionBounded
    PairNeverStrands
PROPERTY ComesToRest
