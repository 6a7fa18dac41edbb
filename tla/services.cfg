SPECIFICATION ServicesSpec
CONSTANTS
    a1 = a1
    a2 = a2
    e1 = e1
    p1 = p1
    p2 = p2
    p3 = p3
    r1 = r1
    r2 = r2
    s1 = s1
    s2 = s2
    s3 = s3
    t1 = t1
    q1 = q1
    q2 = q2
    x1 = x1
    x2 = x2
    Missing = Missing
    Unlocked = Unlocked
    None = None
    User = User
    Intents = {i1}
    Commits = {c1}
    Foreign = {f1}
    Protected = TRUE
    Enqueuers <- TwoEnqueuers
    Executors <- TwoExecutors
    MaxApprovals = 2
    Mishaps = 1
    FilePaths <- ThreePaths
    PatchCalls <- TwoCalls
    Editors <- OneEditor
    Overriding <- Nobody
    Plan <- TwoProposals
    Leased <- AllPaths
    MaxAttempts = 2
    PatchFaults <- TwoFaultsOneCrash
    Versions = {1, 2}
    Defective = {}
    ApplyPaths <- TwoFiles
    Targets <- OneThenBoth
    SecretPaths = {"secret"}
    Destructive = {}
    Policy = "autopilot"
    ApplyCalls <- TwoApplyCalls
    PassesId <- OneApplyCall
    Troubles <- TroublesOfAnApply
    AgentPaths <- TwoPaths
    Texts = {1, 2}
    Permissions <- DefaultPermissions
    MaxSteps = 3
    MaxCalls = 2
    MaxOthers = 1
    MaxEvents = 4
    Polls = 2
    Breakages = 2
    SessionIds <- OneSession
    SessionStarts <- ThreeStarts
    WriteErrors = 2
    Imports = {"import1", "import2"}
    Approvers = {"approve1", "approve2"}
    Savers = {"save"}
    ImportFaults <- OneOfEach
    Proposers = {"propose1", "propose2"}
    Deciders = {"decide1", "decide2", "decide3"}
CHECK_DEADLOCK FALSE
SYMMETRY PushSymmetry
INVARIANTS
    ServicesTypeOK
    PartialWriteReported
    ReceiptTellsTruth
    ReceiptMeansLanded
    OutcomeListsApplied
    TimelineIsPrefix
    NoShellLost
    DesignAnswersStand
PROPERTIES
    AllOrNothing
    NoSilentOverwrite
    AppliedAsVerified
    PushedWithApproval
    EndIsSeen
