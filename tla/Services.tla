------------------------------- MODULE Services --------------------------------
(***************************************************************************)
(* The components around the turn supervisor, one beside the other.  They  *)
(* share no state, so a behaviour is one of one component, the others stay *)
(* as they begin: interleaving them would multiply the states and show     *)
(* nothing more.  The module extends PushOutbox and instantiates the       *)
(* others, so that runs and proofs speak of the same definitions.          *)
(***************************************************************************)
EXTENDS PushOutbox, Sequences

CONSTANTS
    \* Workspace: PatchTransaction and FileService
    FilePaths, PatchCalls, Editors, Overriding, Plan, Leased, MaxAttempts, PatchFaults,
    Missing, Unlocked,
    \* IntegrationApply
    Versions, ApplyPaths, Targets, Defective, SecretPaths, Destructive, Policy,
    ApplyCalls, PassesId, Troubles, User,
    \* AgentLoop
    AgentPaths, Texts, Permissions, MaxSteps, MaxCalls, MaxOthers,
    \* LiveSubscription
    MaxEvents, Polls, Breakages,
    \* TerminalSessions
    SessionIds, SessionStarts, WriteErrors,
    \* DesignImport and DesignRevision
    Imports, Approvers, Savers, ImportFaults, Proposers, Deciders

ASSUME WorkspaceAssumption ==
    /\ DOMAIN Plan = PatchCalls
    /\ \A a \in PatchCalls :
           /\ Plan[a] \in Seq([op : {"create", "modify", "delete", "rename"},
                             path : FilePaths, to : FilePaths])
           /\ Plan[a] # <<>>
    /\ PatchCalls \cap Editors = {} /\ Unlocked \notin PatchCalls
    /\ MaxAttempts \in Nat
    /\ \A edits \in SUBSET (PatchCalls \cup Editors) : edits # Missing

ASSUME SessionsAssumption ==
    /\ None \notin SessionStarts
    /\ None \notin {"Running", "Stopping", "Exited"}

ASSUME ApplyAssumption ==
    /\ None \notin {"integrated", "already", "failed", "awaiting_approval", "in_progress",
                    "error", "io_error"}
    /\ Targets \in [Versions -> SUBSET ApplyPaths]

ASSUME AgentAssumption == MaxSteps \in Nat /\ MaxCalls \in Nat /\ MaxOthers \in Nat

ASSUME LiveAssumption == Polls \in Nat /\ MaxEvents \in Nat /\ Breakages \in Nat

ASSUME DesignAssumption ==
    /\ IsFiniteSet(Proposers)
    /\ Missing \notin Imports \cup Savers

VARIABLES
    part,
    file, journal, mutex, call, faults, editor, disturbed, unseen,
    head, tree, patch, receipt, turn, lock, finalDiff, seal, approved, req,
    troubles, applied, moved,
    text, cancelled, loop, others, wrote,
    events, answer, client, savedCursor, timeline, breakages,
    sessions, status, shell, start, writeErrors,
    stage, payload, locked, package, approve, save, trouble, contested,
    record, propose, decide

W == INSTANCE Workspace WITH
         Paths <- FilePaths, Calls <- PatchCalls, Faults <- PatchFaults
I == INSTANCE IntegrationApply WITH Requests <- ApplyCalls, Paths <- ApplyPaths
A == INSTANCE AgentLoop WITH Paths <- AgentPaths
L == INSTANCE LiveSubscription
T == INSTANCE TerminalSessions WITH Ids <- SessionIds, Starts <- SessionStarts
D == INSTANCE DesignImport WITH Faults <- ImportFaults
R == INSTANCE DesignRevision

wVars == <<file, journal, mutex, call, faults, editor, disturbed, unseen>>
iVars == <<head, tree, patch, receipt, turn, lock, finalDiff, seal, approved, req, troubles, applied, moved>>
aVars == <<text, cancelled, loop, others, wrote>>
lVars == <<events, answer, client, savedCursor, timeline, breakages>>
tVars == <<sessions, status, shell, start, writeErrors>>
dVars == <<stage, payload, locked, package, approve, save, trouble, contested>>
rVars == <<record, propose, decide>>
allVars == <<part, vars, wVars, iVars, aVars, lVars, tVars, dVars, rVars>>

ServicesInit ==
    /\ part \in {"push", "workspace", "integration", "agent", "live", "terminal", "import", "revision"}
    /\ W!Init /\ (part # "workspace" => file = [p \in FilePaths |-> Missing])
    /\ A!Init /\ (part # "agent" => text = [p \in AgentPaths |-> CHOOSE t \in Texts : TRUE])
    /\ Init /\ I!Init /\ L!Init /\ T!Init /\ D!Init /\ R!Init

InPush ==
    /\ part = "push" /\ Next
    /\ UNCHANGED <<part, wVars, iVars, aVars, lVars, tVars, dVars, rVars>>
InWorkspace ==
    /\ part = "workspace" /\ W!Next
    /\ UNCHANGED <<part, vars, iVars, aVars, lVars, tVars, dVars, rVars>>
InIntegration ==
    /\ part = "integration" /\ I!Next
    /\ UNCHANGED <<part, vars, wVars, aVars, lVars, tVars, dVars, rVars>>
InAgent ==
    /\ part = "agent" /\ A!Next
    /\ UNCHANGED <<part, vars, wVars, iVars, lVars, tVars, dVars, rVars>>
InLive ==
    /\ part = "live" /\ L!Next
    /\ UNCHANGED <<part, vars, wVars, iVars, aVars, tVars, dVars, rVars>>
InTerminal ==
    /\ part = "terminal" /\ T!Next
    /\ UNCHANGED <<part, vars, wVars, iVars, aVars, lVars, dVars, rVars>>
InImport ==
    /\ part = "import" /\ D!Next
    /\ UNCHANGED <<part, vars, wVars, iVars, aVars, lVars, tVars, rVars>>
InRevision ==
    /\ part = "revision" /\ R!Next
    /\ UNCHANGED <<part, vars, wVars, iVars, aVars, lVars, tVars, dVars>>

ServicesNext ==
    \/ InPush \/ InWorkspace \/ InIntegration \/ InAgent
    \/ InLive \/ InTerminal \/ InImport \/ InRevision

ServicesSpec ==
    /\ ServicesInit /\ [][ServicesNext]_allVars
    /\ WF_allVars(InLive /\ L!Serve)
    /\ WF_allVars(InLive /\ L!Subscribe)
    /\ WF_allVars(InLive /\ L!Receive)

------------------------------------------------------------------------------
(* The properties of the components, each stated in its own module.        *)

ServicesTypeOK ==
    /\ TypeOK /\ W!TypeOK /\ I!TypeOK /\ A!TypeOK
    /\ L!TypeOK /\ T!TypeOK /\ D!TypeOK /\ R!TypeOK

AllOrNothing == W!AllOrNothing
PartialWriteReported == W!PartialWriteReported
NoSilentOverwrite == W!NoSilentOverwrite
ReceiptTellsTruth == I!ReceiptTellsTruth
AppliedAsVerified == I!AppliedAsVerified
OutcomeListsApplied == A!OutcomeListsApplied
TimelineIsPrefix == L!TimelineIsPrefix
EndIsSeen == L!EndIsSeen
NoShellLost == T!NoShellLost
DesignAnswersStand == D!PromotedStays /\ R!ProposalsStand
=============================================================================
