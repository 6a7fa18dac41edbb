--------------------------- MODULE TurnSupervisor ----------------------------
(***************************************************************************)
(* The durable execution of accepted conversation turns: the lease columns *)
(* of runs and the read models of crates/opensks-conversation, the event   *)
(* journal of crates/opensks-event-store, and the daemon's threads over    *)
(* them - turn start, the turn supervisor ticks with their heartbeat, run  *)
(* control and event subscriptions.                                        *)
(*                                                                         *)
(* Every action is one SQLite transaction, or one read that a later step   *)
(* acts upon.  The conversation database and the event journal are two     *)
(* databases: no transaction spans them.                                   *)
(***************************************************************************)
EXTENDS RunProjection, FiniteSets

CONSTANTS
    RunCount,       \* turns the user may start, in this order; each has one run
    Supervisors,    \* threads that execute supervisor ticks
    SupervisorId,   \* the supervisor_id string each of them passes
    NoOwner,        \* SQL NULL in runs.lease_owner
    Foreground,     \* supervisors whose tick names a target run
    Clients,        \* run control requests and event subscriptions in flight
    ControlKinds,   \* the control requests the clients send
    Isolated,       \* turns execute in a worktree and leave a candidate
    Children,       \* kinds of work items the turn's plan has beside its root
    Prompt,         \* which threads are known to be quick: ticks, starts
    TTL,            \* lease_ttl_ms
    MaxClock,       \* bound on timestamp_ms
    Budget          \* bound on crashes, errors and client requests

NoExpiry == -1      \* SQL NULL in runs.lease_expires_at_ms

BudgetKinds == {"crash", "startError", "error", "failureError",
                "control", "subscribe"}

ASSUME TurnSupervisorAssumption ==
    /\ RunCount \in Nat \ {0}
    /\ TTL \in Nat \ {0}            \* lease_ttl_ms.max(1)
    /\ MaxClock \in Nat
    /\ NoOwner \notin {SupervisorId[s] : s \in Supervisors}
    /\ DOMAIN SupervisorId = Supervisors
    /\ Foreground \subseteq Supervisors
    /\ ControlKinds \subseteq {"RunPaused", "RunResumed", "RunCancelled"}
    /\ Isolated \in BOOLEAN
    /\ Children \subseteq {"role", "objective"}
    /\ Prompt \subseteq {"ticks", "starts"}
    /\ Budget \in [BudgetKinds -> Nat]

Runs == 1..RunCount
Owners == {SupervisorId[s] : s \in Supervisors} \cup {NoOwner}

(* An event is its kind and its id: what the id names and the number that  *)
(* makes it unique (0 where the code derives it from the run alone).       *)
Tags == {"queued", "leased", "started", "root-failed", "child-failed",
         "completed", "failed", "start-failed", "supervisor-failed", "control"}
Events == [kind : EventKinds, tag : Tags, n : Nat]
Event(kind, tag, n) == [kind |-> kind, tag |-> tag, n |-> n]

VARIABLES
    clock,          \* timestamp_ms
    \* the conversation database
    lease,          \* runs: lease_owner, lease_expires_at_ms, fencing_token
    proj,           \* run_projections: state, last_sequence
    cursor,         \* stream_cursors: last_sequence, terminal_kind
    message,        \* state of the assistant message of the run
    conversation,   \* conversations.status
    \* the event database and the files of the workspace
    journal,        \* events of each run, in sequence order
    candidate,      \* runs with an integration candidate receipt
    \* the threads
    starter,        \* progress of the turn start request of each run
    pc,             \* progress of each supervisor's tick
    held,           \* TurnSupervisorLease of the tick: run and fencing_token
    now,            \* the now_ms a tick read and still uses
    seen,           \* length of the journal a tick has replayed
    outcome,        \* final_state of the execution
    beating,        \* the heartbeat thread of the tick is alive
    until,          \* the expiry the tick last obtained for its lease
    request,        \* progress of each client request
    budget

leaseVars == <<lease>>
readModel == <<proj, cursor, conversation>>
storeVars == <<journal, candidate>>
tickVars  == <<pc, held, now, seen, outcome, beating, until>>
vars == <<clock, lease, proj, cursor, message, conversation, journal, candidate,
          starter, pc, held, now, seen, outcome, beating, until, request, budget>>

------------------------------------------------------------------------------
(* The event journal: append_event, event_id_already_recorded, replay      *)

Recorded(r, e) ==
    \E i \in 1..Len(journal[r]) : journal[r][i].tag = e.tag /\ journal[r][i].n = e.n

(* INSERT under BEGIN IMMEDIATE: sequence MAX + 1, the id is PRIMARY KEY.  *)
AppendEvent(r, e) ==
    /\ ~Recorded(r, e)
    /\ journal' = [journal EXCEPT ![r] = Append(@, e)]
    /\ UNCHANGED candidate

(* observe_run_cancellation *)
CancellationObserved(r) ==
    \E i \in 1..Len(journal[r]) : journal[r][i].kind = "RunCancelled"

------------------------------------------------------------------------------
(* The conversation read model                                             *)

StatusOf(state) == IF state = "completed" THEN "completed" ELSE "failed"

(* refresh_conversation_status_from_run_projections: running while a run   *)
(* is active, else what became of the latest run.                          *)
ConversationStatus(p) ==
    LET accepted == {r \in Runs : p[r].state # "absent"}
    IN  IF \E r \in Runs : p[r].state \in ActiveStates THEN "running"
        ELSE IF accepted = {} THEN "idle"
        ELSE StatusOf(p[Latest(accepted)].state)

(* A refresh that runs before the projection it should see is written.     *)
RefreshedTooEarly == conversation' = ConversationStatus(proj)
RefreshConversation == conversation' = ConversationStatus(proj')

Larger(a, b) == IF a >= b THEN a ELSE b

(* project_execution_events_into_timeline_with_mode, for the events lo..hi *)
(* of the journal; an empty batch leaves the read model alone.             *)
Project(r, lo, hi, rebuild) ==
    LET batch == SubSeq(journal[r], lo, hi)
        before == IF rebuild THEN "queued" ELSE proj[r].state
        keptKind == cursor[r].kind # "none" /\ ~rebuild
        last(old) == IF rebuild THEN hi ELSE Larger(old, hi)
    IN  IF lo > hi THEN UNCHANGED readModel
        ELSE /\ proj' = [proj EXCEPT ![r] =
                   [state |-> StateAfter(before, batch), seq |-> last(@.seq)]]
             /\ cursor' = [cursor EXCEPT ![r] =
                   [seq |-> last(@.seq),
                    kind |-> IF keptKind THEN @.kind ELSE TerminalKind(batch)]]
             /\ RefreshConversation

SetMessage(r, state) == message' = [message EXCEPT ![r] = state]

------------------------------------------------------------------------------
(* The lease statements                                                    *)

(* Mutants: a claim that looks at the lease or at the state alone.         *)
ClaimableByLease(r, t) ==
    /\ proj[r].state # "absent"
    /\ lease[r].expires = NoExpiry \/ lease[r].expires <= t

ClaimableByState(r, t) == proj[r].state = "queued"

(* WHERE rp.state = 'queued' AND (expires IS NULL OR expires <= now)       *)
Claimable(r, t) ==
    /\ proj[r].state = "queued"
    /\ lease[r].expires = NoExpiry \/ lease[r].expires <= t

(* Mutants: a recovery that comes too early, or for the wrong state.       *)
ExpiredEarly(r, t) ==
    /\ proj[r].state = "running"
    /\ lease[r].expires # NoExpiry
    /\ lease[r].expires <= t + 1

ExpiredQueued(r, t) ==
    /\ proj[r].state = "queued"
    /\ lease[r].expires # NoExpiry
    /\ lease[r].expires <= t

(* WHERE rp.state = 'running' AND expires IS NOT NULL AND expires <= now   *)
Expired(r, t) ==
    /\ proj[r].state = "running"
    /\ lease[r].expires # NoExpiry
    /\ lease[r].expires <= t

(* Mutant: the owner is compared, the fencing token is not.                *)
HoldsLeaseByOwner(s) == lease[held[s].run].owner = SupervisorId[s]

(* WHERE lease_owner = owner AND fencing_token = token                     *)
HoldsLease(s) ==
    /\ lease[held[s].run].owner = SupervisorId[s]
    /\ lease[held[s].run].fence = held[s].fence

(* heartbeat_turn_supervisor_lease also needs a running projection, but    *)
(* never looks at the expiry it replaces.                                  *)
Renewable(s) == HoldsLease(s) /\ proj[held[s].run].state = "running"

RenewLease(s) ==
    /\ lease' = [lease EXCEPT ![held[s].run].expires = clock + TTL]
    /\ until' = [until EXCEPT ![s] = clock + TTL]

ClearLease(r) ==
    lease' = [lease EXCEPT ![r].owner = NoOwner, ![r].expires = NoExpiry]

------------------------------------------------------------------------------
(* Progress of a tick                                                      *)

TickSteps == {"idle", "claim", "observe", "skip", "recover", "recoverApply",
              "recovered", "heartbeat", "start", "startAppend", "bootstrap",
              "bootstrapAppend", "dispatch", "dispatching", "adjudicate", "emit",
              "emitAppend", "read", "apply", "message", "finish", "failMessage",
              "failAppend", "fallback"}
Outcomes == {"none", "completed", "failed", "cancelled", "skipped", "error"}

Working(s) == pc[s] \notin {"idle", "claim"}

NoLease == [run |-> 1, fence |-> 0]

At(s, step) == pc[s] = step
Goto(s, step) == pc' = [pc EXCEPT ![s] = step]

(* The tick ends, or its process does: what the thread knew is gone.       *)
Leave(s) ==
    /\ pc' = [pc EXCEPT ![s] = "idle"]
    /\ held' = [held EXCEPT ![s] = NoLease]
    /\ now' = [now EXCEPT ![s] = 0]
    /\ seen' = [seen EXCEPT ![s] = 0]
    /\ outcome' = [outcome EXCEPT ![s] = "none"]
    /\ beating' = [beating EXCEPT ![s] = FALSE]
    /\ until' = [until EXCEPT ![s] = 0]

(* An Err: out of the execution into the failure arm of                    *)
(* execute_claimed_conversation_turn, which joins the heartbeat thread and *)
(* reads its own now_ms; out of that arm's chain into its fallback.        *)
Fail(s) ==
    /\ IF outcome[s] = "error"
       THEN Goto(s, "fallback") /\ UNCHANGED now
       ELSE Goto(s, "failMessage") /\ now' = [now EXCEPT ![s] = clock]
    /\ outcome' = [outcome EXCEPT ![s] = "error"]
    /\ beating' = [beating EXCEPT ![s] = FALSE]
    /\ UNCHANGED <<held, seen, until>>

NoRequest == [step |-> "idle", run |-> 1, kind |-> "none", next |-> 0,
              lo |-> 0, hi |-> 0, rebuild |-> FALSE]

QueuedEvent == Event("WorkItemQueued", "queued", 0)
LeasedEvent == Event("WorkItemLeased", "leased", 0)
StartedEvent == Event("RunStarted", "started", 0)

Spend(kind) ==
    /\ budget[kind] > 0
    /\ budget' = [budget EXCEPT ![kind] = @ - 1]

Init ==
    /\ clock = 0
    /\ lease = [r \in Runs |-> [owner |-> NoOwner, expires |-> NoExpiry, fence |-> 0]]
    /\ proj = [r \in Runs |-> [state |-> "absent", seq |-> 0]]
    /\ cursor = [r \in Runs |-> [seq |-> 0, kind |-> "none"]]
    /\ message = [r \in Runs |-> "none"]
    /\ conversation = "idle"
    /\ journal = [r \in Runs |-> <<>>]
    /\ candidate = {}
    /\ starter = [r \in Runs |-> [step |-> "absent", seq |-> 0]]
    /\ pc = [s \in Supervisors |-> "idle"]
    /\ held = [s \in Supervisors |-> NoLease]
    /\ now = [s \in Supervisors |-> 0]
    /\ seen = [s \in Supervisors |-> 0]
    /\ outcome = [s \in Supervisors |-> "none"]
    /\ beating = [s \in Supervisors |-> FALSE]
    /\ until = [s \in Supervisors |-> 0]
    /\ request = [c \in Clients |-> NoRequest]
    /\ budget = Budget

------------------------------------------------------------------------------
(* Turn start: conversation_turn_start_lines                               *)

(* accept_conversation_turn_with_raw_ciphertext commits the turn, its run  *)
(* and its read model in one transaction, before anything is journaled.    *)
AcceptTurn(r) ==
    /\ starter[r].step = "absent"
    /\ \A q \in Runs : q < r => starter[q].step # "absent"
    /\ starter' = [starter EXCEPT ![r].step = "bootstrap"]
    /\ proj' = [proj EXCEPT ![r] = [state |-> "queued", seq |-> 0]]
    /\ cursor' = [cursor EXCEPT ![r] = [seq |-> 0, kind |-> "none"]]
    /\ conversation' = "running"
    /\ SetMessage(r, "streaming")
    /\ UNCHANGED <<clock, leaseVars, storeVars, tickVars, request, budget>>

(* bootstrap_conversation_turn_scheduler replays the journal and reuses a  *)
(* root item queued by somebody else.                                      *)
BootstrapTurn(r) ==
    /\ starter[r].step = "bootstrap"
    /\ starter' = [starter EXCEPT ![r].step =
           IF Recorded(r, QueuedEvent) THEN "done" ELSE "bootstrapAppend"]
    /\ UNCHANGED <<clock, leaseVars, readModel, message, storeVars, tickVars,
                   request, budget>>

BootstrapAppend(r) ==
    /\ starter[r].step = "bootstrapAppend"
    /\ \/ /\ AppendEvent(r, QueuedEvent)
          /\ starter' = [starter EXCEPT ![r].step = "done"]
       \/ /\ Recorded(r, QueuedEvent)
          /\ starter' = [starter EXCEPT ![r].step = "failMessage"]
          /\ UNCHANGED storeVars
    /\ UNCHANGED <<clock, leaseVars, readModel, message, tickVars, request, budget>>

(* The routing receipt or the bootstrap returned an Err.                   *)
StartFails(r) ==
    /\ starter[r].step \in {"bootstrap", "bootstrapAppend"}
    /\ Spend("startError")
    /\ starter' = [starter EXCEPT ![r].step = "failMessage"]
    /\ UNCHANGED <<clock, leaseVars, readModel, message, storeVars, tickVars, request>>

(* finalize_accepted_turn_start_failure: the message, the event, its       *)
(* projection.                                                             *)
StartFailMessage(r) ==
    /\ starter[r].step = "failMessage"
    /\ SetMessage(r, "failed")
    /\ starter' = [starter EXCEPT ![r].step = "failAppend"]
    /\ UNCHANGED <<clock, leaseVars, readModel, storeVars, tickVars, request, budget>>

StartFailAppend(r) ==
    /\ starter[r].step = "failAppend"
    /\ AppendEvent(r, Event("VerificationFailed", "start-failed", 0))
    /\ starter' = [starter EXCEPT ![r] = [step |-> "failProject",
                                          seq |-> Len(journal[r]) + 1]]
    /\ UNCHANGED <<clock, leaseVars, readModel, message, tickVars, request, budget>>

StartFailProject(r) ==
    /\ starter[r].step = "failProject"
    /\ Project(r, starter[r].seq, starter[r].seq, FALSE)
    /\ starter' = [starter EXCEPT ![r].step = "done"]
    /\ UNCHANGED <<clock, leaseVars, message, storeVars, tickVars, request, budget>>

(* A projection that fails is replaced by set_turn_run_state_with_last_    *)
(* sequence(.., "failed", None); an earlier Err ends the request.          *)
StartFailureFails(r) ==
    /\ starter[r].step \in {"failMessage", "failAppend", "failProject"}
    /\ Spend("startError")
    /\ starter' = [starter EXCEPT ![r].step = "done"]
    /\ IF starter[r].step = "failProject"
       THEN /\ proj' = [proj EXCEPT ![r].state = "failed"]
            /\ RefreshConversation
            /\ UNCHANGED cursor
       ELSE UNCHANGED readModel
    /\ UNCHANGED <<clock, leaseVars, message, storeVars, tickVars, request>>

StartCrash(r) ==
    /\ starter[r].step \notin {"absent", "done"}
    /\ Spend("crash")
    /\ starter' = [starter EXCEPT ![r].step = "done"]
    /\ UNCHANGED <<clock, leaseVars, readModel, message, storeVars, tickVars, request>>

------------------------------------------------------------------------------
(* The supervisor tick: conversation_supervisor_tick_lines                 *)

(* recover_expired_turn_supervisor_leases, with the now_ms that the claim  *)
(* of the same tick will use again.                                        *)
RecoverExpired(s) ==
    /\ At(s, "idle")
    /\ now' = [now EXCEPT ![s] = clock]
    /\ lease' = [r \in Runs |->
           IF Expired(r, clock)
           THEN [lease[r] EXCEPT !.owner = NoOwner, !.expires = NoExpiry]
           ELSE lease[r]]
    /\ proj' = [r \in Runs |->
           IF Expired(r, clock) THEN [proj[r] EXCEPT !.state = "queued"] ELSE proj[r]]
    /\ Goto(s, "claim")
    /\ UNCHANGED <<clock, cursor, conversation, message, storeVars, starter, held,
                   seen, outcome, beating, until, request, budget>>

(* claim_queued_turn_by_run_id takes the run it is given,                  *)
(* claim_next_queued_turn the oldest claimable one.  Prompt starts have    *)
(* returned before any tick finds their turn.                              *)
Targets(s) ==
    LET claimable == {r \in Runs : Claimable(r, now[s])}
    IN  IF s \in Foreground \/ claimable = {} THEN claimable ELSE {Earliest(claimable)}

ClaimTurn(s, r) ==
    /\ At(s, "claim")
    /\ r \in Targets(s)
    /\ "starts" \in Prompt => starter[r].step = "done"
    /\ lease' = [lease EXCEPT ![r] = [owner |-> SupervisorId[s],
                                      expires |-> now[s] + TTL,
                                      fence |-> @.fence + 1]]
    /\ proj' = [proj EXCEPT ![r].state = "running"]
    /\ held' = [held EXCEPT ![s] = [run |-> r, fence |-> lease[r].fence + 1]]
    /\ until' = [until EXCEPT ![s] = now[s] + TTL]
    /\ now' = [now EXCEPT ![s] = 0]
    /\ Goto(s, "observe")
    /\ UNCHANGED <<clock, cursor, conversation, message, storeVars, starter, seen,
                   outcome, beating, request, budget>>

ClaimNothing(s) ==
    /\ At(s, "claim")
    /\ IF s \in Foreground THEN \E r \in Runs : ~Claimable(r, now[s])
       ELSE Targets(s) = {}
    /\ Leave(s)
    /\ UNCHANGED <<clock, leaseVars, readModel, message, storeVars, starter, request,
                   budget>>

------------------------------------------------------------------------------
(* Execution: execute_claimed_conversation_turn_inner                      *)

(* A step that only moves the tick on.                                     *)
ContextKept == UNCHANGED <<held, now, seen, outcome, beating, until>>

ObserveRun(s) ==
    /\ At(s, "observe")
    /\ IF CancellationObserved(held[s].run)
       THEN outcome' = [outcome EXCEPT ![s] = "skipped"] /\ Goto(s, "skip")
       ELSE /\ Goto(s, IF held[s].run \in candidate THEN "recover" ELSE "heartbeat")
            /\ UNCHANGED outcome
    /\ UNCHANGED <<clock, leaseVars, readModel, message, storeVars, starter, held, now,
                   seen, beating, until, request, budget>>

(* Mutant: a cancelled turn gives its lease back without projecting.       *)
SkipUnprojected(s) ==
    /\ At(s, "skip")
    /\ SetMessage(held[s].run, "cancelled")
    /\ Goto(s, "finish")
    /\ ContextKept
    /\ UNCHANGED <<clock, leaseVars, readModel, storeVars, starter, request, budget>>

(* finish_cancelled_claimed_conversation_turn sets the message first.      *)
SkipMessage(s) ==
    /\ At(s, "skip")
    /\ SetMessage(held[s].run, "cancelled")
    /\ Goto(s, "read")
    /\ ContextKept
    /\ UNCHANGED <<clock, leaseVars, readModel, storeVars, starter, request, budget>>

(* project_run_event_journal_to_conversation replays the whole journal and *)
(* projects what it replayed in a later transaction.                       *)
ReadJournal(s) ==
    /\ pc[s] \in {"recover", "read"}
    /\ seen' = [seen EXCEPT ![s] = Len(journal[held[s].run])]
    /\ Goto(s, IF At(s, "recover") THEN "recoverApply" ELSE "apply")
    /\ UNCHANGED <<clock, leaseVars, readModel, message, storeVars, starter, held, now,
                   outcome, beating, until, request, budget>>

ApplyJournal(s) ==
    /\ pc[s] \in {"recoverApply", "apply"}
    /\ Project(held[s].run, 1, seen[s], FALSE)
    /\ Goto(s, IF At(s, "recoverApply") THEN "recovered"
               ELSE IF outcome[s] \in {"skipped", "error"} THEN "finish" ELSE "message")
    /\ ContextKept
    /\ UNCHANGED <<clock, leaseVars, message, storeVars, starter, request, budget>>

(* recover_candidate_ready_claimed_conversation_turn: a candidate left by  *)
(* an earlier execution is adopted if the run projects to completed.       *)
AdoptCandidate(s) ==
    /\ At(s, "recovered")
    /\ IF proj[held[s].run].state = "completed"
       THEN outcome' = [outcome EXCEPT ![s] = "completed"] /\ Goto(s, "read")
       ELSE Goto(s, "heartbeat") /\ UNCHANGED outcome
    /\ UNCHANGED <<clock, leaseVars, readModel, message, storeVars, starter, held, now,
                   seen, beating, until, request, budget>>

(* TurnLeaseHeartbeatGuard::start                                          *)
StartHeartbeat(s) ==
    /\ At(s, "heartbeat")
    /\ \/ /\ Renewable(s)
          /\ RenewLease(s)
          /\ beating' = [beating EXCEPT ![s] = TRUE]
          /\ Goto(s, "start")
          /\ UNCHANGED <<held, now, seen, outcome>>
       \/ /\ ~Renewable(s)
          /\ Fail(s)
          /\ UNCHANGED leaseVars
    /\ UNCHANGED <<clock, readModel, message, storeVars, starter, request, budget>>

(* The heartbeat thread: stops once it sees a cancellation, and does not   *)
(* look at whether the lease was renewed.                                  *)
Heartbeat(s) ==
    /\ beating[s]
    /\ \/ /\ CancellationObserved(held[s].run)
          /\ beating' = [beating EXCEPT ![s] = FALSE]
          /\ UNCHANGED <<leaseVars, until>>
       \/ /\ ~CancellationObserved(held[s].run)
          /\ Renewable(s)
          /\ until[s] < clock + TTL
          /\ RenewLease(s)
          /\ UNCHANGED beating
    /\ UNCHANGED <<clock, readModel, message, storeVars, starter, pc, held, now, seen,
                   outcome, request, budget>>

(* Look an event id up, append later: emit_run_started, emit_run_completed *)
(* and emit_run_failed share it with the scheduler's bootstrap.            *)
Lookup(s, step, e, present, absent) ==
    /\ At(s, step)
    /\ Goto(s, IF Recorded(held[s].run, e) THEN present ELSE absent)
    /\ ContextKept
    /\ UNCHANGED <<clock, leaseVars, readModel, message, storeVars, starter, request,
                   budget>>

(* Mutant: a recorded id is taken for one's own append (INSERT OR IGNORE). *)
AppendOrIgnore(s, step, e, next) ==
    /\ At(s, step)
    /\ \/ AppendEvent(held[s].run, e)
       \/ Recorded(held[s].run, e) /\ UNCHANGED storeVars
    /\ Goto(s, next)
    /\ ContextKept
    /\ UNCHANGED <<clock, leaseVars, readModel, message, starter, request, budget>>

(* append_event: the PRIMARY KEY turns a recorded id into an Err.          *)
TryAppend(s, step, e, next) ==
    /\ At(s, step)
    /\ \/ /\ AppendEvent(held[s].run, e)
          /\ Goto(s, next)
          /\ ContextKept
       \/ /\ Recorded(held[s].run, e)
          /\ Fail(s)
          /\ UNCHANGED storeVars
    /\ UNCHANGED <<clock, leaseVars, readModel, message, starter, request, budget>>

EmitRunStarted(s) ==
    \/ Lookup(s, "start", StartedEvent, "bootstrap", "startAppend")
    \/ TryAppend(s, "startAppend", StartedEvent, "bootstrap")

(* dispatch_claimed_turn_via_scheduler bootstraps the work items again and *)
(* gives them to a scheduler that counts its transitions from zero: the    *)
(* lease event of the root item has the same id in every dispatch.         *)
Dispatch(s) ==
    \/ Lookup(s, "bootstrap", QueuedEvent, "dispatch", "bootstrapAppend")
    \/ TryAppend(s, "bootstrapAppend", QueuedEvent, "dispatch")
    \/ TryAppend(s, "dispatch", LeasedEvent, "dispatching")

(* The root item succeeds or fails, and after a success so may a child:    *)
(* dispatch_ready_batch journals every failure as VerificationFailed.      *)
ExecuteTurn(s) ==
    /\ At(s, "dispatching")
    /\ \/ /\ outcome' = [outcome EXCEPT ![s] = "completed"]
          /\ \/ UNCHANGED storeVars
             \/ /\ "role" \in Children
                /\ AppendEvent(held[s].run, Event("RoleWorkerFailed", "child-failed", 0))
             \/ /\ "objective" \in Children
                /\ AppendEvent(held[s].run, Event("VerificationFailed", "child-failed", 0))
       \/ /\ outcome' = [outcome EXCEPT ![s] = "failed"]
          /\ AppendEvent(held[s].run, Event("VerificationFailed", "root-failed", 0))
    /\ Goto(s, "adjudicate")
    /\ UNCHANGED <<clock, leaseVars, readModel, message, starter, held, now, seen,
                   beating, until, request, budget>>

(* A cancellation seen after the dispatch replaces its outcome; otherwise  *)
(* an isolated execution may leave an integration candidate.               *)
Adjudicate(s) ==
    /\ At(s, "adjudicate")
    /\ IF CancellationObserved(held[s].run)
       THEN /\ outcome' = [outcome EXCEPT ![s] = "cancelled"]
            /\ Goto(s, "read")
            /\ UNCHANGED candidate
       ELSE /\ Goto(s, "emit")
            /\ candidate' \in {candidate} \cup
                   (IF Isolated THEN {candidate \cup {held[s].run}} ELSE {})
            /\ UNCHANGED outcome
    /\ UNCHANGED <<clock, leaseVars, readModel, message, journal, starter, held, now,
                   seen, beating, until, request, budget>>

FinalEvent(s) ==
    IF outcome[s] = "completed" THEN Event("RunCompleted", "completed", 0)
    ELSE Event("VerificationFailed", "failed", 0)

EmitRunFinished(s) ==
    \/ Lookup(s, "emit", FinalEvent(s), "read", "emitAppend")
    \/ TryAppend(s, "emitAppend", FinalEvent(s), "read")

(* Mutant: every execution that returns is shown as complete.              *)
FinishMessageComplete(s) ==
    /\ At(s, "message")
    /\ SetMessage(held[s].run, "complete")
    /\ Goto(s, "finish")
    /\ ContextKept
    /\ UNCHANGED <<clock, leaseVars, readModel, storeVars, starter, request, budget>>

(* set_message_content carries no fence.                                   *)
FinishMessage(s) ==
    /\ At(s, "message")
    /\ SetMessage(held[s].run, IF outcome[s] = "completed" THEN "complete" ELSE outcome[s])
    /\ Goto(s, "finish")
    /\ ContextKept
    /\ UNCHANGED <<clock, leaseVars, readModel, storeVars, starter, request, budget>>

(* finish_turn_supervisor_lease_after_projection, or its StaleLease.       *)
FinishLease(s) ==
    /\ At(s, "finish")
    /\ \/ /\ HoldsLease(s)
          /\ ClearLease(held[s].run)
          /\ UNCHANGED <<proj, cursor>>
          /\ RefreshConversation
          /\ Leave(s)
       \/ /\ ~HoldsLease(s)
          /\ Fail(s)
          /\ UNCHANGED <<leaseVars, readModel>>
    /\ UNCHANGED <<clock, message, storeVars, starter, request, budget>>

------------------------------------------------------------------------------
(* The failure arm: execute_claimed_conversation_turn                      *)

FailMessage(s) ==
    /\ At(s, "failMessage")
    /\ SetMessage(held[s].run, "failed")
    /\ Goto(s, "failAppend")
    /\ ContextKept
    /\ UNCHANGED <<clock, leaseVars, readModel, storeVars, starter, request, budget>>

(* append_supervisor_failure_event carries no fence either.                *)
FailAppend(s) ==
    TryAppend(s, "failAppend",
              Event("VerificationFailed", "supervisor-failed", now[s]), "read")

(* finish_turn_supervisor_lease(.., "failed", 0, "failed"), its own Err    *)
(* ignored.                                                                *)
FallbackFinish(s) ==
    /\ At(s, "fallback")
    /\ \/ /\ HoldsLease(s)
          /\ ClearLease(held[s].run)
          /\ proj' = [proj EXCEPT ![held[s].run] = [state |-> "failed", seq |-> 0]]
          /\ cursor' = [cursor EXCEPT ![held[s].run] = [seq |-> 0, kind |-> "failed"]]
          /\ RefreshConversation
       \/ ~HoldsLease(s) /\ UNCHANGED <<leaseVars, readModel>>
    /\ Leave(s)
    /\ UNCHANGED <<clock, message, storeVars, starter, request, budget>>

(* Any step may return an Err of its own (I/O, a locked database).  One    *)
(* that would leave the lease behind only happens while MaxClock leaves    *)
(* the time for it to expire.                                              *)
TimeToExpire == clock + TTL <= MaxClock

StepFails(s) ==
    /\ Working(s)
    /\ \/ outcome[s] # "error" /\ Spend("error") /\ Fail(s)
       \/ /\ outcome[s] = "error"
          /\ Spend("failureError")
          /\ CASE At(s, "failMessage") -> Goto(s, "failAppend") /\ ContextKept
               [] At(s, "fallback")    -> TimeToExpire /\ Leave(s)
               [] OTHER                -> Fail(s)
    /\ UNCHANGED <<clock, leaseVars, readModel, message, storeVars, starter, request>>

(* The process of the tick dies, its heartbeat thread with it.             *)
Crash(s) ==
    /\ Working(s)
    /\ TimeToExpire
    /\ Spend("crash")
    /\ Leave(s)
    /\ UNCHANGED <<clock, leaseVars, readModel, message, storeVars, starter, request>>

------------------------------------------------------------------------------
(* Clients                                                                 *)

(* append_run_control_event reads next_sequence for the id of its event.   *)
RequestControl(c) ==
    /\ request[c].step = "idle"
    /\ Spend("control")
    /\ \E r \in Runs, kind \in ControlKinds :
          /\ starter[r].step # "absent"
          /\ request' = [request EXCEPT ![c] =
                [NoRequest EXCEPT !.step = "append", !.run = r, !.kind = kind,
                                  !.next = Len(journal[r]) + 1]]
    /\ UNCHANGED <<clock, leaseVars, readModel, message, storeVars, starter, tickVars>>

AppendControl(c) ==
    LET r == request[c].run
        e == Event(request[c].kind, "control", request[c].next)
        sequence == Len(journal[r]) + 1
    IN  /\ request[c].step = "append"
        /\ \/ /\ AppendEvent(r, e)
              /\ request' = [request EXCEPT ![c].step = "project",
                                            ![c].lo = sequence, ![c].hi = sequence]
           \/ /\ Recorded(r, e)
              /\ request' = [request EXCEPT ![c] = NoRequest]
              /\ UNCHANGED storeVars
        /\ UNCHANGED <<clock, leaseVars, readModel, message, starter, tickVars, budget>>

(* subscription_lines replays the events after the subscriber's cursor; at *)
(* cursor 0 their projection will be a rebuild.                            *)
Subscribe(c) ==
    /\ request[c].step = "idle"
    /\ Spend("subscribe")
    /\ \E r \in Runs : \E since \in 0..Len(journal[r]) :
          /\ starter[r].step # "absent"
          /\ request' = [request EXCEPT ![c] =
                [NoRequest EXCEPT !.step = "project", !.run = r, !.lo = since + 1,
                                  !.hi = Len(journal[r]), !.rebuild = (since = 0)]]
    /\ UNCHANGED <<clock, leaseVars, readModel, message, storeVars, starter, tickVars>>

(* project_run_control_event_to_timeline and                               *)
(* project_subscription_events_to_timeline                                 *)
ProjectRequest(c) ==
    /\ request[c].step = "project"
    /\ Project(request[c].run, request[c].lo, request[c].hi, request[c].rebuild)
    /\ request' = [request EXCEPT ![c] = NoRequest]
    /\ UNCHANGED <<clock, leaseVars, message, storeVars, starter, tickVars, budget>>

RequestCrash(c) ==
    /\ request[c].step # "idle"
    /\ Spend("crash")
    /\ request' = [request EXCEPT ![c] = NoRequest]
    /\ UNCHANGED <<clock, leaseVars, readModel, message, storeVars, starter, tickVars>>

(* Time passes.  Prompt ticks do not dally for the time of a lease: they   *)
(* claim before the lease they will take is over, and a lease they could   *)
(* still renew does not expire.                                            *)
ClockTick ==
    /\ clock < MaxClock
    /\ "ticks" \in Prompt => \A s \in Supervisors :
           /\ At(s, "claim") => clock + 1 < now[s] + TTL
           /\ Working(s) /\ Renewable(s) => clock + 1 < until[s]
    /\ clock' = clock + 1
    /\ UNCHANGED <<leaseVars, readModel, message, storeVars, starter, tickVars, request,
                   budget>>

------------------------------------------------------------------------------
TurnStart(r) ==
    \/ BootstrapTurn(r) \/ BootstrapAppend(r) \/ StartFailMessage(r)
    \/ StartFailAppend(r) \/ StartFailProject(r)

Execute(s) ==
    \/ ObserveRun(s) \/ SkipMessage(s) \/ ReadJournal(s) \/ ApplyJournal(s)
    \/ AdoptCandidate(s) \/ StartHeartbeat(s) \/ EmitRunStarted(s) \/ Dispatch(s)
    \/ ExecuteTurn(s) \/ Adjudicate(s) \/ EmitRunFinished(s) \/ FinishMessage(s)
    \/ FinishLease(s) \/ FailMessage(s) \/ FailAppend(s) \/ FallbackFinish(s)

Tick(s) ==
    \/ RecoverExpired(s) \/ ClaimNothing(s) \/ (\E r \in Runs : ClaimTurn(s, r))
    \/ Execute(s)

ClientStep(c) ==
    \/ AppendControl(c) \/ ProjectRequest(c)

Next ==
    \/ \E r \in Runs : \/ TurnStart(r) \/ AcceptTurn(r) \/ StartFails(r)
                       \/ StartFailureFails(r) \/ StartCrash(r)
    \/ \E s \in Supervisors : Tick(s) \/ Heartbeat(s) \/ StepFails(s) \/ Crash(s)
    \/ \E c \in Clients : \/ ClientStep(c) \/ RequestControl(c) \/ Subscribe(c)
                          \/ RequestCrash(c)
    \/ ClockTick

Spec == Init /\ [][Next]_vars

(* Threads that run keep running, clients send what they started, time     *)
(* passes, and ticks are requested again and again.                        *)
Fairness ==
    /\ \A r \in Runs : WF_vars(TurnStart(r))
    /\ \A s \in Supervisors : WF_vars(Tick(s)) /\ WF_vars(Heartbeat(s))
    /\ \A c \in Clients : WF_vars(ClientStep(c))
    /\ WF_vars(ClockTick)

FairSpec == Spec /\ Fairness

------------------------------------------------------------------------------
(* Properties                                                              *)

StarterSteps == {"absent", "bootstrap", "bootstrapAppend", "failMessage",
                 "failAppend", "failProject", "done"}

Leases == [owner : Owners, expires : Nat \cup {NoExpiry}, fence : Nat]
Projections == [state : RunStates, seq : Nat]
Cursors == [seq : Nat, kind : TerminalStates \cup {"none"}]
Messages == {"none", "streaming", "complete", "failed", "cancelled"}
Statuses == {"idle", "running", "completed", "failed"}
Starters == [step : StarterSteps, seq : Nat]
HeldLeases == [run : Runs, fence : Nat]
Requests == [step : {"idle", "append", "project"}, run : Runs,
             kind : ControlKinds \cup {"none"}, next : Nat, lo : Nat, hi : Nat,
             rebuild : BOOLEAN]

(* Every variable has its type. *)
TypeOK ==
    /\ clock \in Nat
    /\ lease \in [Runs -> Leases]
    /\ proj \in [Runs -> Projections]
    /\ cursor \in [Runs -> Cursors]
    /\ message \in [Runs -> Messages]
    /\ conversation \in Statuses
    /\ journal \in [Runs -> Seq(Events)]
    /\ candidate \subseteq Runs
    /\ starter \in [Runs -> Starters]
    /\ pc \in [Supervisors -> TickSteps]
    /\ held \in [Supervisors -> HeldLeases]
    /\ now \in [Supervisors -> Nat]
    /\ seen \in [Supervisors -> Nat]
    /\ outcome \in [Supervisors -> Outcomes]
    /\ beating \in [Supervisors -> BOOLEAN]
    /\ until \in [Supervisors -> Nat]
    /\ request \in [Clients -> Requests]
    /\ budget \in [BudgetKinds -> Nat]

(* Until the expiry it was given has passed, a tick is the only one working *)
(* on its run, however late heartbeats are and whatever clients, crashes    *)
(* and rebuilds do to the read model: claim, recovery and heartbeat agree   *)
(* on when a lease is over.                                                 *)
LeaseExclusion ==
    \A s, t \in Supervisors :
        /\ Working(s) /\ until[s] > clock
        /\ Working(t) /\ until[t] > clock
        /\ held[s].run = held[t].run
        => s = t

ChangedByHolder(r) ==
    lease[r].expires > clock /\ lease'[r] # lease[r] =>
        \E s \in Supervisors :
            /\ Working(s)
            /\ held[s] = [run |-> r, fence |-> lease[r].fence]
            /\ <<pc[s], until[s]>>' # <<pc[s], until[s]>>

(* The lease columns of a run whose lease has not expired are changed by    *)
(* its holder alone: no fenced-out tick renews, finishes or fails the lease *)
(* of its successor.                                                        *)
OnlyHolderChangesLease == [][\A r \in Runs : ChangedByHolder(r)]_vars

(* What a tick believes to hold: the lease of its run.                      *)
Belief(s) ==
    IF Working(s)
    THEN {[run |-> held[s].run, fence |-> held[s].fence, until |-> until[s]]}
    ELSE {}

Fenced == INSTANCE FencedLease WITH
    Workers <- Supervisors, NameOf <- SupervisorId, Nobody <- NoOwner,
    time <- clock, grant <- lease, belief <- [s \in Supervisors |-> Belief(s)]

(* Whatever projections, rebuilds, control requests, errors and crashes do, *)
(* the lease columns and the ticks that act on them implement a fenced      *)
(* lease: nobody else writes them, a claim never takes a run that is still  *)
(* granted, and no token is issued twice.                                   *)
ImplementsFencedLease == Fenced!Spec

(* A turn's model is run at most once, although two ticks may both believe  *)
(* to hold it and a rebuild may have put it back in the queue: whoever      *)
(* dispatches second collides with the first lease event of the root item.  *)
DispatchedPcs == {"dispatching", "adjudicate", "emit", "emitAppend"}

DispatchedOnce ==
    /\ \A s, t \in Supervisors :
           /\ {pc[s], pc[t]} \subseteq DispatchedPcs
           /\ held[s].run = held[t].run
           => s = t
    /\ \A r \in Runs : ~(\E i, j \in 1..Len(journal[r]) :
           journal[r][i].tag = "completed" /\ journal[r][j].tag = "failed")

(* What the read model says of a run is in its journal: the state and the   *)
(* terminal kind of a run name an end that was committed, unless a failure  *)
(* arm could not even record the failure.                                   *)
EndKind(state) ==
    CASE state = "completed" -> "RunCompleted"
      [] state = "cancelled" -> "RunCancelled"
      [] state = "failed"    -> "VerificationFailed"

TerminalHasEvidence ==
    \A r \in Runs : \A end \in {proj[r].state, cursor[r].kind} \cap TerminalStates :
        \/ \E i \in 1..Len(journal[r]) : journal[r][i].kind = EndKind(end)
        \/ /\ end = "failed"
           /\ \/ budget["failureError"] < Budget["failureError"]
              \/ budget["startError"] < Budget["startError"]

(* conversations.status, refreshed by some of the transactions only, is at  *)
(* every moment what the run projections say.                               *)
ConversationFresh == conversation = ConversationStatus(proj)

(* A run that is completed, failed or cancelled stays so.                   *)
TerminalSticky ==
    [][\A r \in Runs : proj[r].state \in TerminalStates => proj'[r].state = proj[r].state]_vars

(* Replaying the journal from nothing gives the terminal state the live     *)
(* projection has.                                                          *)
RebuildEqualsLive ==
    \A r \in Runs : proj[r].state \in TerminalStates =>
        StateAfter("queued", journal[r]) = proj[r].state

(* What a projection makes of a run's events, and what it keeps as their    *)
(* terminal kind, is what the code's loop over them yields.                 *)
ProjectionIsFold ==
    \A r \in Runs :
        /\ \A current \in RunStates :
              StateAfter(current, journal[r]) = FoldedState(current, journal[r])
        /\ TerminalKind(journal[r]) = FoldedKind(journal[r])

(* No two ticks execute the same turn at once.                              *)
OneSupervisorPerTurn ==
    \A s, t \in Supervisors :
        /\ Working(s) /\ Working(t)
        /\ held[s].run = held[t].run
        => s = t

MessageOf(state) == IF state = "completed" THEN "complete" ELSE state

(* Once nobody works on a finished run, the assistant message tells the     *)
(* same end as the read model.                                              *)
SettledMessageAgrees ==
    \A r \in Runs :
        /\ proj[r].state \in TerminalStates
        /\ starter[r].step = "done"
        /\ \A s \in Supervisors : Working(s) => held[s].run # r
        => message[r] = MessageOf(proj[r].state)

(* Every accepted turn is eventually completed, failed or cancelled,        *)
(* whatever crashes and errors its ticks meet.                              *)
AcceptedTurnsSettle ==
    \A r \in Runs : proj[r].state = "queued" ~> proj[r].state \in TerminalStates

(* A run whose cancellation is in the journal is eventually terminal, even  *)
(* if the request that journaled it was lost before projecting it.          *)
CancelledRunsStop ==
    \A r \in Runs : CancellationObserved(r) ~> proj[r].state \in TerminalStates

(* A tick that executes a run again, after its first supervisor died, does  *)
(* not meet the events of the first dispatch.                               *)
RedispatchIsClean ==
    \A s \in Supervisors : At(s, "dispatch") => ~Recorded(held[s].run, LeasedEvent)

------------------------------------------------------------------------------
(* Inductive invariants: what TurnSupervisorProofs needs to know of every   *)
(* reachable state beside the properties above                              *)

(* Nobody projects events that are not in the journal yet, and a control    *)
(* request has its kind until it is appended.                               *)
BatchInJournal ==
    /\ \A r \in Runs : starter[r].step = "failProject" =>
           starter[r].seq \in 1..Len(journal[r])
    /\ \A s \in Supervisors : pc[s] \in {"recoverApply", "apply"} =>
           seen[s] <= Len(journal[held[s].run])
    /\ \A c \in Clients :
           /\ request[c].step = "append" => request[c].kind \in ControlKinds
           /\ request[c].step = "project" =>
                  /\ request[c].lo >= 1
                  /\ request[c].hi <= Len(journal[request[c].run])

(* A tick knows how its execution ended when it starts to record that end.  *)
OutcomeKnown ==
    \A s \in Supervisors :
        /\ pc[s] \in {"adjudicate", "emit", "emitAppend"} =>
               outcome[s] \in {"completed", "failed"}
        /\ pc[s] = "message" => outcome[s] \in {"completed", "failed", "cancelled"}
        /\ pc[s] = "skip" => outcome[s] = "skipped"
        /\ pc[s] \in {"read", "apply"} => outcome[s] # "none"
        /\ pc[s] \in {"failMessage", "failAppend", "fallback"} => outcome[s] = "error"

(* A working tick has a fencing token that was issued for its run, and no   *)
(* two working ticks have the same; its heartbeat ends with it.             *)
FencesIssuedOnce ==
    /\ \A s \in Supervisors : Working(s) => held[s].fence <= lease[held[s].run].fence
    /\ \A s, t \in Supervisors : Working(s) /\ Working(t) /\ held[s] = held[t] => s = t
    /\ \A s \in Supervisors : beating[s] => Working(s)

(* Until the expiry a tick was given, the lease columns are as it wrote     *)
(* them; and a tick that is about to claim has not read the future.         *)
LeaseStands ==
    \A s \in Supervisors :
        /\ now[s] <= clock
        /\ Working(s) /\ until[s] > clock =>
               lease[held[s].run] = [owner |-> SupervisorId[s], expires |-> until[s],
                                     fence |-> held[s].fence]

LeaseInv == FencesIssuedOnce /\ LeaseStands
==============================================================================
