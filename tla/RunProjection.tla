---------------------------- MODULE RunProjection ----------------------------
(***************************************************************************)
(* The reducer that turns a run's event journal into its lifecycle state:  *)
(* crates/opensks-conversation, run_projection_state_for_execution_event,  *)
(* terminal_kind_for_execution_event and merge_run_projection_state, as    *)
(* project_execution_events_into_timeline_with_mode folds them over a      *)
(* batch of events.                                                        *)
(*                                                                         *)
(* The batch operators are stated without recursion, for the proofs to     *)
(* reason about; that they are the fold is checked, and proved.            *)
(***************************************************************************)
EXTENDS Integers, Sequences

ActiveStates == {"queued", "running", "paused"}
TerminalStates == {"completed", "failed", "cancelled"}

(* "absent" is the state of a run whose turn has not been accepted yet: it *)
(* has no run_projections row.                                             *)
RunStates == {"absent"} \cup ActiveStates \cup TerminalStates

(* The kinds the journal of a turn run may hold.  "RoleWorkerFailed" is a  *)
(* VerificationFailed event with the marks of an advisory role worker      *)
(* (is_advisory_role_worker_failure_event); the reducer skips it.          *)
EventKinds == {"WorkItemQueued", "WorkItemLeased", "RunStarted", "RunPaused",
               "RunResumed", "RunCancelled", "RunCompleted",
               "VerificationFailed", "RoleWorkerFailed"}

(* Mutant: the failure of an advisory role worker counts as the run's own. *)
StateOfAnyFailure(kind) ==
    CASE kind \in {"RunStarted", "RunResumed"} -> "running"
      [] kind = "RunPaused"                    -> "paused"
      [] kind = "RunCancelled"                 -> "cancelled"
      [] kind = "RunCompleted"                 -> "completed"
      [] kind \in {"VerificationFailed", "RoleWorkerFailed"} -> "failed"
      [] OTHER                                 -> "none"

(* run_projection_state_for_execution_event; "none" is Rust's None.        *)
StateOf(kind) ==
    CASE kind \in {"RunStarted", "RunResumed"} -> "running"
      [] kind = "RunPaused"                    -> "paused"
      [] kind = "RunCancelled"                 -> "cancelled"
      [] kind = "RunCompleted"                 -> "completed"
      [] kind = "VerificationFailed"           -> "failed"
      [] OTHER                                 -> "none"

(* merge_run_projection_state: a terminal state is never left.             *)
Merge(current, incoming) ==
    IF current \in TerminalStates \/ incoming \in {"none", "queued"}
    THEN current ELSE incoming

Positions(events, states) ==
    {i \in 1..Len(events) : StateOf(events[i].kind) \in states}

Earliest(S) == CHOOSE i \in S : \A j \in S : i <= j
Latest(S) == CHOOSE i \in S : \A j \in S : i >= j

(* Mutants: the last event that says anything decides, or the last event.  *)
StateAfterLastWins(current, events) ==
    LET telling == Positions(events, RunStates)
    IN  IF telling = {} THEN current ELSE StateOf(events[Latest(telling)].kind)

StateAfterLastEvent(current, events) ==
    IF current \in TerminalStates THEN current ELSE StateOf(events[Len(events)].kind)

(* What Merge yields when it is folded over a batch: the first terminal    *)
(* event decides, and only without one does the last pause or resume.      *)
StateAfter(current, events) ==
    LET terminal == Positions(events, TerminalStates)
        active == Positions(events, {"running", "paused"})
    IN  IF current \in TerminalStates THEN current
        ELSE IF terminal # {} THEN StateOf(events[Earliest(terminal)].kind)
        ELSE IF active # {} THEN StateOf(events[Latest(active)].kind)
        ELSE current

(* terminal_kind of a batch: every terminal event overwrites it, so the    *)
(* last one is kept.  A kind has the name of the state it leads to.        *)
TerminalKind(events) ==
    LET terminal == Positions(events, TerminalStates)
    IN  IF terminal = {} THEN "none" ELSE StateOf(events[Latest(terminal)].kind)

(* The loop the code runs over a batch: every event's state is merged into  *)
(* the state so far, and every terminal kind replaces the one before.       *)
FoldedState(current, events) ==
    LET state[n \in 0..Len(events)] ==
            IF n = 0 THEN current ELSE Merge(state[n - 1], StateOf(events[n].kind))
    IN  state[Len(events)]

FoldedKind(events) ==
    LET kind[n \in 0..Len(events)] ==
            IF n = 0 THEN "none"
            ELSE IF StateOf(events[n].kind) \in TerminalStates
                 THEN StateOf(events[n].kind) ELSE kind[n - 1]
    IN  kind[Len(events)]
==============================================================================
