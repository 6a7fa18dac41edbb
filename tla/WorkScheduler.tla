---------------------------- MODULE WorkScheduler -----------------------------
(***************************************************************************)
(* The durable scheduler of one run (crates/opensks-scheduler): work items *)
(* with dependencies, the leases that fence their workers, the admission   *)
(* of a parallel batch, and the journal every transition is appended to    *)
(* before memory changes.                                                  *)
(*                                                                         *)
(* A scheduler is a value with one user (&mut self), so its calls do not   *)
(* overlap.  A dispatch call is followed transition by transition, because *)
(* each append to the journal may fail and end it, and because other       *)
(* processes append control events meanwhile; the other calls are one      *)
(* action each.                                                            *)
(***************************************************************************)
EXTENDS Integers, Sequences, FiniteSets

CONSTANTS
    Items,          \* the work items of the run
    Deps,           \* dependencies of each item
    Rank,           \* order of dispatch: priority, then id
    Conflicting,    \* pairs of items whose path scopes conflict
    Pool,           \* provider or model selector of each item
    NoPool,         \* no selector: the item counts against no pool
    Admitted,       \* admitted workers, governor_decision
    PerPool,        \* per_provider_max_workers, per_model_max_workers
    Workers,        \* holders that lease single items
    Driver,         \* the holder string of the dispatching driver
    TTL,            \* DEFAULT_WORKER_LEASE_TTL_MS
    MaxClock,       \* bound on the clock
    MaxLeases,      \* bound on the leases single workers take
    MaxErrors       \* bound on failing appends and unsound outcomes

ASSUME WorkSchedulerAssumption ==
    /\ IsFiniteSet(Items)
    /\ Deps \in [Items -> SUBSET Items]
    /\ Rank \in [Items -> Int]
    /\ \A i, j \in Items : Rank[i] = Rank[j] => i = j
    /\ \A i, j \in Items : <<i, j>> \in Conflicting => <<j, i>> \in Conflicting
    /\ DOMAIN Pool = Items
    /\ Admitted \in Nat \ {0}       \* min(...).max(1)
    /\ PerPool \in Nat \ {0}        \* max(1)
    /\ Driver \notin Workers
    /\ TTL \in Nat
    /\ MaxClock \in Nat /\ MaxLeases \in Nat /\ MaxErrors \in Nat

Holders == Workers \cup {Driver}

InFlight == {"Leased", "Dispatched", "Running", "ResultReceived", "Verifying",
             "Applying"}
Terminal == {"Completed", "Failed", "Cancelled"}
WorkStates == {"Ready"} \cup InFlight \cup Terminal

NoLease == [id |-> 0, holder |-> Driver, seen |-> 0]
Leases == [id : Nat, holder : Holders, seen : Nat]
Tokens == [holder : Workers, item : Items, id : Nat \ {0}]
Entries == [kind : {"transition", "heartbeat", "expired"}, to : WorkStates,
            lease : Nat, fence : Nat]

VARIABLES
    state,          \* SchedulerWorkItem.state
    lease,          \* SchedulerWorkItem.lease
    commits,        \* transitions_committed
    log,            \* the journal's events about each item, in order
    control,        \* what the control events of the run fold to
    tokens,         \* the leases single workers were given
    clock,
    stage,          \* where the dispatch call is
    batch,          \* items of the batch that is dispatched
    todo,           \* those the current stage has not finished
    path,           \* transitions still to commit for the next of todo
    outcome,        \* what the driver returned for each item
    errors          \* failing appends and unsound outcomes so far

itemVars == <<state, lease, commits, log>>
callVars == <<stage, batch, todo, path, outcome>>
vars == <<itemVars, control, tokens, clock, callVars, errors>>

Stages == {"idle", "select", "lease", "execute", "report", "fail"}
Outcomes == {"none", "ok", "failed", "missing", "other holder"}

TypeOK ==
    /\ state \in [Items -> WorkStates]
    /\ lease \in [Items -> Leases]
    /\ commits \in Nat
    /\ log \in [Items -> Seq(Entries)]
    /\ control \in [cancelled : BOOLEAN, paused : BOOLEAN]
    /\ tokens \subseteq Tokens
    /\ clock \in Nat
    /\ stage \in Stages
    /\ batch \subseteq Items
    /\ todo \subseteq batch
    /\ path \in Seq(WorkStates)
    /\ outcome \in [Items -> Outcomes]
    /\ errors \in Nat

Init ==
    /\ state = [i \in Items |-> "Ready"]
    /\ lease = [i \in Items |-> NoLease]
    /\ commits = 0
    /\ log = [i \in Items |-> <<>>]
    /\ control = [cancelled |-> FALSE, paused |-> FALSE]
    /\ tokens = {}
    /\ clock = 0
    /\ stage = "idle"
    /\ batch = {}
    /\ todo = {}
    /\ path = <<>>
    /\ outcome = [i \in Items |-> "none"]
    /\ errors = 0

------------------------------------------------------------------------------
(* Transitions                                                             *)

ValidTransition(from, to) ==
    /\ from \notin Terminal
    /\ \/ to \in {"Failed", "Cancelled"}
       \/ <<from, to>> \in {<<"Ready", "Leased">>, <<"Leased", "Dispatched">>,
                            <<"Leased", "Running">>, <<"Dispatched", "Running">>,
                            <<"Running", "ResultReceived">>,
                            <<"Running", "Completed">>,
                            <<"ResultReceived", "Verifying">>,
                            <<"Verifying", "Applying">>,
                            <<"Applying", "Completed">>}

Entry(kind, to, id, fence) ==
    [kind |-> kind, to |-> to, lease |-> id, fence |-> fence]

(* transition_with_payload: the event, then the state.  Mutant: the event  *)
(* says where the item came from.                                          *)
CommitOldState(i, to, id, fence) ==
    /\ log' = [log EXCEPT ![i] = Append(@, Entry("transition", state[i], id, fence))]
    /\ state' = [state EXCEPT ![i] = to]
    /\ commits' = commits + 1

Commit(i, to, id, fence) ==
    /\ log' = [log EXCEPT ![i] = Append(@, Entry("transition", to, id, fence))]
    /\ state' = [state EXCEPT ![i] = to]
    /\ commits' = commits + 1

(* assign_lease                                                            *)
NewLease(holder) == [id |-> commits + 1, holder |-> holder, seen |-> clock]

(* validate_lease_fence.  Mutant: any lease will do.                       *)
FenceHoldsAny(i, holder, id) == lease[i] # NoLease

FenceHolds(i, holder, id) ==
    /\ lease[i] # NoLease
    /\ lease[i].holder = holder
    /\ lease[i].id = id

(* Mutant: a dependency that failed is done, too.                          *)
ReadyItemsAfterFailure ==
    {i \in Items : state[i] = "Ready" /\ \A d \in Deps[i] : state[d] \in Terminal}

ReadyItems ==
    {i \in Items : state[i] = "Ready" /\ \A d \in Deps[i] : state[d] = "Completed"}

Unfinished == {i \in Items : state[i] \notin Terminal}

(* A stage takes the items of its batch in order.                          *)
IsNext(i) == \A j \in todo : Rank[i] <= Rank[j]

(* admit_ready_batch takes the ready items in order and skips those that   *)
(* its earlier choices exclude, until it has as many as admitted.  Mutant: *)
(* path scopes are not looked at.                                          *)
FitsAnyPath(i, chosen) ==
    /\ Cardinality(chosen) < Admitted
    /\ Pool[i] # NoPool => Cardinality({j \in chosen : Pool[j] = Pool[i]}) < PerPool

Fits(i, chosen) ==
    /\ Cardinality(chosen) < Admitted
    /\ \A j \in chosen : <<i, j>> \notin Conflicting
    /\ Pool[i] # NoPool => Cardinality({j \in chosen : Pool[j] = Pool[i]}) < PerPool

IsAdmittedBatch(B, ready) ==
    \A i \in ready : i \in B <=> Fits(i, {j \in B : Rank[j] < Rank[i]})

------------------------------------------------------------------------------
(* Calls of single workers                                                 *)

Idle == stage = "idle"

(* store.append_event fails: the call ends with its error.                 *)
AppendFails ==
    /\ errors < MaxErrors
    /\ errors' = errors + 1

LeaseReadyItem(w, i) ==
    /\ Idle
    /\ Cardinality(tokens) < MaxLeases
    /\ i \in ReadyItems
    /\ lease' = [lease EXCEPT ![i] = NewLease(w)]
    /\ \/ /\ Commit(i, "Leased", commits + 1, 0)
          /\ tokens' = tokens \cup {[holder |-> w, item |-> i, id |-> commits + 1]}
          /\ UNCHANGED errors
       \/ /\ AppendFails
          /\ UNCHANGED <<state, commits, log, tokens>>
    /\ UNCHANGED <<control, clock, callVars>>

(* transition_with_fence                                                   *)
WorkerTransition(token, to) ==
    /\ Idle
    /\ FenceHolds(token.item, token.holder, token.id)
    /\ ValidTransition(state[token.item], to)
    /\ Commit(token.item, to, token.id, token.id)
    /\ UNCHANGED <<lease, control, tokens, clock, callVars, errors>>

(* heartbeat_lease, and heartbeat_lease_with_fence, which also compares    *)
(* the lease id.  Bound: one heartbeat of a lease at a time of the clock.  *)
Heartbeat(token, fenced) ==
    LET i == token.item IN
    /\ Idle
    /\ lease[i] # NoLease
    /\ lease[i].holder = token.holder
    /\ fenced => lease[i].id = token.id
    /\ lease[i].seen # clock
    /\ lease' = [lease EXCEPT ![i].seen = clock]
    /\ log' = [log EXCEPT ![i] = Append(@, Entry("heartbeat", state[i], lease[i].id, 0))]
    /\ commits' = commits + 1
    /\ UNCHANGED <<state, control, tokens, clock, callVars, errors>>

(* Mutant: the sweep takes back the leases of items that have ended.       *)
StaleAnyState(i) ==
    /\ lease[i] # NoLease
    /\ clock > lease[i].seen + TTL

Stale(i) ==
    /\ lease[i] # NoLease
    /\ state[i] \notin Terminal
    /\ clock > lease[i].seen + TTL

(* expire_stale_leases takes the items in the order of their ids, which    *)
(* the model leaves open; an append that fails leaves the rest of them.    *)
ExpireStaleLeases ==
    /\ Idle
    /\ \E S \in SUBSET {i \in Items : Stale(i)} :
          /\ \/ S = {i \in Items : Stale(i)} /\ S # {} /\ UNCHANGED errors
             \/ S # {i \in Items : Stale(i)} /\ AppendFails
          /\ lease' = [i \in Items |-> IF i \in S THEN NoLease ELSE lease[i]]
          /\ state' = [i \in Items |-> IF i \in S THEN "Ready" ELSE state[i]]
          /\ log' = [i \in Items |->
                       IF i \in S
                       THEN Append(log[i], Entry("expired", "Ready", lease[i].id, 0))
                       ELSE log[i]]
          /\ commits' = commits + Cardinality(S)
    /\ UNCHANGED <<control, tokens, clock, callVars>>

------------------------------------------------------------------------------
(* dispatch_until_idle_with_control                                        *)

(* A cancelled run dispatches nothing: apply_cancel takes every item that  *)
(* is not terminal to Cancelled, one append after the other.               *)
DispatchCancelled ==
    /\ Idle
    /\ control.cancelled
    /\ \E S \in SUBSET Unfinished :
          /\ \/ S = Unfinished /\ S # {} /\ UNCHANGED errors
             \/ S # Unfinished /\ AppendFails
          /\ state' = [i \in Items |-> IF i \in S THEN "Cancelled" ELSE state[i]]
          /\ log' = [i \in Items |->
                       IF i \in S
                       THEN Append(log[i], Entry("transition", "Cancelled", lease[i].id, 0))
                       ELSE log[i]]
          /\ commits' = commits + Cardinality(S)
    /\ UNCHANGED <<lease, control, tokens, clock, stage, batch, todo, path, outcome>>

(* A paused run dispatches nothing either.                                 *)
DispatchStarts ==
    /\ Idle
    /\ ~control.paused /\ ~control.cancelled
    /\ stage' = "select"
    /\ UNCHANGED <<itemVars, control, tokens, clock, batch, todo, path, outcome,
                   errors>>

(* Mutant: the items of the batch are kept for the next call.              *)
ReturnKeepingTodo ==
    /\ stage' = "idle"
    /\ batch' = {} /\ path' = <<>> /\ UNCHANGED todo
    /\ outcome' = [i \in Items |-> "none"]

Return ==
    /\ stage' = "idle"
    /\ batch' = {} /\ todo' = {} /\ path' = <<>>
    /\ outcome' = [i \in Items |-> "none"]

(* dispatch_until_idle: nothing ready is the end of it, with an error when *)
(* items are left that wait for ones that failed.  Mutant: the call waits  *)
(* for those.                                                              *)
DispatchEndsFinished ==
    /\ stage = "select"
    /\ ReadyItems = {}
    /\ IF Unfinished = {} THEN Return ELSE UNCHANGED callVars
    /\ UNCHANGED <<itemVars, control, tokens, clock, errors>>

DispatchEnds ==
    /\ stage = "select"
    /\ ReadyItems = {}
    /\ Return
    /\ UNCHANGED <<itemVars, control, tokens, clock, errors>>

LeasePath == <<"Leased", "Dispatched", "Running">>

SelectBatch ==
    /\ stage = "select"
    /\ ReadyItems # {}
    /\ \E B \in SUBSET ReadyItems :
          /\ IsAdmittedBatch(B, ReadyItems)
          /\ batch' = B
          /\ todo' = B
    /\ path' = LeasePath
    /\ stage' = "lease"
    /\ UNCHANGED <<itemVars, control, tokens, clock, outcome, errors>>

------------------------------------------------------------------------------
(* dispatch_ready_batch_with_decision                                      *)

(* One transition of the next item of todo, under its lease                *)
CommitNext(i) ==
    /\ ValidTransition(state[i], Head(path))
    /\ Commit(i, Head(path), lease[i].id, lease[i].id)

NextOf(i, whenDone, restart) ==
    IF Tail(path) # <<>>
    THEN path' = Tail(path) /\ UNCHANGED <<todo, stage>>
    ELSE /\ todo' = todo \ {i}
         /\ path' = restart
         /\ stage' = IF todo = {i} THEN whenDone ELSE stage

(* assign_lease changes memory before the lease event is appended.         *)
LeaseNext(i) ==
    /\ stage = "lease"
    /\ IsNext(i)
    /\ \/ /\ Head(path) = "Leased"
          /\ ValidTransition(state[i], "Leased")
          /\ lease' = [lease EXCEPT ![i] = NewLease(Driver)]
          /\ Commit(i, "Leased", commits + 1, 0)
          /\ NextOf(i, "execute", LeasePath)
          /\ UNCHANGED <<batch, outcome, errors>>
       \/ /\ Head(path) # "Leased"
          /\ CommitNext(i)
          /\ NextOf(i, "execute", LeasePath)
          /\ UNCHANGED <<lease, batch, outcome, errors>>
       \/ /\ ValidTransition(state[i], Head(path))
          /\ AppendFails
          /\ lease' = IF Head(path) = "Leased"
                      THEN [lease EXCEPT ![i] = NewLease(Driver)] ELSE lease
          /\ Return
          /\ UNCHANGED <<state, commits, log>>
    /\ UNCHANGED <<control, tokens, clock>>

(* The path the result of an item takes.  Mutant: a result is applied and  *)
(* not completed.                                                          *)
ReportPathApplied(o) ==
    IF o = "failed" THEN <<"Failed">>
    ELSE <<"ResultReceived", "Verifying", "Applying">>

ReportPath(o) ==
    IF o = "failed" THEN <<"Failed">>
    ELSE <<"ResultReceived", "Verifying", "Applying", "Completed">>

(* driver.execute_batch returns.  An outcome for an item outside the batch *)
(* or two for one item fail the whole batch.                               *)
ExecuteBatch ==
    /\ stage = "execute"
    /\ todo' = batch
    /\ \/ /\ outcome' \in [Items -> {"ok", "failed"}]
          /\ \A i \in Items \ batch : outcome'[i] = "ok"
          /\ stage' = "report"
          /\ UNCHANGED errors
       \/ /\ AppendFails
          /\ \E i \in batch, o \in {"missing", "other holder"} :
                outcome' = [j \in Items |-> IF j = i THEN o ELSE "ok"]
          /\ stage' = "report"
       \/ /\ AppendFails
          /\ stage' = "fail"
          /\ UNCHANGED outcome
    /\ path' = <<>>
    /\ UNCHANGED <<itemVars, control, tokens, clock, batch>>

(* The outcome of the next item of todo is looked up.  None: the item and *)
(* all after it are failed.  One from another holder: its fence is refused *)
(* and the call ends.                                                      *)
ReportItem(i) ==
    /\ stage = "report"
    /\ IsNext(i)
    /\ path = <<>>
    /\ \/ /\ outcome[i] \in {"ok", "failed"}
          /\ path' = ReportPath(outcome[i])
          /\ UNCHANGED <<stage, batch, todo, outcome>>
       \/ /\ outcome[i] = "missing"
          /\ stage' = "fail"
          /\ UNCHANGED <<batch, todo, path, outcome>>
       \/ /\ outcome[i] = "other holder"
          /\ Return
    /\ UNCHANGED <<itemVars, control, tokens, clock, errors>>

ReportNext(i) ==
    /\ stage = "report"
    /\ IsNext(i)
    /\ path # <<>>
    /\ \/ /\ CommitNext(i)
          /\ NextOf(i, "select", <<>>)
          /\ UNCHANGED <<batch, outcome, errors>>
       \/ /\ AppendFails
          /\ Return
          /\ UNCHANGED <<state, commits, log>>
    /\ UNCHANGED <<lease, control, tokens, clock>>

(* A batch that was answered badly is failed item by item; an append that  *)
(* fails is ignored.                                                       *)
FailNext(i) ==
    /\ stage = "fail"
    /\ IsNext(i)
    /\ \/ /\ ValidTransition(state[i], "Failed")
          /\ Commit(i, "Failed", lease[i].id, lease[i].id)
          /\ UNCHANGED errors
       \/ AppendFails /\ UNCHANGED <<state, commits, log>>
    /\ IF todo = {i} THEN Return
       ELSE todo' = todo \ {i} /\ UNCHANGED <<stage, batch, path, outcome>>
    /\ UNCHANGED <<lease, control, tokens, clock>>

------------------------------------------------------------------------------
(* Other processes append control events.  A dispatch call reads them once *)
(* at its start, so those appended during a call may as well come after it.*)
ControlEvent ==
    /\ Idle
    /\ \/ control' = [control EXCEPT !.cancelled = TRUE]
       \/ control' = [control EXCEPT !.paused = ~@]
    /\ UNCHANGED <<itemVars, tokens, clock, callVars, errors>>

TimePasses ==
    /\ clock < MaxClock
    /\ clock' = clock + 1
    /\ UNCHANGED <<itemVars, control, tokens, callVars, errors>>

WorkerCall ==
    \/ \E w \in Workers, i \in Items : LeaseReadyItem(w, i)
    \/ \E t \in tokens, to \in {"Running", "Completed", "Failed"} : WorkerTransition(t, to)
    \/ \E t \in tokens, fenced \in BOOLEAN : Heartbeat(t, fenced)
    \/ ExpireStaleLeases

DispatchCall == DispatchCancelled \/ DispatchStarts
DispatchStep ==
    \/ DispatchEnds \/ SelectBatch \/ ExecuteBatch
    \/ \E i \in todo : LeaseNext(i) \/ ReportItem(i) \/ ReportNext(i) \/ FailNext(i)

Next == WorkerCall \/ DispatchCall \/ DispatchStep \/ ControlEvent \/ TimePasses

(* The scheduler's caller runs a dispatch call to its end, and the driver  *)
(* returns: WorkerDriver obliges it to enforce the item's timeout.         *)
Fairness == WF_vars(DispatchStep)

Spec == Init /\ [][Next]_vars
FairSpec == Spec /\ Fairness

------------------------------------------------------------------------------
Last(s) == s[Len(s)]

(* What recover_work_item_states and recover_completed_ids read from the   *)
(* journal.                                                                *)
RecoveredState(i) == IF log[i] = <<>> THEN "Ready" ELSE Last(log[i]).to
RecoveredCompleted ==
    {i \in Items : \E n \in DOMAIN log[i] :
        log[i][n].kind = "transition" /\ log[i][n].to = "Completed"}

(* The journal is enough: folding its events gives the state of every item *)
(* and the set of the completed ones, after every transition, heartbeat,   *)
(* expiry and failed append.                                               *)
LogAgrees ==
    /\ \A i \in Items : RecoveredState(i) = state[i]
    /\ RecoveredCompleted = {i \in Items : state[i] = "Completed"}

IsGrant(e) == e.kind = "transition" /\ e.to = "Leased"
EndsLease(e) == IsGrant(e) \/ e.kind = "expired"

(* The id was granted before entry n, and is neither replaced nor expired. *)
CurrentAt(l, id, n) ==
    \E g \in DOMAIN l :
        /\ g < n
        /\ IsGrant(l[g]) /\ l[g].lease = id
        /\ \A m \in DOMAIN l : g < m /\ m < n => ~EndsLease(l[m])

(* No transition is ever committed under a lease that was replaced or has  *)
(* expired: what a fenced event names is the lease the item had last been  *)
(* given, however late the worker that held an earlier one calls.          *)
FencesCurrent ==
    \A i \in Items : \A n \in DOMAIN log[i] :
        log[i][n].fence # 0 => CurrentAt(log[i], log[i][n].fence, n)

(* Nothing is dispatched or leased before what it depends on is complete,  *)
(* and a failed dependency holds its dependents back for good.             *)
DependentsWait ==
    \A i \in Items : state[i] \in InFlight \cup {"Completed"} =>
        \A d \in Deps[i] : state[d] = "Completed"

(* The items the driver is given at once are all running under its lease,  *)
(* write to disjoint paths and respect the limits of the governor.         *)
ExecutingIsSound ==
    stage = "execute" =>
        /\ Cardinality(batch) \in 1..Admitted
        /\ \A i \in batch : state[i] = "Running" /\ lease[i].holder = Driver
        /\ \A i, j \in batch : i # j => <<i, j>> \notin Conflicting
        /\ \A p \in {Pool[i] : i \in Items} \ {NoPool} :
              Cardinality({i \in batch : Pool[i] = p}) <= PerPool

(* A dispatch call that ends leaves no item of its own in flight, unless   *)
(* the journal refused an append or the driver answered for another one.   *)
NothingLeftRunning ==
    stage = "idle" /\ errors = 0 =>
        \A i \in Items : state[i] \in InFlight => lease[i].holder # Driver

(* Ended items stay ended, through sweeps, cancellations and late workers. *)
TerminalStays ==
    [][\A i \in Items : state[i] \in Terminal => state'[i] = state[i]]_vars

(* A dispatch call comes back: every round of it ends an item or the call. *)
DispatchReturns == stage # "idle" ~> stage = "idle"
==============================================================================
