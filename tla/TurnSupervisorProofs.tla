------------------------ MODULE TurnSupervisorProofs -------------------------
(***************************************************************************)
(* What TLAPS proves of TurnSupervisor, for every number of runs and       *)
(* supervisors, every lease time and every budget of faults: its typing,   *)
(* the exclusion its leases give, and that a lease which has not expired   *)
(* is changed by its holder alone.                                         *)
(***************************************************************************)
EXTENDS TurnSupervisor, SequenceTheorems, WellFoundedInduction, TLAPS

------------------------------------------------------------------------------
(* The reducer *)

(* The order of the naturals as a relation, which is well-founded.          *)
Less == {p \in Nat \X Nat : p[1] < p[2]}

(* A set of naturals that is not empty has a least element.                 *)
LEMMA MinimumExists ==
    ASSUME NEW S \in SUBSET Nat, S # {}
    PROVE  \E x \in S : \A y \in S : x <= y
<1>1. Less = OpToRel(<, Nat)
    BY Zenon DEF OpToRel, Less
<1>2. IsWellFoundedOn(Less, Nat)
    BY <1>1, NatLessThanWellFounded
<1>3. PICK x \in S : \A y \in S : ~ (<<y, x>> \in Less)
    BY <1>2, WFMin, Zenon
<1>4. \A a, b \in Nat : a < b => <<a, b>> \in Less
    BY Zenon DEF Less
<1>5. ASSUME NEW y \in S
      PROVE  x <= y
    <2>1. x \in Nat /\ y \in Nat
        OBVIOUS
    <2>2. ~ (y < x)
        BY <1>3, <1>4, <2>1, Zenon
    <2>3. QED
        BY <2>1, <2>2
<1>6. QED
    BY <1>5

(* What Earliest chooses from a set of journal positions is one of them.    *)
LEMMA EarliestExists ==
    ASSUME NEW S \in SUBSET Nat, S # {}
    PROVE  Earliest(S) \in S
BY MinimumExists DEF Earliest

(* So is what Latest chooses from positions that a journal bounds.          *)
LEMMA LatestExists ==
    ASSUME NEW n \in Nat, NEW S \in SUBSET (1..n), S # {}
    PROVE  Latest(S) \in S
<1> DEFINE Mirror == {n - i : i \in S}
<1>1. Mirror \in SUBSET Nat /\ Mirror # {}
    <2>1. \A i \in S : n - i \in Nat
        OBVIOUS
    <2>2. QED
        BY <2>1, Zenon
<1>2. PICK x \in Mirror : \A y \in Mirror : x <= y
    <2> HIDE DEF Mirror
    <2>1. QED
        BY <1>1, MinimumExists
<1>3. PICK i \in S : x = n - i
    OBVIOUS
<1>4. \A j \in S : n - i <= n - j
    BY <1>2, <1>3
<1>5. \A j \in S : i >= j
    BY <1>4
<1>6. QED
    BY <1>5 DEF Latest

(* A batch of events takes a run from a state to a state. *)
LEMMA StateAfterType ==
    ASSUME NEW events \in Seq(Events), NEW current \in RunStates
    PROVE  StateAfter(current, events) \in RunStates
<1> DEFINE terminal == Positions(events, TerminalStates)
           active == Positions(events, {"running", "paused"})
<1>1. /\ terminal \in SUBSET (1..Len(events))
      /\ active \in SUBSET (1..Len(events))
      /\ Len(events) \in Nat
    BY DEF Positions
<1>2. ASSUME terminal # {}
      PROVE  StateOf(events[Earliest(terminal)].kind) \in TerminalStates
    <2>1. terminal \in SUBSET Nat
        BY <1>1
    <2>2. Earliest(terminal) \in terminal
        BY <1>2, <2>1, EarliestExists
    <2>3. QED
        BY <2>2 DEF Positions
<1>3. ASSUME active # {}
      PROVE  StateOf(events[Latest(active)].kind) \in {"running", "paused"}
    <2>1. Latest(active) \in active
        BY <1>1, <1>3, LatestExists
    <2>2. QED
        BY <2>1 DEF Positions
<1> HIDE DEF terminal, active
<1>4. StateAfter(current, events) =
        IF current \in TerminalStates THEN current
        ELSE IF terminal # {} THEN StateOf(events[Earliest(terminal)].kind)
        ELSE IF active # {} THEN StateOf(events[Latest(active)].kind)
        ELSE current
    BY Zenon DEF StateAfter, terminal, active
<1>5. QED
    BY <1>2, <1>3, <1>4 DEF RunStates, ActiveStates, TerminalStates

(* The terminal kind of a batch is a terminal state or none.                *)
LEMMA TerminalKindType ==
    ASSUME NEW events \in Seq(Events)
    PROVE  TerminalKind(events) \in TerminalStates \cup {"none"}
<1> DEFINE terminal == Positions(events, TerminalStates)
<1>1. terminal \in SUBSET (1..Len(events)) /\ Len(events) \in Nat
    BY DEF Positions
<1>2. ASSUME terminal # {}
      PROVE  StateOf(events[Latest(terminal)].kind) \in TerminalStates
    <2>1. Latest(terminal) \in terminal
        BY <1>1, <1>2, LatestExists
    <2>2. QED
        BY <2>1 DEF Positions
<1>3. QED
    BY <1>2, Zenon DEF TerminalKind

------------------------------------------------------------------------------
(* Typing: the building blocks *)

USE DEF leaseVars, readModel, storeVars, tickVars

(* The fields an action overwrites keep the types of their records. *)
LEMMA LeaseFields ==
    /\ \A l \in Leases : [l EXCEPT !.owner = NoOwner, !.expires = NoExpiry] \in Leases
    /\ \A l \in Leases, t \in Nat : [l EXCEPT !.expires = t] \in Leases
    /\ \A l \in Leases, s \in Supervisors, t \in Nat :
           [owner |-> SupervisorId[s], expires |-> t, fence |-> l.fence + 1] \in Leases
    /\ \A l \in Leases : l.expires \in Int /\ l.fence \in Nat
<1>1. NoOwner \in Owners /\ \A s \in Supervisors : SupervisorId[s] \in Owners
    BY DEF Owners
<1>2. \A l \in Leases : [l EXCEPT !.owner = NoOwner, !.expires = NoExpiry] \in Leases
    BY <1>1 DEF Leases
<1>3. \A l \in Leases, t \in Nat : [l EXCEPT !.expires = t] \in Leases
    BY DEF Leases
<1>4. \A l \in Leases, s \in Supervisors, t \in Nat :
          [owner |-> SupervisorId[s], expires |-> t, fence |-> l.fence + 1] \in Leases
    BY <1>1 DEF Leases
<1>5. \A l \in Leases : l.expires \in Int /\ l.fence \in Nat
    BY DEF Leases, NoExpiry
<1>6. QED
    BY <1>2, <1>3, <1>4, <1>5

(* So do those of the projections and cursors.                              *)
LEMMA ProjectionFields ==
    /\ \A p \in Projections, state \in RunStates : [p EXCEPT !.state = state] \in Projections
    /\ \A state \in RunStates, n \in Nat : [state |-> state, seq |-> n] \in Projections
    /\ \A kind \in TerminalStates \cup {"none"}, n \in Nat :
           [seq |-> n, kind |-> kind] \in Cursors
    /\ {"absent", "queued", "running", "failed"} \subseteq RunStates
BY DEF Projections, Cursors, RunStates, ActiveStates, TerminalStates

(* So do those of a turn start.                                             *)
LEMMA StarterFields ==
    /\ \A x \in Starters, step \in StarterSteps : [x EXCEPT !.step = step] \in Starters
    /\ \A step \in StarterSteps, n \in Nat : [step |-> step, seq |-> n] \in Starters
BY DEF Starters

(* So do those of the lease a tick holds.                                   *)
LEMMA HeldFields ==
    /\ \A r \in Runs, n \in Nat : [run |-> r, fence |-> n] \in HeldLeases
    /\ \A h \in HeldLeases : h.run \in Runs /\ h.fence \in Nat
    /\ NoLease \in HeldLeases
BY TurnSupervisorAssumption DEF HeldLeases, NoLease, Runs

(* Whatever the projections are, a conversation has one of four statuses.   *)
LEMMA ConversationStatusType ==
    ASSUME NEW p
    PROVE  ConversationStatus(p) \in Statuses
BY Zenon DEF ConversationStatus, StatusOf, Statuses

(* A projection leaves the read model well-typed. *)
LEMMA ProjectType ==
    ASSUME TypeOK, NEW r \in Runs, NEW lo \in Nat \ {0}, NEW hi \in Nat,
           hi <= Len(journal[r]), NEW rebuild, Project(r, lo, hi, rebuild)
    PROVE  /\ proj' \in [Runs -> Projections]
           /\ cursor' \in [Runs -> Cursors]
           /\ conversation' \in Statuses
<1>1. CASE lo > hi
    BY <1>1 DEF Project, TypeOK
<1>2. CASE ~ (lo > hi)
    <2> DEFINE batch == SubSeq(journal[r], lo, hi)
               before == IF rebuild THEN "queued" ELSE proj[r].state
               last(old) == IF rebuild THEN hi ELSE Larger(old, hi)
               kind == IF cursor[r].kind # "none" /\ ~rebuild THEN cursor[r].kind
                       ELSE TerminalKind(batch)
    <2>1. journal[r] \in Seq(Events)
        BY DEF TypeOK
    <2>2. batch \in Seq(Events)
        BY <1>2, <2>1
    <2>3. proj[r] \in Projections /\ cursor[r] \in Cursors
        BY DEF TypeOK
    <2>4. before \in RunStates
        BY <2>3 DEF Projections, RunStates, ActiveStates
    <2>5. StateAfter(before, batch) \in RunStates
        BY <2>2, <2>4, StateAfterType
    <2>6. kind \in TerminalStates \cup {"none"}
        BY <2>2, <2>3, TerminalKindType DEF Cursors
    <2>7. last(proj[r].seq) \in Nat /\ last(cursor[r].seq) \in Nat
        BY <2>3 DEF Larger, Projections, Cursors
    <2>8. conversation' \in Statuses
        BY <1>2, ConversationStatusType, Zenon DEF Project, RefreshConversation
    <2>9. /\ proj' = [proj EXCEPT ![r] =
                 [state |-> StateAfter(before, batch), seq |-> last(proj[r].seq)]]
          /\ cursor' = [cursor EXCEPT ![r] = [seq |-> last(cursor[r].seq), kind |-> kind]]
        BY <1>2, <2>3 DEF Project, TypeOK
    <2> HIDE DEF batch, before, last, kind
    <2>10. QED
        BY <2>5, <2>6, <2>7, <2>8, <2>9, ProjectionFields DEF TypeOK
<1>3. QED
    BY <1>1, <1>2

(* An append lengthens one journal by one well-formed event. *)
LEMMA AppendType ==
    ASSUME TypeOK, NEW r \in Runs, NEW e \in Events, AppendEvent(r, e)
    PROVE  /\ journal' \in [Runs -> Seq(Events)]
           /\ Len(journal'[r]) = Len(journal[r]) + 1
           /\ \A q \in Runs : Len(journal'[q]) >= Len(journal[q])
           /\ UNCHANGED candidate
<1>1. journal' = [journal EXCEPT ![r] = Append(journal[r], e)] /\ UNCHANGED candidate
    BY DEF AppendEvent
<1>2. journal \in [Runs -> Seq(Events)]
    BY DEF TypeOK
<1>3. /\ Append(journal[r], e) \in Seq(Events)
      /\ Len(Append(journal[r], e)) = Len(journal[r]) + 1
    BY <1>2
<1>4. \A q \in Runs : Len(journal[q]) \in Nat
    BY <1>2
<1>5. QED
    BY <1>1, <1>2, <1>3, <1>4

(* The steps of a tick: going on, leaving, failing.                         *)
LEMMA GotoType ==
    ASSUME TypeOK, NEW s \in Supervisors, NEW step \in TickSteps, Goto(s, step)
    PROVE  pc' \in [Supervisors -> TickSteps]
BY DEF TypeOK, Goto

TickTyped ==
    /\ pc \in [Supervisors -> TickSteps]
    /\ held \in [Supervisors -> HeldLeases]
    /\ now \in [Supervisors -> Nat]
    /\ seen \in [Supervisors -> Nat]
    /\ outcome \in [Supervisors -> Outcomes]
    /\ beating \in [Supervisors -> BOOLEAN]
    /\ until \in [Supervisors -> Nat]

(* A tick that ends leaves its context well-typed.                          *)
LEMMA LeaveType ==
    ASSUME TypeOK, NEW s \in Supervisors, Leave(s)
    PROVE  TickTyped'
BY HeldFields DEF TypeOK, Leave, TickTyped, TickSteps, Outcomes

(* So does an error.                                                        *)
LEMMA FailType ==
    ASSUME TypeOK, NEW s \in Supervisors, Fail(s)
    PROVE  TickTyped'
<1>1. pc' \in [Supervisors -> TickSteps]
    BY DEF TypeOK, Fail, Goto, TickSteps
<1>2. now' \in [Supervisors -> Nat]
    BY DEF TypeOK, Fail
<1>3. QED
    BY <1>1, <1>2 DEF TypeOK, Fail, TickTyped, Outcomes

(* A message is set to one of its states.                                   *)
LEMMA SetMessageType ==
    ASSUME TypeOK, NEW r \in Runs, NEW state \in Messages, SetMessage(r, state)
    PROVE  message' \in [Runs -> Messages]
BY DEF TypeOK, SetMessage

(* A budget stays a natural number.                                         *)
LEMMA SpendType ==
    ASSUME TypeOK, NEW kind \in BudgetKinds, Spend(kind)
    PROVE  budget' \in [BudgetKinds -> Nat]
BY DEF TypeOK, Spend

(* A lease that is given back is a lease.                                   *)
LEMMA ClearLeaseType ==
    ASSUME TypeOK, NEW r \in Runs, ClearLease(r)
    PROVE  lease' \in [Runs -> Leases]
BY LeaseFields DEF TypeOK, ClearLease

(* A lease that is renewed is a lease.                                      *)
LEMMA RenewLeaseType ==
    ASSUME TypeOK, NEW s \in Supervisors, RenewLease(s)
    PROVE  /\ lease' \in [Runs -> Leases]
           /\ until' \in [Supervisors -> Nat]
<1>1. clock + TTL \in Nat
    BY TurnSupervisorAssumption DEF TypeOK
<1>2. held[s].run \in Runs
    BY HeldFields DEF TypeOK
<1>3. QED
    BY <1>1, <1>2, LeaseFields DEF TypeOK, RenewLease

(* The requests that clients build are requests.                            *)
LEMMA RequestFields ==
    /\ NoRequest \in Requests
    /\ \A q \in Requests : /\ q.run \in Runs /\ q.next \in Nat /\ q.lo \in Nat /\ q.hi \in Nat
                           /\ q.rebuild \in BOOLEAN
    /\ \A q \in Requests, n \in Nat :
           [q EXCEPT !.step = "project", !.lo = n, !.hi = n] \in Requests
    /\ \A r \in Runs, kind \in ControlKinds, n \in Nat :
           [NoRequest EXCEPT !.step = "append", !.run = r, !.kind = kind, !.next = n]
               \in Requests
    /\ \A r \in Runs, lo \in Nat, hi \in Nat, rebuild \in BOOLEAN :
           [NoRequest EXCEPT !.step = "project", !.run = r, !.lo = lo, !.hi = hi,
                             !.rebuild = rebuild] \in Requests
<1>1. NoRequest \in Requests
    BY TurnSupervisorAssumption DEF Requests, NoRequest, Runs
<1>2. \A q \in Requests : /\ q.run \in Runs /\ q.next \in Nat /\ q.lo \in Nat
                          /\ q.hi \in Nat /\ q.rebuild \in BOOLEAN
    BY DEF Requests
<1>3. \A q \in Requests, n \in Nat :
          [q EXCEPT !.step = "project", !.lo = n, !.hi = n] \in Requests
    BY DEF Requests
<1>4. \A r \in Runs, kind \in ControlKinds, n \in Nat :
          [NoRequest EXCEPT !.step = "append", !.run = r, !.kind = kind, !.next = n]
              \in Requests
    BY <1>1 DEF Requests
<1>5. \A r \in Runs, lo \in Nat, hi \in Nat, rebuild \in BOOLEAN :
          [NoRequest EXCEPT !.step = "project", !.run = r, !.lo = lo, !.hi = hi,
                            !.rebuild = rebuild] \in Requests
    BY <1>1 DEF Requests
<1>6. QED
    BY <1>1, <1>2, <1>3, <1>4, <1>5

(* The events the threads append are events.                                *)
LEMMA FixedEventTypes ==
    /\ {QueuedEvent, LeasedEvent, StartedEvent} \subseteq Events
    /\ \A s \in Supervisors : FinalEvent(s) \in Events
    /\ \A n \in Nat : /\ Event("VerificationFailed", "start-failed", n) \in Events
                      /\ Event("VerificationFailed", "supervisor-failed", n) \in Events
                      /\ Event("VerificationFailed", "root-failed", n) \in Events
                      /\ Event("VerificationFailed", "child-failed", n) \in Events
                      /\ Event("RoleWorkerFailed", "child-failed", n) \in Events
                      /\ \A kind \in ControlKinds : Event(kind, "control", n) \in Events
<1>1. ControlKinds \subseteq EventKinds
    BY TurnSupervisorAssumption DEF EventKinds
<1>2. QED
    BY <1>1 DEF QueuedEvent, LeasedEvent, StartedEvent, FinalEvent, Event, Events,
                EventKinds, Tags

(* Looking an event up and appending it preserve the types.                 *)
LEMMA LookupTypes ==
    ASSUME TypeOK, NEW s \in Supervisors, NEW step, NEW e,
           NEW present \in TickSteps, NEW absent \in TickSteps,
           Lookup(s, step, e, present, absent)
    PROVE  TypeOK'
<1>1. pc' \in [Supervisors -> TickSteps]
    BY GotoType DEF Lookup
<1>2. QED
    BY <1>1 DEF TypeOK, Lookup, ContextKept

(* So does an append, whether or not its id is taken.                       *)
LEMMA TryAppendTypes ==
    ASSUME TypeOK, NEW s \in Supervisors, NEW step, NEW e \in Events,
           NEW next \in TickSteps, TryAppend(s, step, e, next)
    PROVE  TypeOK'
<1>1. held[s].run \in Runs
    BY HeldFields DEF TypeOK
<1>2. CASE AppendEvent(held[s].run, e) /\ Goto(s, next) /\ ContextKept
    BY <1>1, <1>2, AppendType, GotoType DEF TypeOK, TryAppend, ContextKept
<1>3. CASE Fail(s) /\ UNCHANGED storeVars
    BY <1>3, FailType DEF TypeOK, TryAppend, TickTyped
<1>4. QED
    BY <1>2, <1>3 DEF TryAppend

(* Every step of the system preserves the types. *)
LEMMA TypeStep ==
    ASSUME TypeOK, BatchInJournal, OutcomeKnown, [Next]_vars
    PROVE  TypeOK'
<1> USE DEF TypeOK
<1>1. ASSUME NEW r \in Runs, AcceptTurn(r)
      PROVE  TypeOK'
    <2>1. message' \in [Runs -> Messages]
        BY <1>1, SetMessageType DEF AcceptTurn, Messages
    <2>2. starter' \in [Runs -> Starters]
        BY <1>1, StarterFields DEF AcceptTurn, StarterSteps
    <2>3. /\ proj' \in [Runs -> Projections]
          /\ cursor' \in [Runs -> Cursors]
        BY <1>1, ProjectionFields DEF AcceptTurn
    <2>4. QED
        BY <1>1, <2>1, <2>2, <2>3 DEF AcceptTurn, Statuses
<1>2. ASSUME NEW r \in Runs, BootstrapTurn(r)
      PROVE  TypeOK'
    <2>1. starter' \in [Runs -> Starters]
        BY <1>2, StarterFields DEF BootstrapTurn, StarterSteps
    <2>2. QED
        BY <1>2, <2>1 DEF BootstrapTurn
<1>3. ASSUME NEW r \in Runs, BootstrapAppend(r)
      PROVE  TypeOK'
    <2>1. starter' \in [Runs -> Starters]
        <3>1. PICK step \in {"done", "failMessage"} :
                  starter' = [starter EXCEPT ![r].step = step]
            BY <1>3, Zenon DEF BootstrapAppend
        <3>2. QED
            BY <3>1, StarterFields DEF StarterSteps
    <2>2. journal' \in [Runs -> Seq(Events)] /\ UNCHANGED candidate
        BY <1>3, AppendType, FixedEventTypes DEF BootstrapAppend
    <2>3. QED
        BY <1>3, <2>1, <2>2 DEF BootstrapAppend
<1>4. ASSUME NEW r \in Runs, StartFails(r)
      PROVE  TypeOK'
    <2>1. starter' \in [Runs -> Starters]
        BY <1>4, StarterFields DEF StartFails, StarterSteps
    <2>2. budget' \in [BudgetKinds -> Nat]
        BY <1>4, SpendType DEF StartFails, BudgetKinds
    <2>3. QED
        BY <1>4, <2>1, <2>2 DEF StartFails
<1>5. ASSUME NEW r \in Runs, StartFailMessage(r)
      PROVE  TypeOK'
    <2>1. starter' \in [Runs -> Starters]
        BY <1>5, StarterFields DEF StartFailMessage, StarterSteps
    <2>2. message' \in [Runs -> Messages]
        BY <1>5, SetMessageType DEF StartFailMessage, Messages
    <2>3. QED
        BY <1>5, <2>1, <2>2 DEF StartFailMessage
<1>6. ASSUME NEW r \in Runs, StartFailAppend(r)
      PROVE  TypeOK'
    <2>1. Len(journal[r]) + 1 \in Nat
        OBVIOUS
    <2>2. starter' \in [Runs -> Starters]
        BY <1>6, <2>1, StarterFields DEF StartFailAppend, StarterSteps
    <2>3. journal' \in [Runs -> Seq(Events)] /\ UNCHANGED candidate
        BY <1>6, AppendType, FixedEventTypes DEF StartFailAppend
    <2>4. QED
        BY <1>6, <2>2, <2>3 DEF StartFailAppend
<1>7. ASSUME NEW r \in Runs, StartFailProject(r)
      PROVE  TypeOK'
    <2> DEFINE n == starter[r].seq
    <2>1. n \in 1..Len(journal[r]) /\ Len(journal[r]) \in Nat
        BY <1>7 DEF StartFailProject, BatchInJournal
    <2> HIDE DEF TypeOK
    <2>5. n \in Nat \ {0} /\ n <= Len(journal[r])
        BY <2>1, SMT
    <2>6. Project(r, n, n, FALSE)
        BY <1>7, Zenon DEF StartFailProject
    <2>2. /\ proj' \in [Runs -> Projections]
          /\ cursor' \in [Runs -> Cursors]
          /\ conversation' \in Statuses
        <3> HIDE DEF n
        <3>1. QED
            BY <2>5, <2>6, ProjectType
    <2>3. starter' \in [Runs -> Starters]
        BY <1>7, StarterFields DEF StartFailProject, StarterSteps, TypeOK
    <2>4. QED
        BY <1>7, <2>2, <2>3 DEF StartFailProject, TypeOK
<1>8. ASSUME NEW r \in Runs, StartFailureFails(r)
      PROVE  TypeOK'
    <2>1. starter' \in [Runs -> Starters]
        BY <1>8, StarterFields DEF StartFailureFails, StarterSteps
    <2>2. budget' \in [BudgetKinds -> Nat]
        BY <1>8, SpendType DEF StartFailureFails, BudgetKinds
    <2>3. proj' \in [Runs -> Projections] /\ UNCHANGED cursor
        <3>1. \/ UNCHANGED proj
              \/ proj' = [proj EXCEPT ![r].state = "failed"]
            BY <1>8, Zenon DEF StartFailureFails, readModel
        <3>2. UNCHANGED cursor
            BY <1>8 DEF StartFailureFails
        <3>3. QED
            <4>1. [proj[r] EXCEPT !.state = "failed"] \in Projections
                BY ProjectionFields
            <4>2. QED
                BY <3>1, <3>2, <4>1
    <2>4. conversation' \in Statuses
        <3>1. UNCHANGED conversation \/ RefreshConversation
            BY <1>8, Zenon DEF StartFailureFails
        <3>2. QED
            BY <3>1, ConversationStatusType DEF RefreshConversation
    <2>5. QED
        BY <1>8, <2>1, <2>2, <2>3, <2>4 DEF StartFailureFails
<1>9. ASSUME NEW r \in Runs, StartCrash(r)
      PROVE  TypeOK'
    <2>1. starter' \in [Runs -> Starters]
        BY <1>9, StarterFields DEF StartCrash, StarterSteps
    <2>2. budget' \in [BudgetKinds -> Nat]
        BY <1>9, SpendType DEF StartCrash, BudgetKinds
    <2>3. QED
        BY <1>9, <2>1, <2>2 DEF StartCrash
<1>10. ASSUME NEW s \in Supervisors, RecoverExpired(s)
       PROVE  TypeOK'
    <2>1. lease' \in [Runs -> Leases]
        BY <1>10, LeaseFields DEF RecoverExpired
    <2>2. proj' \in [Runs -> Projections]
        BY <1>10, ProjectionFields DEF RecoverExpired
    <2>3. pc' \in [Supervisors -> TickSteps]
        BY <1>10, GotoType DEF RecoverExpired, TickSteps
    <2>4. QED
        BY <1>10, <2>1, <2>2, <2>3 DEF RecoverExpired
<1>11. ASSUME NEW s \in Supervisors, NEW r \in Runs, ClaimTurn(s, r)
       PROVE  TypeOK'
    <2>1. now[s] + TTL \in Nat
        BY TurnSupervisorAssumption
    <2>2. lease' \in [Runs -> Leases]
        BY <1>11, <2>1, LeaseFields DEF ClaimTurn
    <2>3. proj' \in [Runs -> Projections]
        BY <1>11, ProjectionFields DEF ClaimTurn
    <2>4. held' \in [Supervisors -> HeldLeases]
        <3>1. lease[r].fence + 1 \in Nat
            <4>1. lease[r] \in Leases
                OBVIOUS
            <4> HIDE DEF TypeOK
            <4>2. QED
                BY <4>1, LeaseFields
        <3>2. [run |-> r, fence |-> lease[r].fence + 1] \in HeldLeases
            BY <3>1, HeldFields
        <3>3. QED
            BY <1>11, <3>2 DEF ClaimTurn
    <2>5. pc' \in [Supervisors -> TickSteps]
        BY <1>11, GotoType DEF ClaimTurn, TickSteps
    <2>6. QED
        BY <1>11, <2>1, <2>2, <2>3, <2>4, <2>5 DEF ClaimTurn
<1>12. ASSUME NEW s \in Supervisors, ClaimNothing(s)
       PROVE  TypeOK'
    BY <1>12, LeaveType DEF ClaimNothing, TickTyped
<1>13. ASSUME NEW s \in Supervisors, ObserveRun(s)
       PROVE  TypeOK'
    <2>1. pc' \in [Supervisors -> TickSteps]
        BY <1>13, GotoType DEF ObserveRun, TickSteps
    <2>2. outcome' \in [Supervisors -> Outcomes]
        BY <1>13 DEF ObserveRun, Outcomes
    <2>3. QED
        BY <1>13, <2>1, <2>2 DEF ObserveRun
<1>14. ASSUME NEW s \in Supervisors, SkipMessage(s)
       PROVE  TypeOK'
    <2>1. pc' \in [Supervisors -> TickSteps]
        BY <1>14, GotoType DEF SkipMessage, TickSteps
    <2>2. message' \in [Runs -> Messages]
        BY <1>14, HeldFields, SetMessageType DEF SkipMessage, Messages
    <2>3. QED
        BY <1>14, <2>1, <2>2 DEF SkipMessage, ContextKept
<1>15. ASSUME NEW s \in Supervisors, ReadJournal(s)
       PROVE  TypeOK'
    <2>1. pc' \in [Supervisors -> TickSteps]
        BY <1>15, GotoType DEF ReadJournal, TickSteps
    <2>2. Len(journal[held[s].run]) \in Nat
        BY HeldFields
    <2>3. QED
        BY <1>15, <2>1, <2>2 DEF ReadJournal
<1>16. ASSUME NEW s \in Supervisors, ApplyJournal(s)
       PROVE  TypeOK'
    <2>1. pc' \in [Supervisors -> TickSteps]
        BY <1>16, GotoType DEF ApplyJournal, TickSteps
    <2>2. seen[s] \in Nat /\ seen[s] <= Len(journal[held[s].run])
        BY <1>16 DEF ApplyJournal, BatchInJournal
    <2>3. /\ proj' \in [Runs -> Projections]
          /\ cursor' \in [Runs -> Cursors]
          /\ conversation' \in Statuses
        <3>1. held[s].run \in Runs /\ Project(held[s].run, 1, seen[s], FALSE)
            BY <1>16, HeldFields DEF ApplyJournal
        <3> HIDE DEF TypeOK
        <3>2. QED
            <4> DEFINE lo == 1
            <4>1. lo \in Nat \ {0}
                OBVIOUS
            <4>2. Project(held[s].run, lo, seen[s], FALSE)
                BY <3>1, Zenon
            <4> HIDE DEF lo
            <4>3. QED
                BY <2>2, <3>1, <4>1, <4>2, ProjectType
    <2>4. QED
        BY <1>16, <2>1, <2>3 DEF ApplyJournal, ContextKept
<1>17. ASSUME NEW s \in Supervisors, AdoptCandidate(s)
       PROVE  TypeOK'
    <2>1. pc' \in [Supervisors -> TickSteps]
        BY <1>17, GotoType DEF AdoptCandidate, TickSteps
    <2>2. outcome' \in [Supervisors -> Outcomes]
        BY <1>17 DEF AdoptCandidate, Outcomes
    <2>3. QED
        BY <1>17, <2>1, <2>2 DEF AdoptCandidate
<1>18. ASSUME NEW s \in Supervisors, StartHeartbeat(s)
       PROVE  TypeOK'
    <2>1. CASE Fail(s) /\ UNCHANGED leaseVars
        BY <1>18, <2>1, FailType DEF StartHeartbeat, TickTyped
    <2>2. CASE /\ RenewLease(s)
               /\ beating' = [beating EXCEPT ![s] = TRUE]
               /\ Goto(s, "start")
               /\ UNCHANGED <<held, now, seen, outcome>>
        <3>1. pc' \in [Supervisors -> TickSteps]
            BY <2>2, GotoType DEF TickSteps
        <3>2. QED
            BY <1>18, <2>2, <3>1, RenewLeaseType DEF StartHeartbeat
    <2>3. QED
        BY <1>18, <2>1, <2>2 DEF StartHeartbeat
<1>19. ASSUME NEW s \in Supervisors, Heartbeat(s)
       PROVE  TypeOK'
    <2>1. beating' \in [Supervisors -> BOOLEAN]
        BY <1>19 DEF Heartbeat
    <2>2. lease' \in [Runs -> Leases] /\ until' \in [Supervisors -> Nat]
        BY <1>19, RenewLeaseType DEF Heartbeat
    <2>3. QED
        BY <1>19, <2>1, <2>2 DEF Heartbeat
<1>20. ASSUME NEW s \in Supervisors, EmitRunStarted(s)
       PROVE  TypeOK'
    BY <1>20, LookupTypes, TryAppendTypes, FixedEventTypes DEF EmitRunStarted, TickSteps
<1>21. ASSUME NEW s \in Supervisors, Dispatch(s)
       PROVE  TypeOK'
    BY <1>21, LookupTypes, TryAppendTypes, FixedEventTypes DEF Dispatch, TickSteps
<1>22. ASSUME NEW s \in Supervisors, ExecuteTurn(s)
       PROVE  TypeOK'
    <2>1. pc' \in [Supervisors -> TickSteps]
        BY <1>22, GotoType DEF ExecuteTurn, TickSteps
    <2>2. outcome' \in [Supervisors -> Outcomes]
        BY <1>22 DEF ExecuteTurn, Outcomes
    <2>3. journal' \in [Runs -> Seq(Events)] /\ UNCHANGED candidate
        BY <1>22, AppendType, FixedEventTypes, HeldFields DEF ExecuteTurn
    <2>4. QED
        BY <1>22, <2>1, <2>2, <2>3 DEF ExecuteTurn
<1>23. ASSUME NEW s \in Supervisors, Adjudicate(s)
       PROVE  TypeOK'
    <2>1. pc' \in [Supervisors -> TickSteps]
        BY <1>23, GotoType DEF Adjudicate, TickSteps
    <2>2. outcome' \in [Supervisors -> Outcomes]
        BY <1>23 DEF Adjudicate, Outcomes
    <2>3. candidate' \subseteq Runs
        BY <1>23, HeldFields DEF Adjudicate
    <2>4. QED
        BY <1>23, <2>1, <2>2, <2>3 DEF Adjudicate
<1>24. ASSUME NEW s \in Supervisors, EmitRunFinished(s)
       PROVE  TypeOK'
    BY <1>24, LookupTypes, TryAppendTypes, FixedEventTypes DEF EmitRunFinished, TickSteps
<1>25. ASSUME NEW s \in Supervisors, FinishMessage(s)
       PROVE  TypeOK'
    <2>1. pc' \in [Supervisors -> TickSteps]
        BY <1>25, GotoType DEF FinishMessage, TickSteps
    <2>2. (IF outcome[s] = "completed" THEN "complete" ELSE outcome[s]) \in Messages
        BY <1>25 DEF FinishMessage, OutcomeKnown, Messages, At
    <2>3. message' \in [Runs -> Messages]
        BY <1>25, <2>2, HeldFields, SetMessageType DEF FinishMessage
    <2>4. QED
        BY <1>25, <2>1, <2>3 DEF FinishMessage, ContextKept
<1>26. ASSUME NEW s \in Supervisors, FinishLease(s)
       PROVE  TypeOK'
    <2>1. TickTyped'
        BY <1>26, LeaveType, FailType DEF FinishLease
    <2>2. lease' \in [Runs -> Leases]
        BY <1>26, HeldFields, ClearLeaseType DEF FinishLease
    <2>3. UNCHANGED <<proj, cursor>> /\ conversation' \in Statuses
        BY <1>26, ConversationStatusType DEF FinishLease, RefreshConversation
    <2>4. QED
        BY <1>26, <2>1, <2>2, <2>3 DEF FinishLease, TickTyped
<1>27. ASSUME NEW s \in Supervisors, FailMessage(s)
       PROVE  TypeOK'
    <2>1. pc' \in [Supervisors -> TickSteps]
        BY <1>27, GotoType DEF FailMessage, TickSteps
    <2>2. message' \in [Runs -> Messages]
        BY <1>27, HeldFields, SetMessageType DEF FailMessage, Messages
    <2>3. QED
        BY <1>27, <2>1, <2>2 DEF FailMessage, ContextKept
<1>28. ASSUME NEW s \in Supervisors, FailAppend(s)
       PROVE  TypeOK'
    BY <1>28, TryAppendTypes, FixedEventTypes DEF FailAppend, TickSteps
<1>29. ASSUME NEW s \in Supervisors, FallbackFinish(s)
       PROVE  TypeOK'
    <2>1. TickTyped'
        BY <1>29, LeaveType DEF FallbackFinish
    <2>2. lease' \in [Runs -> Leases]
        BY <1>29, HeldFields, ClearLeaseType DEF FallbackFinish
    <2>3. "failed" \in TerminalStates
        BY DEF TerminalStates
    <2>4. proj' \in [Runs -> Projections] /\ cursor' \in [Runs -> Cursors]
        <3>1. \/ UNCHANGED <<proj, cursor>>
              \/ /\ proj' = [proj EXCEPT ![held[s].run] = [state |-> "failed", seq |-> 0]]
                 /\ cursor' = [cursor EXCEPT ![held[s].run] =
                                   [seq |-> 0, kind |-> "failed"]]
            BY <1>29 DEF FallbackFinish
        <3>2. /\ [state |-> "failed", seq |-> 0] \in Projections
              /\ [seq |-> 0, kind |-> "failed"] \in Cursors
            BY <2>3, ProjectionFields
        <3>3. held[s].run \in Runs
            BY HeldFields
        <3>4. QED
            BY <3>1, <3>2, <3>3
    <2>6. conversation' \in Statuses
        <3>1. UNCHANGED conversation \/ RefreshConversation
            BY <1>29, Zenon DEF FallbackFinish, readModel
        <3>2. QED
            BY <3>1, ConversationStatusType DEF RefreshConversation
    <2>7. QED
        BY <1>29, <2>1, <2>2, <2>4, <2>6 DEF FallbackFinish, TickTyped
<1>30. ASSUME NEW s \in Supervisors, StepFails(s)
       PROVE  TypeOK'
    <2>1. budget' \in [BudgetKinds -> Nat]
        BY <1>30, SpendType DEF StepFails, BudgetKinds
    <2>2. \/ Fail(s)
          \/ Goto(s, "failAppend") /\ ContextKept
          \/ Leave(s)
        BY <1>30, Zenon DEF StepFails
    <2>3. TickTyped'
        <3>1. CASE Goto(s, "failAppend") /\ ContextKept
            <4>1. pc' \in [Supervisors -> TickSteps]
                BY <3>1, GotoType DEF TickSteps
            <4>2. QED
                BY <3>1, <4>1 DEF ContextKept, TickTyped
        <3>2. QED
            BY <2>2, <3>1, FailType, LeaveType
    <2>4. QED
        BY <1>30, <2>1, <2>3 DEF StepFails, TickTyped
<1>31. ASSUME NEW s \in Supervisors, Crash(s)
       PROVE  TypeOK'
    <2>1. budget' \in [BudgetKinds -> Nat]
        BY <1>31, SpendType DEF Crash, BudgetKinds
    <2>2. QED
        BY <1>31, <2>1, LeaveType DEF Crash, TickTyped
<1>32. ASSUME NEW c \in Clients, RequestControl(c)
       PROVE  TypeOK'
    <2>1. budget' \in [BudgetKinds -> Nat]
        BY <1>32, SpendType DEF RequestControl, BudgetKinds
    <2>2. request' \in [Clients -> Requests]
        <3>1. PICK r \in Runs, kind \in ControlKinds :
                  request' = [request EXCEPT ![c] =
                      [NoRequest EXCEPT !.step = "append", !.run = r, !.kind = kind,
                                        !.next = Len(journal[r]) + 1]]
            BY <1>32, Zenon DEF RequestControl
        <3>2. Len(journal[r]) + 1 \in Nat
            OBVIOUS
        <3> HIDE DEF TypeOK
        <3>3. [NoRequest EXCEPT !.step = "append", !.run = r, !.kind = kind,
                                !.next = Len(journal[r]) + 1] \in Requests
            BY <3>2, RequestFields
        <3>4. QED
            BY <3>1, <3>3 DEF TypeOK
    <2>3. QED
        BY <1>32, <2>1, <2>2 DEF RequestControl
<1>33. ASSUME NEW c \in Clients, AppendControl(c)
       PROVE  TypeOK'
    <2> DEFINE r == request[c].run
    <2>1. r \in Runs /\ request[c].next \in Nat /\ request[c].kind \in ControlKinds
        BY <1>33, RequestFields DEF AppendControl, BatchInJournal
    <2>2. journal' \in [Runs -> Seq(Events)] /\ UNCHANGED candidate
        BY <1>33, <2>1, AppendType, FixedEventTypes DEF AppendControl
    <2>3. Len(journal[r]) + 1 \in Nat
        BY <2>1
    <2>4. request' \in [Clients -> Requests]
        <3>1. request[c] \in Requests
            OBVIOUS
        <3>2. \/ request' = [request EXCEPT ![c] = [request[c] EXCEPT !.step = "project",
                                 !.lo = Len(journal[r]) + 1, !.hi = Len(journal[r]) + 1]]
              \/ request' = [request EXCEPT ![c] = NoRequest]
            BY <1>33 DEF AppendControl
        <3>3. [request[c] EXCEPT !.step = "project", !.lo = Len(journal[r]) + 1,
                                 !.hi = Len(journal[r]) + 1] \in Requests
            BY <2>3, <3>1, RequestFields
        <3>4. QED
            BY <3>2, <3>3, RequestFields
    <2>5. QED
        BY <1>33, <2>2, <2>4 DEF AppendControl
<1>34. ASSUME NEW c \in Clients, Subscribe(c)
       PROVE  TypeOK'
    <2>1. budget' \in [BudgetKinds -> Nat]
        BY <1>34, SpendType DEF Subscribe, BudgetKinds
    <2>2. request' \in [Clients -> Requests]
        <3>1. PICK r \in Runs : \E since \in 0..Len(journal[r]) :
                  request' = [request EXCEPT ![c] =
                      [NoRequest EXCEPT !.step = "project", !.run = r, !.lo = since + 1,
                                 !.hi = Len(journal[r]), !.rebuild = (since = 0)]]
            BY <1>34, Zenon DEF Subscribe
        <3>5. PICK since \in 0..Len(journal[r]) :
                  request' = [request EXCEPT ![c] =
                      [NoRequest EXCEPT !.step = "project", !.run = r, !.lo = since + 1,
                                 !.hi = Len(journal[r]), !.rebuild = (since = 0)]]
            BY <3>1
        <3>2. since + 1 \in Nat /\ Len(journal[r]) \in Nat /\ (since = 0) \in BOOLEAN
            OBVIOUS
        <3> HIDE DEF TypeOK
        <3>3. [NoRequest EXCEPT !.step = "project", !.run = r, !.lo = since + 1,
                                !.hi = Len(journal[r]), !.rebuild = (since = 0)] \in Requests
            BY <3>2, RequestFields
        <3>4. QED
            BY <3>5, <3>3 DEF TypeOK
    <2>3. QED
        BY <1>34, <2>1, <2>2 DEF Subscribe
<1>35. ASSUME NEW c \in Clients, ProjectRequest(c)
       PROVE  TypeOK'
    <2> DEFINE q == request[c]
    <2>1. /\ q.lo \in Nat \ {0} /\ q.hi \in Nat
          /\ q.run \in Runs
          /\ q.hi <= Len(journal[q.run])
        <3>1. q \in Requests
            OBVIOUS
        <3>2. q.lo >= 1 /\ q.hi <= Len(journal[q.run])
            BY <1>35 DEF ProjectRequest, BatchInJournal
        <3> HIDE DEF q, TypeOK
        <3>3. QED
            <4>1. q.run \in Runs /\ q.lo \in Nat /\ q.hi \in Nat
                BY <3>1, RequestFields
            <4>2. QED
                BY <3>2, <4>1
    <2>2. /\ proj' \in [Runs -> Projections]
          /\ cursor' \in [Runs -> Cursors]
          /\ conversation' \in Statuses
        <3>1. Project(q.run, q.lo, q.hi, q.rebuild)
            BY <1>35 DEF ProjectRequest
        <3> HIDE DEF q, TypeOK
        <3>2. QED
            BY <2>1, <3>1, ProjectType
    <2>3. request' \in [Clients -> Requests]
        BY <1>35, RequestFields DEF ProjectRequest
    <2>4. QED
        BY <1>35, <2>2, <2>3 DEF ProjectRequest
<1>36. ASSUME NEW c \in Clients, RequestCrash(c)
       PROVE  TypeOK'
    <2>1. budget' \in [BudgetKinds -> Nat]
        BY <1>36, SpendType DEF RequestCrash, BudgetKinds
    <2>2. request' \in [Clients -> Requests]
        BY <1>36, RequestFields DEF RequestCrash
    <2>3. QED
        BY <1>36, <2>1, <2>2 DEF RequestCrash
<1>37. CASE ClockTick
    BY <1>37 DEF ClockTick
<1>38. CASE UNCHANGED vars
    BY <1>38 DEF vars
<1> HIDE DEF TypeOK
<1>39. QED
    BY <1>1, <1>2, <1>3, <1>4, <1>5, <1>6, <1>7, <1>8, <1>9, <1>10, <1>11, <1>12, <1>13,
       <1>14, <1>15, <1>16, <1>17, <1>18, <1>19, <1>20, <1>21, <1>22, <1>23, <1>24, <1>25,
       <1>26, <1>27, <1>28, <1>29, <1>30, <1>31, <1>32, <1>33, <1>34, <1>35, <1>36, <1>37,
       <1>38, Zenon DEF Next, TurnStart, Tick, Execute, ClientStep

------------------------------------------------------------------------------
(* Typing: the two facts about reachable states it rests on *)

(* A batch stays within its journal while the journals grow.                *)
LEMMA BatchKept ==
    ASSUME TypeOK, BatchInJournal,
           \A r \in Runs : starter'[r].step = "failProject" =>
               starter'[r] = starter[r] \/ starter'[r].seq \in 1..Len(journal'[r]),
           \A c \in Clients : \/ request'[c] = request[c]
                              \/ request'[c].step = "idle"
                              \/ /\ request'[c].step = "project"
                                 /\ request'[c].lo >= 1
                                 /\ request'[c].hi <= Len(journal'[request'[c].run]),
           \A r \in Runs : Len(journal'[r]) \in Nat /\ Len(journal'[r]) >= Len(journal[r]),
           \A t \in Supervisors : pc'[t] \in {"recoverApply", "apply"} =>
               pc'[t] = pc[t] /\ held'[t] = held[t] /\ seen'[t] = seen[t]
    PROVE  BatchInJournal'
<1>1. \A r \in Runs : Len(journal[r]) \in Nat
    BY DEF TypeOK
<1>2. ASSUME NEW r \in Runs, starter'[r].step = "failProject"
      PROVE  starter'[r].seq \in 1..Len(journal'[r])
    <2>1. CASE starter'[r] = starter[r]
        <3>1. starter[r].seq \in 1..Len(journal[r])
            BY <1>2, <2>1 DEF BatchInJournal
        <3>2. QED
            BY <1>1, <2>1, <3>1
    <2>2. QED
        BY <1>2, <2>1
<1>3. ASSUME NEW s \in Supervisors, pc'[s] \in {"recoverApply", "apply"}
      PROVE  seen'[s] <= Len(journal'[held'[s].run])
    <2>1. seen[s] \in Nat /\ held[s].run \in Runs
        BY HeldFields DEF TypeOK
    <2>2. seen[s] <= Len(journal[held[s].run])
        BY <1>3 DEF BatchInJournal
    <2>3. QED
        BY <1>1, <1>3, <2>1, <2>2
<1>4. ASSUME NEW c \in Clients, request'[c].step = "project"
      PROVE  request'[c].lo >= 1 /\ request'[c].hi <= Len(journal'[request'[c].run])
    <2>1. CASE request'[c] = request[c]
        <3>1. request[c].run \in Runs /\ request[c].hi \in Nat
            BY RequestFields DEF TypeOK
        <3>2. request[c].lo >= 1 /\ request[c].hi <= Len(journal[request[c].run])
            BY <1>4, <2>1 DEF BatchInJournal
        <3>3. QED
            BY <1>1, <2>1, <3>1, <3>2
    <2>2. QED
        BY <1>4, <2>1
<1>5. ASSUME NEW c \in Clients, request'[c].step = "append"
      PROVE  request'[c].kind \in ControlKinds
    BY <1>5 DEF BatchInJournal
<1>6. QED
    BY <1>2, <1>3, <1>4, <1>5 DEF BatchInJournal

(* An append makes no journal shorter.                                      *)
LEMMA JournalGrows ==
    ASSUME TypeOK, NEW r \in Runs, NEW e \in Events,
           AppendEvent(r, e) \/ UNCHANGED journal
    PROVE  \A q \in Runs : Len(journal'[q]) \in Nat /\ Len(journal'[q]) >= Len(journal[q])
<1>1. \A q \in Runs : Len(journal[q]) \in Nat
    BY DEF TypeOK
<1>2. CASE UNCHANGED journal
    BY <1>1, <1>2
<1>3. CASE AppendEvent(r, e)
    BY <1>1, <1>3, AppendType
<1>4. QED
    BY <1>2, <1>3

(* An append by a tick makes no batch reach past its journal.               *)
LEMMA TryAppendBatch ==
    ASSUME TypeOK, BatchInJournal, NEW s \in Supervisors, NEW step, NEW e \in Events,
           NEW next \in TickSteps \ {"recoverApply", "apply"}, TryAppend(s, step, e, next)
    PROVE  BatchInJournal'
<1>1. held[s].run \in Runs
    BY HeldFields DEF TypeOK
<1>2. AppendEvent(held[s].run, e) \/ UNCHANGED journal
    BY DEF TryAppend
<1>3. \A t \in Supervisors : pc'[t] \in {"recoverApply", "apply"} =>
          pc'[t] = pc[t] /\ held'[t] = held[t] /\ seen'[t] = seen[t]
    BY DEF TryAppend, TypeOK, Goto, ContextKept, Fail
<1>4. UNCHANGED <<starter, request>>
    BY DEF TryAppend
<1>5. QED
    BY <1>1, <1>2, <1>3, <1>4, JournalGrows, BatchKept

(* Neither does a look-up.                                                  *)
LEMMA LookupBatch ==
    ASSUME TypeOK, BatchInJournal, NEW s \in Supervisors, NEW step, NEW e,
           NEW present \in TickSteps \ {"recoverApply", "apply"},
           NEW absent \in TickSteps \ {"recoverApply", "apply"},
           Lookup(s, step, e, present, absent)
    PROVE  BatchInJournal'
<1>1. \A t \in Supervisors : pc'[t] \in {"recoverApply", "apply"} =>
          pc'[t] = pc[t] /\ held'[t] = held[t] /\ seen'[t] = seen[t]
    BY DEF Lookup, TypeOK, Goto, ContextKept
<1>2. UNCHANGED <<starter, request, journal>>
    BY DEF Lookup
<1>3. \A q \in Runs : Len(journal'[q]) \in Nat /\ Len(journal'[q]) >= Len(journal[q])
    BY <1>2 DEF TypeOK
<1>4. QED
    BY <1>1, <1>2, <1>3, BatchKept

(* Every batch that is about to be projected is in its journal. *)
LEMMA BatchStep ==
    ASSUME TypeOK, BatchInJournal, [Next]_vars
    PROVE  BatchInJournal'
<1> USE DEF At, Goto, ContextKept
<1>1. ASSUME NEW r \in Runs, AcceptTurn(r)
      PROVE  BatchInJournal'
    BY <1>1 DEF AcceptTurn, BatchInJournal, TypeOK
<1>2. ASSUME NEW r \in Runs, BootstrapTurn(r)
      PROVE  BatchInJournal'
    BY <1>2 DEF BootstrapTurn, BatchInJournal, TypeOK
<1>3. ASSUME NEW r \in Runs, BootstrapAppend(r)
      PROVE  BatchInJournal'
    <2>1. AppendEvent(r, QueuedEvent) \/ UNCHANGED journal
        BY <1>3 DEF BootstrapAppend
    <2>2. \A q \in Runs : Len(journal'[q]) \in Nat /\ Len(journal'[q]) >= Len(journal[q])
        BY <2>1, FixedEventTypes, JournalGrows
    <2>3. \A q \in Runs : starter'[q].step = "failProject" => starter'[q] = starter[q]
        BY <1>3 DEF BootstrapAppend, TypeOK, Starters
    <2>4. UNCHANGED <<pc, held, seen, request>>
        BY <1>3 DEF BootstrapAppend
    <2>5. QED
        BY <2>2, <2>3, <2>4, BatchKept
<1>4. ASSUME NEW r \in Runs, StartFails(r)
      PROVE  BatchInJournal'
    BY <1>4 DEF StartFails, BatchInJournal, TypeOK
<1>5. ASSUME NEW r \in Runs, StartFailMessage(r)
      PROVE  BatchInJournal'
    BY <1>5 DEF StartFailMessage, BatchInJournal, TypeOK
<1>6. ASSUME NEW r \in Runs, StartFailAppend(r)
      PROVE  BatchInJournal'
    <2> DEFINE e == Event("VerificationFailed", "start-failed", 0)
    <2>1. AppendEvent(r, e) /\ e \in Events
        BY <1>6, FixedEventTypes DEF StartFailAppend
    <2> HIDE DEF e
    <2>2. /\ Len(journal'[r]) = Len(journal[r]) + 1
          /\ Len(journal[r]) \in Nat
        BY <2>1, AppendType DEF TypeOK
    <2>3. \A q \in Runs : Len(journal'[q]) \in Nat /\ Len(journal'[q]) >= Len(journal[q])
        BY <2>1, JournalGrows
    <2>4. \A q \in Runs : starter'[q].step = "failProject" =>
              starter'[q] = starter[q] \/ starter'[q].seq \in 1..Len(journal'[q])
        BY <1>6, <2>2 DEF StartFailAppend, TypeOK
    <2>5. UNCHANGED <<pc, held, seen, request>>
        BY <1>6 DEF StartFailAppend
    <2>6. QED
        BY <2>2, <2>3, <2>4, <2>5, BatchKept
<1>7. ASSUME NEW r \in Runs, StartFailProject(r)
      PROVE  BatchInJournal'
    BY <1>7 DEF StartFailProject, BatchInJournal, TypeOK
<1>8. ASSUME NEW r \in Runs, StartFailureFails(r)
      PROVE  BatchInJournal'
    BY <1>8 DEF StartFailureFails, BatchInJournal, TypeOK
<1>9. ASSUME NEW r \in Runs, StartCrash(r)
      PROVE  BatchInJournal'
    BY <1>9 DEF StartCrash, BatchInJournal, TypeOK
<1>10. ASSUME NEW s \in Supervisors, RecoverExpired(s)
       PROVE  BatchInJournal'
    BY <1>10 DEF RecoverExpired, BatchInJournal, TypeOK
<1>11. ASSUME NEW s \in Supervisors, NEW r \in Runs, ClaimTurn(s, r)
       PROVE  BatchInJournal'
    BY <1>11 DEF ClaimTurn, BatchInJournal, TypeOK
<1>12. ASSUME NEW s \in Supervisors, ClaimNothing(s)
       PROVE  BatchInJournal'
    BY <1>12 DEF ClaimNothing, BatchInJournal, TypeOK, Leave
<1>13. ASSUME NEW s \in Supervisors, ObserveRun(s)
       PROVE  BatchInJournal'
    BY <1>13 DEF ObserveRun, BatchInJournal, TypeOK
<1>14. ASSUME NEW s \in Supervisors, SkipMessage(s)
       PROVE  BatchInJournal'
    BY <1>14 DEF SkipMessage, BatchInJournal, TypeOK
<1>15. ASSUME NEW s \in Supervisors, ReadJournal(s)
       PROVE  BatchInJournal'
    BY <1>15 DEF ReadJournal, BatchInJournal, TypeOK
<1>16. ASSUME NEW s \in Supervisors, ApplyJournal(s)
       PROVE  BatchInJournal'
    BY <1>16 DEF ApplyJournal, BatchInJournal, TypeOK
<1>17. ASSUME NEW s \in Supervisors, AdoptCandidate(s)
       PROVE  BatchInJournal'
    BY <1>17 DEF AdoptCandidate, BatchInJournal, TypeOK
<1>18. ASSUME NEW s \in Supervisors, StartHeartbeat(s)
       PROVE  BatchInJournal'
    <2>1. \A t \in Supervisors : pc'[t] \in {"recoverApply", "apply"} =>
              pc'[t] = pc[t] /\ held'[t] = held[t] /\ seen'[t] = seen[t]
        BY <1>18 DEF StartHeartbeat, TypeOK, Goto, Fail
    <2>2. UNCHANGED <<starter, request, journal>>
        BY <1>18 DEF StartHeartbeat
    <2>3. \A q \in Runs : Len(journal'[q]) \in Nat /\ Len(journal'[q]) >= Len(journal[q])
        BY <2>2 DEF TypeOK
    <2>4. QED
        BY <2>1, <2>2, <2>3, BatchKept
<1>19. ASSUME NEW s \in Supervisors, Heartbeat(s)
       PROVE  BatchInJournal'
    BY <1>19 DEF Heartbeat, BatchInJournal, TypeOK
<1>20. ASSUME NEW s \in Supervisors, EmitRunStarted(s)
       PROVE  BatchInJournal'
    BY <1>20, TryAppendBatch, LookupBatch, FixedEventTypes DEF EmitRunStarted, TickSteps
<1>21. ASSUME NEW s \in Supervisors, Dispatch(s)
       PROVE  BatchInJournal'
    BY <1>21, TryAppendBatch, LookupBatch, FixedEventTypes DEF Dispatch, TypeOK, TickSteps
<1>22. ASSUME NEW s \in Supervisors, ExecuteTurn(s)
       PROVE  BatchInJournal'
    <2>1. held[s].run \in Runs
        BY HeldFields DEF TypeOK
    <2>2. PICK e \in Events : AppendEvent(held[s].run, e) \/ UNCHANGED journal
        BY <1>22, FixedEventTypes DEF ExecuteTurn
    <2>3. \A q \in Runs : Len(journal'[q]) \in Nat /\ Len(journal'[q]) >= Len(journal[q])
        BY <2>1, <2>2, JournalGrows
    <2>4. \A t \in Supervisors : pc'[t] \in {"recoverApply", "apply"} =>
              pc'[t] = pc[t] /\ held'[t] = held[t] /\ seen'[t] = seen[t]
        BY <1>22 DEF ExecuteTurn, TypeOK, Goto
    <2>5. UNCHANGED <<starter, request>>
        BY <1>22 DEF ExecuteTurn
    <2>6. QED
        BY <2>3, <2>4, <2>5, BatchKept
<1>23. ASSUME NEW s \in Supervisors, Adjudicate(s)
       PROVE  BatchInJournal'
    BY <1>23 DEF Adjudicate, BatchInJournal, TypeOK
<1>24. ASSUME NEW s \in Supervisors, EmitRunFinished(s)
       PROVE  BatchInJournal'
    BY <1>24, TryAppendBatch, LookupBatch, FixedEventTypes DEF EmitRunFinished, TickSteps
<1>25. ASSUME NEW s \in Supervisors, FinishMessage(s)
       PROVE  BatchInJournal'
    BY <1>25 DEF FinishMessage, BatchInJournal, TypeOK
<1>26. ASSUME NEW s \in Supervisors, FinishLease(s)
       PROVE  BatchInJournal'
    <2>1. \A t \in Supervisors : pc'[t] \in {"recoverApply", "apply"} =>
              pc'[t] = pc[t] /\ held'[t] = held[t] /\ seen'[t] = seen[t]
        BY <1>26 DEF FinishLease, TypeOK, Goto, Fail, Leave
    <2>2. UNCHANGED <<starter, request, journal>>
        BY <1>26 DEF FinishLease
    <2>3. \A q \in Runs : Len(journal'[q]) \in Nat /\ Len(journal'[q]) >= Len(journal[q])
        BY <2>2 DEF TypeOK
    <2>4. QED
        BY <2>1, <2>2, <2>3, BatchKept
<1>27. ASSUME NEW s \in Supervisors, FailMessage(s)
       PROVE  BatchInJournal'
    BY <1>27 DEF FailMessage, BatchInJournal, TypeOK
<1>28. ASSUME NEW s \in Supervisors, FailAppend(s)
       PROVE  BatchInJournal'
    BY <1>28, TryAppendBatch, LookupBatch, FixedEventTypes DEF FailAppend, TypeOK, TickSteps
<1>29. ASSUME NEW s \in Supervisors, FallbackFinish(s)
       PROVE  BatchInJournal'
    BY <1>29 DEF FallbackFinish, BatchInJournal, TypeOK, Leave
<1>30. ASSUME NEW s \in Supervisors, StepFails(s)
       PROVE  BatchInJournal'
    <2>1. \A t \in Supervisors : pc'[t] \in {"recoverApply", "apply"} =>
              pc'[t] = pc[t] /\ held'[t] = held[t] /\ seen'[t] = seen[t]
        BY <1>30 DEF StepFails, TypeOK, Goto, ContextKept, Fail, Leave
    <2>2. UNCHANGED <<starter, request, journal>>
        BY <1>30 DEF StepFails
    <2>3. \A q \in Runs : Len(journal'[q]) \in Nat /\ Len(journal'[q]) >= Len(journal[q])
        BY <2>2 DEF TypeOK
    <2>4. QED
        BY <2>1, <2>2, <2>3, BatchKept
<1>31. ASSUME NEW s \in Supervisors, Crash(s)
       PROVE  BatchInJournal'
    BY <1>31 DEF Crash, BatchInJournal, TypeOK, Leave
<1>32. ASSUME NEW c \in Clients, RequestControl(c)
       PROVE  BatchInJournal'
    BY <1>32 DEF RequestControl, BatchInJournal, TypeOK
<1>33. ASSUME NEW c \in Clients, AppendControl(c)
       PROVE  BatchInJournal'
    <2> DEFINE r == request[c].run
               e == Event(request[c].kind, "control", request[c].next)
    <2>1. r \in Runs /\ request[c].next \in Nat
        BY RequestFields DEF TypeOK
    <2>2. e \in Events
        BY <1>33, <2>1, FixedEventTypes DEF AppendControl, BatchInJournal
    <2>3. AppendEvent(r, e) \/ UNCHANGED journal
        BY <1>33 DEF AppendControl
    <2>4. \A q \in Runs : Len(journal'[q]) \in Nat /\ Len(journal'[q]) >= Len(journal[q])
        <3> HIDE DEF r, e
        <3>1. QED
            BY <2>1, <2>2, <2>3, JournalGrows
    <2>5. UNCHANGED <<starter, pc, held, seen>>
        BY <1>33 DEF AppendControl
    <2>6. \A d \in Clients \ {c} : request'[d] = request[d]
        BY <1>33 DEF AppendControl, TypeOK
    <2>7. \/ request'[c].step = "idle"
          \/ /\ request'[c].run = r /\ request'[c].step = "project"
             /\ request'[c].lo = Len(journal[r]) + 1 /\ request'[c].hi = Len(journal[r]) + 1
             /\ Len(journal'[r]) = Len(journal[r]) + 1
        <3>1. AppendEvent(r, e) => Len(journal'[r]) = Len(journal[r]) + 1
            BY <2>1, <2>2, AppendType
        <3>2. request[c] \in Requests
            BY DEF TypeOK
        <3>3. QED
            BY <1>33, <3>1, <3>2 DEF AppendControl, TypeOK, Requests, NoRequest
    <2>8. QED
        BY <2>1, <2>4, <2>5, <2>6, <2>7, BatchKept
<1>34. ASSUME NEW c \in Clients, Subscribe(c)
       PROVE  BatchInJournal'
    BY <1>34 DEF Subscribe, BatchInJournal, TypeOK
<1>35. ASSUME NEW c \in Clients, ProjectRequest(c)
       PROVE  BatchInJournal'
    BY <1>35 DEF ProjectRequest, BatchInJournal, TypeOK, NoRequest
<1>36. ASSUME NEW c \in Clients, RequestCrash(c)
       PROVE  BatchInJournal'
    BY <1>36 DEF RequestCrash, BatchInJournal, TypeOK, NoRequest
<1>37. CASE ClockTick
    BY <1>37 DEF ClockTick, BatchInJournal
<1>38. CASE UNCHANGED vars
    BY <1>38 DEF vars, BatchInJournal
<1> HIDE DEF At, Goto, ContextKept
<1>39. QED
    BY <1>1, <1>2, <1>3, <1>4, <1>5, <1>6, <1>7, <1>8, <1>9, <1>10, <1>11,
       <1>12, <1>13, <1>14, <1>15, <1>16, <1>17, <1>18, <1>19, <1>20, <1>21,
       <1>22, <1>23, <1>24, <1>25, <1>26, <1>27, <1>28, <1>29, <1>30, <1>31,
       <1>32, <1>33, <1>34, <1>35, <1>36, <1>37, <1>38, Zenon
       DEF Next, TurnStart, Tick, Execute, ClientStep

(* A tick knows its outcome while it records it. *)
LEMMA OutcomeStep ==
    ASSUME TypeOK, OutcomeKnown, [Next]_vars
    PROVE  OutcomeKnown'
<1> USE DEF At, Goto, ContextKept, OutcomeKnown
<1>1. ASSUME NEW r \in Runs, AcceptTurn(r)
      PROVE  OutcomeKnown'
    BY <1>1 DEF AcceptTurn, TypeOK
<1>2. ASSUME NEW r \in Runs, BootstrapTurn(r)
      PROVE  OutcomeKnown'
    BY <1>2 DEF BootstrapTurn, TypeOK
<1>3. ASSUME NEW r \in Runs, BootstrapAppend(r)
      PROVE  OutcomeKnown'
    BY <1>3 DEF BootstrapAppend, TypeOK
<1>4. ASSUME NEW r \in Runs, StartFails(r)
      PROVE  OutcomeKnown'
    BY <1>4 DEF StartFails, TypeOK
<1>5. ASSUME NEW r \in Runs, StartFailMessage(r)
      PROVE  OutcomeKnown'
    BY <1>5 DEF StartFailMessage, TypeOK
<1>6. ASSUME NEW r \in Runs, StartFailAppend(r)
      PROVE  OutcomeKnown'
    BY <1>6 DEF StartFailAppend, TypeOK
<1>7. ASSUME NEW r \in Runs, StartFailProject(r)
      PROVE  OutcomeKnown'
    BY <1>7 DEF StartFailProject, TypeOK
<1>8. ASSUME NEW r \in Runs, StartFailureFails(r)
      PROVE  OutcomeKnown'
    BY <1>8 DEF StartFailureFails, TypeOK
<1>9. ASSUME NEW r \in Runs, StartCrash(r)
      PROVE  OutcomeKnown'
    BY <1>9 DEF StartCrash, TypeOK
<1>10. ASSUME NEW s \in Supervisors, RecoverExpired(s)
       PROVE  OutcomeKnown'
    BY <1>10 DEF RecoverExpired, TypeOK
<1>11. ASSUME NEW s \in Supervisors, NEW r \in Runs, ClaimTurn(s, r)
       PROVE  OutcomeKnown'
    BY <1>11 DEF ClaimTurn, TypeOK
<1>12. ASSUME NEW s \in Supervisors, ClaimNothing(s)
       PROVE  OutcomeKnown'
    BY <1>12 DEF ClaimNothing, TypeOK, Leave
<1>13. ASSUME NEW s \in Supervisors, ObserveRun(s)
       PROVE  OutcomeKnown'
    BY <1>13 DEF ObserveRun, TypeOK
<1>14. ASSUME NEW s \in Supervisors, SkipMessage(s)
       PROVE  OutcomeKnown'
    BY <1>14 DEF SkipMessage, TypeOK
<1>15. ASSUME NEW s \in Supervisors, ReadJournal(s)
       PROVE  OutcomeKnown'
    BY <1>15 DEF ReadJournal, TypeOK
<1>16. ASSUME NEW s \in Supervisors, ApplyJournal(s)
       PROVE  OutcomeKnown'
    <2>1. pc[s] = "apply" => outcome[s] # "none"
        OBVIOUS
    <2>2. outcome[s] \in Outcomes
        BY DEF TypeOK
    <2>3. QED
        BY <1>16, <2>1, <2>2 DEF ApplyJournal, TypeOK, Outcomes
<1>17. ASSUME NEW s \in Supervisors, AdoptCandidate(s)
       PROVE  OutcomeKnown'
    BY <1>17 DEF AdoptCandidate, TypeOK
<1>18. ASSUME NEW s \in Supervisors, StartHeartbeat(s)
       PROVE  OutcomeKnown'
    BY <1>18 DEF StartHeartbeat, TypeOK, Fail
<1>19. ASSUME NEW s \in Supervisors, Heartbeat(s)
       PROVE  OutcomeKnown'
    BY <1>19 DEF Heartbeat, TypeOK
<1>20. ASSUME NEW s \in Supervisors, EmitRunStarted(s)
       PROVE  OutcomeKnown'
    BY <1>20 DEF EmitRunStarted, TypeOK, Lookup, TryAppend, Fail
<1>21. ASSUME NEW s \in Supervisors, Dispatch(s)
       PROVE  OutcomeKnown'
    BY <1>21 DEF Dispatch, TypeOK, Lookup, TryAppend, Fail
<1>22. ASSUME NEW s \in Supervisors, ExecuteTurn(s)
       PROVE  OutcomeKnown'
    BY <1>22 DEF ExecuteTurn, TypeOK
<1>23. ASSUME NEW s \in Supervisors, Adjudicate(s)
       PROVE  OutcomeKnown'
    BY <1>23 DEF Adjudicate, TypeOK
<1>24. ASSUME NEW s \in Supervisors, EmitRunFinished(s)
       PROVE  OutcomeKnown'
    BY <1>24 DEF EmitRunFinished, TypeOK, Lookup, TryAppend, Fail
<1>25. ASSUME NEW s \in Supervisors, FinishMessage(s)
       PROVE  OutcomeKnown'
    BY <1>25 DEF FinishMessage, TypeOK
<1>26. ASSUME NEW s \in Supervisors, FinishLease(s)
       PROVE  OutcomeKnown'
    <2>1. Leave(s) \/ Fail(s)
        BY <1>26 DEF FinishLease
    <2>2. CASE Leave(s)
        BY <2>2 DEF Leave, TypeOK
    <2>3. CASE Fail(s)
        BY <2>3 DEF Fail, TypeOK
    <2>4. QED
        BY <2>1, <2>2, <2>3
<1>27. ASSUME NEW s \in Supervisors, FailMessage(s)
       PROVE  OutcomeKnown'
    BY <1>27 DEF FailMessage, TypeOK
<1>28. ASSUME NEW s \in Supervisors, FailAppend(s)
       PROVE  OutcomeKnown'
    BY <1>28 DEF FailAppend, TypeOK, TryAppend, Fail
<1>29. ASSUME NEW s \in Supervisors, FallbackFinish(s)
       PROVE  OutcomeKnown'
    BY <1>29 DEF FallbackFinish, TypeOK, Leave
<1>30. ASSUME NEW s \in Supervisors, StepFails(s)
       PROVE  OutcomeKnown'
    BY <1>30 DEF StepFails, TypeOK, Leave, Fail
<1>31. ASSUME NEW s \in Supervisors, Crash(s)
       PROVE  OutcomeKnown'
    BY <1>31 DEF Crash, TypeOK, Leave
<1>32. ASSUME NEW c \in Clients, RequestControl(c)
       PROVE  OutcomeKnown'
    BY <1>32 DEF RequestControl, TypeOK
<1>33. ASSUME NEW c \in Clients, AppendControl(c)
       PROVE  OutcomeKnown'
    BY <1>33 DEF AppendControl, TypeOK
<1>34. ASSUME NEW c \in Clients, Subscribe(c)
       PROVE  OutcomeKnown'
    BY <1>34 DEF Subscribe, TypeOK
<1>35. ASSUME NEW c \in Clients, ProjectRequest(c)
       PROVE  OutcomeKnown'
    BY <1>35 DEF ProjectRequest, TypeOK
<1>36. ASSUME NEW c \in Clients, RequestCrash(c)
       PROVE  OutcomeKnown'
    BY <1>36 DEF RequestCrash, TypeOK
<1>37. CASE ClockTick
    BY <1>37 DEF ClockTick
<1>38. CASE UNCHANGED vars
    BY <1>38 DEF vars
<1> HIDE DEF At, Goto, ContextKept, OutcomeKnown
<1>39. QED
    BY <1>1, <1>2, <1>3, <1>4, <1>5, <1>6, <1>7, <1>8, <1>9, <1>10, <1>11,
       <1>12, <1>13, <1>14, <1>15, <1>16, <1>17, <1>18, <1>19, <1>20, <1>21,
       <1>22, <1>23, <1>24, <1>25, <1>26, <1>27, <1>28, <1>29, <1>30, <1>31,
       <1>32, <1>33, <1>34, <1>35, <1>36, <1>37, <1>38, Zenon
       DEF Next, TurnStart, Tick, Execute, ClientStep

------------------------------------------------------------------------------
(* Typing: the theorem *)

TypeInv == TypeOK /\ BatchInJournal /\ OutcomeKnown

(* Every behaviour of the turn machinery keeps the types of its variables;  *)
(* the batches it projects are in the journal, and an execution's outcome   *)
(* is known when it is recorded.                                            *)
LEMMA TypeInvariance == Spec => []TypeInv
<1>1. Init => TypeInv
    <2> SUFFICES ASSUME Init PROVE TypeInv
        OBVIOUS
    <2>1. TypeOK
        <3>1. /\ lease \in [Runs -> Leases]
              /\ proj \in [Runs -> Projections]
              /\ cursor \in [Runs -> Cursors]
            BY DEF Init, Leases, Owners, Projections, Cursors, RunStates
        <3>2. starter \in [Runs -> Starters] /\ message \in [Runs -> Messages]
            BY DEF Init, Starters, StarterSteps, Messages
        <3>3. journal \in [Runs -> Seq(Events)]
            BY DEF Init
        <3>4. TickTyped
            BY HeldFields DEF Init, TickTyped, TickSteps, Outcomes
        <3>5. request \in [Clients -> Requests]
            BY RequestFields DEF Init
        <3>6. budget \in [BudgetKinds -> Nat]
            BY TurnSupervisorAssumption DEF Init
        <3>7. QED
            BY <3>1, <3>2, <3>3, <3>4, <3>5, <3>6 DEF Init, TypeOK, TickTyped, Statuses
    <2>2. BatchInJournal
        BY DEF Init, BatchInJournal, NoRequest
    <2>3. OutcomeKnown
        BY DEF Init, OutcomeKnown
    <2>4. QED
        BY <2>1, <2>2, <2>3 DEF TypeInv
<1>2. TypeInv /\ [Next]_vars => TypeInv'
    BY TypeStep, BatchStep, OutcomeStep DEF TypeInv
<1>3. QED
    BY <1>1, <1>2, PTL DEF Spec

(* Every variable has its type in every reachable state.                    *)
THEOREM Typing == Spec => []TypeOK
<1>1. TypeInv => TypeOK
    BY DEF TypeInv
<1>2. QED
    BY <1>1, TypeInvariance, PTL

------------------------------------------------------------------------------
(* The lease invariant *)

USE DEF Working

(* A step that leaves the clock and the leases alone, and only moves ticks  *)
(* on or ends them.                                                         *)
LeaseUntouched ==
    /\ UNCHANGED <<clock, lease>>
    /\ \A t \in Supervisors :
           /\ now'[t] <= clock
           /\ Working(t)' => Working(t) /\ held'[t] = held[t] /\ until'[t] = until[t]
           /\ beating'[t] => Working(t)'

(* A held lease is its run and its token.                                   *)
LEMMA HeldEqual ==
    ASSUME NEW h \in HeldLeases, NEW k \in HeldLeases, h.run = k.run, h.fence = k.fence
    PROVE  h = k
BY DEF HeldLeases

(* While a tick's lease stands, its run's lease columns are the tick's own. *)
LEMMA LeaseOfHolder ==
    ASSUME TypeOK, LeaseInv, NEW t \in Supervisors, Working(t), until[t] > clock
    PROVE  /\ lease[held[t].run] = [owner |-> SupervisorId[t], expires |-> until[t],
                                     fence |-> held[t].fence]
           /\ lease[held[t].run].fence = held[t].fence
           /\ lease[held[t].run].expires = until[t]
<1>1. lease[held[t].run] = [owner |-> SupervisorId[t], expires |-> until[t],
                            fence |-> held[t].fence]
    BY Zenon DEF LeaseInv, LeaseStands
<1>2. QED
    BY <1>1

(* Such a step preserves the lease invariant.                               *)
LEMMA LeaseKept ==
    ASSUME TypeOK, LeaseInv, LeaseUntouched
    PROVE  LeaseInv'
<1>1. FencesIssuedOnce'
    BY DEF LeaseInv, FencesIssuedOnce, LeaseUntouched
<1>2. LeaseStands'
    BY DEF LeaseInv, LeaseStands, LeaseUntouched
<1>3. QED
    BY <1>1, <1>2 DEF LeaseInv

(* An error is such a step.                                                 *)
LEMMA FailKeepsLease ==
    ASSUME TypeOK, LeaseInv, NEW s \in Supervisors, Working(s), Fail(s),
           UNCHANGED <<clock, lease>>
    PROVE  LeaseUntouched
<1>1. \A t \in Supervisors : now'[t] <= clock
    <2>1. \A t \in Supervisors : now[t] <= clock
        BY DEF LeaseInv, LeaseStands
    <2>2. now \in [Supervisors -> Nat] /\ clock \in Nat
        BY DEF TypeOK
    <2>3. UNCHANGED now \/ now' = [now EXCEPT ![s] = clock]
        BY Zenon DEF Fail
    <2>4. QED
        BY <2>1, <2>2, <2>3
<1>2. \A t \in Supervisors :
          /\ Working(t)' => Working(t) /\ held'[t] = held[t] /\ until'[t] = until[t]
          /\ beating'[t] => Working(t)'
    BY DEF LeaseInv, FencesIssuedOnce, Fail, Goto, TypeOK
<1>3. QED
    BY <1>1, <1>2 DEF LeaseUntouched

(* So is the end of a tick.                                                 *)
LEMMA LeaveKeepsLease ==
    ASSUME TypeOK, LeaseInv, NEW s \in Supervisors, Leave(s), UNCHANGED <<clock, lease>>
    PROVE  LeaseUntouched
<1>1. \A t \in Supervisors : now[t] <= clock /\ (beating[t] => Working(t))
    BY DEF LeaseInv, FencesIssuedOnce, LeaseStands
<1>2. \A t \in Supervisors : now'[t] <= clock
    BY <1>1 DEF Leave, TypeOK
<1>3. \A t \in Supervisors :
          /\ Working(t)' => Working(t) /\ held'[t] = held[t] /\ until'[t] = until[t]
          /\ beating'[t] => Working(t)'
    BY <1>1 DEF Leave, TypeOK
<1>4. QED
    BY <1>2, <1>3 DEF LeaseUntouched

(* A tick that goes on to another step of its work.                         *)
LEMMA GotoKeepsLease ==
    ASSUME TypeOK, LeaseInv, NEW s \in Supervisors, Working(s),
           NEW step \in TickSteps \ {"idle", "claim"}, Goto(s, step),
           UNCHANGED <<clock, lease, held, now, until, beating>>
    PROVE  LeaseUntouched
<1>1. \A t \in Supervisors : now[t] <= clock /\ (beating[t] => Working(t))
    BY DEF LeaseInv, FencesIssuedOnce, LeaseStands
<1>2. \A t \in Supervisors : Working(t)' <=> Working(t)
    BY DEF Goto, TypeOK
<1>3. QED
    BY <1>1, <1>2, Zenon DEF LeaseUntouched

(* So is looking an event up.                                               *)
LEMMA LookupKeepsLease ==
    ASSUME TypeOK, LeaseInv, NEW s \in Supervisors, NEW step \in TickSteps \ {"idle", "claim"},
           NEW e, NEW present \in TickSteps \ {"idle", "claim"},
           NEW absent \in TickSteps \ {"idle", "claim"}, Lookup(s, step, e, present, absent)
    PROVE  LeaseUntouched
<1>1. PICK next \in {present, absent} : Goto(s, next)
    BY Zenon DEF Lookup
<1>2. Working(s)
    BY DEF Lookup, At
<1>3. UNCHANGED <<clock, lease, held, now, until, beating>>
    BY DEF Lookup, ContextKept
<1>4. QED
    BY <1>1, <1>2, <1>3, GotoKeepsLease

(* So is an append.                                                         *)
LEMMA TryAppendKeepsLease ==
    ASSUME TypeOK, LeaseInv, NEW s \in Supervisors, NEW step \in TickSteps \ {"idle", "claim"},
           NEW e, NEW next \in TickSteps \ {"idle", "claim"}, TryAppend(s, step, e, next)
    PROVE  LeaseUntouched
<1>1. Working(s)
    BY DEF TryAppend, At
<1>2. UNCHANGED <<clock, lease>>
    BY DEF TryAppend
<1>3. CASE Fail(s)
    BY <1>1, <1>2, <1>3, FailKeepsLease
<1>4. CASE Goto(s, next) /\ ContextKept
    BY <1>1, <1>2, <1>4, GotoKeepsLease DEF ContextKept
<1>5. QED
    BY <1>3, <1>4 DEF TryAppend

(* The holder gives its lease back and is done.                             *)
LEMMA ClearKeepsLease ==
    ASSUME TypeOK, LeaseInv, NEW s \in Supervisors, Working(s), HoldsLease(s),
           ClearLease(held[s].run), Leave(s), UNCHANGED clock
    PROVE  LeaseInv'
<1>1. /\ held \in [Supervisors -> HeldLeases] /\ lease \in [Runs -> Leases]
      /\ clock \in Nat /\ until \in [Supervisors -> Nat] /\ now \in [Supervisors -> Nat]
      /\ \A t \in Supervisors : held[t].run \in Runs
    BY HeldFields DEF TypeOK
<1>2. \A r \in Runs : /\ lease'[r].fence = lease[r].fence
                      /\ r # held[s].run => lease'[r] = lease[r]
    BY <1>1 DEF ClearLease, Leases
<1>3. /\ \A t \in Supervisors \ {s} :
             /\ pc'[t] = pc[t] /\ held'[t] = held[t] /\ until'[t] = until[t]
             /\ now'[t] = now[t] /\ beating'[t] = beating[t]
      /\ pc'[s] = "idle" /\ beating'[s] = FALSE /\ now'[s] = 0
    BY DEF Leave, TypeOK
<1>4. FencesIssuedOnce'
    BY <1>1, <1>2, <1>3 DEF LeaseInv, FencesIssuedOnce
<1>5. ASSUME NEW t \in Supervisors \ {s}, Working(t), until[t] > clock
      PROVE  held[t].run # held[s].run
    <2>1. SUFFICES ASSUME held[t].run = held[s].run
                   PROVE  FALSE
        OBVIOUS
    <2>2. lease[held[t].run].fence = held[t].fence
        BY <1>5, LeaseOfHolder
    <2>3. held[t] = held[s]
        BY <1>1, <2>1, <2>2, HeldEqual DEF HoldsLease
    <2>4. QED
        BY <1>5, <2>3 DEF LeaseInv, FencesIssuedOnce
<1>6. LeaseStands'
    BY <1>1, <1>2, <1>3, <1>5 DEF LeaseInv, LeaseStands
<1>7. QED
    BY <1>4, <1>6 DEF LeaseInv

(* The holder extends its lease.                                            *)
LEMMA RenewKeepsLease ==
    ASSUME TypeOK, LeaseInv, NEW s \in Supervisors, Working(s), HoldsLease(s),
           RenewLease(s), pc'[s] \notin {"idle", "claim"},
           \A t \in Supervisors \ {s} : pc'[t] = pc[t] /\ beating'[t] = beating[t],
           UNCHANGED <<clock, held, now>>
    PROVE  LeaseInv'
<1>1. /\ held \in [Supervisors -> HeldLeases] /\ lease \in [Runs -> Leases]
      /\ clock \in Nat /\ until \in [Supervisors -> Nat] /\ now \in [Supervisors -> Nat]
      /\ \A t \in Supervisors : held[t].run \in Runs
    BY HeldFields DEF TypeOK
<1>2. \A r \in Runs : /\ lease'[r].fence = lease[r].fence
                      /\ r # held[s].run => lease'[r] = lease[r]
    BY <1>1 DEF RenewLease, Leases
<1>3. lease'[held[s].run] = [owner |-> SupervisorId[s], expires |-> clock + TTL,
                             fence |-> held[s].fence]
    BY <1>1 DEF RenewLease, HoldsLease, Leases
<1>4. until'[s] = clock + TTL /\ \A t \in Supervisors \ {s} : until'[t] = until[t]
    BY DEF RenewLease, TypeOK
<1>5. FencesIssuedOnce'
    BY <1>1, <1>2 DEF LeaseInv, FencesIssuedOnce
<1>6. ASSUME NEW t \in Supervisors \ {s}, Working(t), until[t] > clock
      PROVE  held[t].run # held[s].run
    <2>1. SUFFICES ASSUME held[t].run = held[s].run
                   PROVE  FALSE
        OBVIOUS
    <2>2. lease[held[t].run].fence = held[t].fence
        BY <1>6, LeaseOfHolder
    <2>3. held[t] = held[s]
        BY <1>1, <2>1, <2>2, HeldEqual DEF HoldsLease
    <2>4. QED
        BY <1>6, <2>3 DEF LeaseInv, FencesIssuedOnce
<1>7. LeaseStands'
    <2>1. \A t \in Supervisors : now'[t] <= clock'
        BY DEF LeaseInv, LeaseStands
    <2>2. ASSUME NEW t \in Supervisors, Working(t)', until'[t] > clock'
          PROVE  lease'[held'[t].run] = [owner |-> SupervisorId[t], expires |-> until'[t],
                                         fence |-> held'[t].fence]
        <3>1. CASE t = s
            BY <1>3, <1>4, <3>1
        <3>2. CASE t # s
            <4>1. Working(t) /\ until[t] > clock /\ until'[t] = until[t]
                BY <1>4, <2>2, <3>2
            <4>2. lease[held[t].run] = [owner |-> SupervisorId[t], expires |-> until[t],
                                        fence |-> held[t].fence]
                BY <4>1, LeaseOfHolder
            <4>3. held[t].run # held[s].run
                BY <1>6, <3>2, <4>1
            <4>4. QED
                BY <1>1, <1>2, <4>1, <4>2, <4>3
        <3>3. QED
            BY <3>1, <3>2
    <2>3. QED
        BY <2>1, <2>2 DEF LeaseStands
<1>8. QED
    BY <1>5, <1>7 DEF LeaseInv

(* A tick claims what is claimable.                                         *)
LEMMA TargetsAreClaimable ==
    ASSUME NEW s \in Supervisors, NEW r \in Targets(s)
    PROVE  Claimable(r, now[s])
<1> DEFINE claimable == {q \in Runs : Claimable(q, now[s])}
<1>1. claimable \in SUBSET Nat
    BY TurnSupervisorAssumption DEF Runs
<1>2. claimable # {} => Earliest(claimable) \in claimable
    <2> HIDE DEF claimable
    <2>1. QED
        BY <1>1, EarliestExists
<1>3. r \in claimable
    BY <1>2, Zenon DEF Targets
<1>4. QED
    BY <1>3

(* A claim finds no holder whose lease has not expired.                     *)
LEMMA ClaimKeepsLease ==
    ASSUME TypeOK, LeaseInv, NEW s \in Supervisors, NEW r \in Runs, ClaimTurn(s, r)
    PROVE  LeaseInv'
<1> DEFINE token == lease[r].fence + 1
<1>1. /\ held \in [Supervisors -> HeldLeases] /\ lease \in [Runs -> Leases]
      /\ clock \in Nat /\ until \in [Supervisors -> Nat] /\ now \in [Supervisors -> Nat]
      /\ \A t \in Supervisors : held[t].run \in Runs /\ held[t].fence \in Nat
      /\ lease[r].fence \in Nat /\ lease[r].expires \in Int /\ TTL \in Nat
    BY HeldFields, LeaseFields, TurnSupervisorAssumption DEF TypeOK
<1>2. /\ lease'[r] = [owner |-> SupervisorId[s], expires |-> now[s] + TTL, fence |-> token]
      /\ \A q \in Runs \ {r} : lease'[q] = lease[q]
      /\ held'[s] = [run |-> r, fence |-> token] /\ until'[s] = now[s] + TTL
      /\ now'[s] = 0 /\ pc'[s] = "observe" /\ pc[s] = "claim"
      /\ \A t \in Supervisors \ {s} :
             /\ pc'[t] = pc[t] /\ held'[t] = held[t] /\ until'[t] = until[t]
             /\ now'[t] = now[t]
      /\ UNCHANGED <<clock, beating>>
    BY <1>1 DEF ClaimTurn, At, Goto, TypeOK
<1>3. lease[r].expires = NoExpiry \/ lease[r].expires <= now[s]
    BY TargetsAreClaimable DEF ClaimTurn, Claimable
<1>4. FencesIssuedOnce'
    <2>1. ASSUME NEW t \in Supervisors, Working(t)'
          PROVE  held'[t].fence <= lease'[held'[t].run].fence
        <3>1. CASE t = s
            <4>1. held'[t].fence = token /\ lease'[held'[t].run].fence = token
                BY <1>2, <3>1
            <4>2. QED
                BY <1>1, <4>1
        <3>2. CASE t # s
            <4>1. held[t].fence <= lease[held[t].run].fence
                BY <1>2, <2>1, <3>2 DEF LeaseInv, FencesIssuedOnce
            <4>2. QED
                BY <1>1, <1>2, <3>2, <4>1
        <3>3. QED
            BY <3>1, <3>2
    <2>2. ASSUME NEW t \in Supervisors \ {s}, Working(t)'
          PROVE  held'[t] # held'[s]
        <3>1. held[t].fence <= lease[held[t].run].fence
            BY <1>2, <2>2 DEF LeaseInv, FencesIssuedOnce
        <3>2. held[t].run = r => held[t].fence < token
            BY <1>1, <3>1
        <3>3. QED
            BY <1>1, <1>2, <3>2
    <2>3. ASSUME NEW t \in Supervisors, NEW u \in Supervisors,
                 Working(t)', Working(u)', held'[t] = held'[u]
          PROVE  t = u
        <3>1. CASE t # s /\ u # s
            BY <1>2, <2>3, <3>1 DEF LeaseInv, FencesIssuedOnce
        <3>2. QED
            BY <2>2, <2>3, <3>1
    <2>4. ASSUME NEW t \in Supervisors, beating'[t]
          PROVE  Working(t)'
        BY <1>2, <2>4 DEF LeaseInv, FencesIssuedOnce
    <2>5. QED
        BY <2>1, <2>3, <2>4, Zenon DEF FencesIssuedOnce
<1>5. LeaseStands'
    <2>1. ASSUME NEW t \in Supervisors
          PROVE  now'[t] <= clock'
        <3>1. now[t] <= clock
            BY DEF LeaseInv, LeaseStands
        <3>2. QED
            BY <1>1, <1>2, <3>1
    <2>2. ASSUME NEW t \in Supervisors, Working(t)', until'[t] > clock'
          PROVE  lease'[held'[t].run] = [owner |-> SupervisorId[t], expires |-> until'[t],
                                         fence |-> held'[t].fence]
        <3>1. CASE t = s
            BY <1>2, <3>1
        <3>2. CASE t # s
            <4>1. Working(t) /\ until[t] > clock
                BY <1>2, <2>2, <3>2
            <4>2. /\ lease[held[t].run] = [owner |-> SupervisorId[t], expires |-> until[t],
                                           fence |-> held[t].fence]
                  /\ lease[held[t].run].expires = until[t]
                BY <4>1, LeaseOfHolder
            <4>3. held[t].run # r
                <5>1. now[s] <= clock
                    BY DEF LeaseInv, LeaseStands
                <5>2. ~ (lease[r].expires = NoExpiry) => lease[r].expires <= clock
                    BY <1>1, <1>3, <5>1
                <5>3. lease[r].expires <= clock
                    BY <1>1, <5>2 DEF NoExpiry
                <5>4. QED
                    BY <1>1, <4>1, <4>2, <5>3
            <4>4. QED
                BY <1>1, <1>2, <3>2, <4>2, <4>3
        <3>3. QED
            BY <3>1, <3>2
    <2>3. QED
        BY <2>1, <2>2 DEF LeaseStands
<1>6. QED
    BY <1>4, <1>5 DEF LeaseInv

(* The recovery at the start of a tick clears no lease that still stands.   *)
LEMMA RecoverKeepsLease ==
    ASSUME TypeOK, LeaseInv, NEW s \in Supervisors, RecoverExpired(s)
    PROVE  LeaseInv'
<1>1. /\ held \in [Supervisors -> HeldLeases] /\ lease \in [Runs -> Leases]
      /\ clock \in Nat /\ until \in [Supervisors -> Nat] /\ now \in [Supervisors -> Nat]
      /\ \A t \in Supervisors : held[t].run \in Runs
    BY HeldFields DEF TypeOK
<1>2. \A r \in Runs : /\ lease'[r].fence = lease[r].fence
                      /\ lease[r].expires > clock => lease'[r] = lease[r]
    <2>1. ASSUME NEW r \in Runs
          PROVE  /\ lease'[r].fence = lease[r].fence
                 /\ lease[r].expires > clock => lease'[r] = lease[r]
        <3>1. \/ lease'[r] = lease[r]
              \/ /\ lease[r].expires <= clock
                 /\ lease'[r] = [lease[r] EXCEPT !.owner = NoOwner, !.expires = NoExpiry]
            BY DEF RecoverExpired, Expired
        <3>2. lease[r] \in Leases /\ lease[r].expires \in Int
            BY <1>1, LeaseFields
        <3>3. [lease[r] EXCEPT !.owner = NoOwner, !.expires = NoExpiry].fence = lease[r].fence
            BY <3>2 DEF Leases
        <3>4. ~ (lease[r].expires <= clock /\ lease[r].expires > clock)
            BY <1>1, <3>2
        <3>5. QED
            BY <3>1, <3>3, <3>4
    <2>2. QED
        BY <2>1
<1>3. /\ \A t \in Supervisors : Working(t)' <=> Working(t)
      /\ \A t \in Supervisors : now'[t] = now[t] \/ now'[t] = clock
      /\ UNCHANGED <<clock, held, until, beating>>
    BY <1>1 DEF RecoverExpired, At, Goto, TypeOK
<1>4. FencesIssuedOnce'
    BY <1>1, <1>2, <1>3 DEF LeaseInv, FencesIssuedOnce
<1>5. LeaseStands'
    <2>1. ASSUME NEW t \in Supervisors
          PROVE  now'[t] <= clock'
        <3>1. now[t] <= clock
            BY DEF LeaseInv, LeaseStands
        <3>2. QED
            BY <1>1, <1>3, <3>1
    <2>2. ASSUME NEW t \in Supervisors, Working(t)', until'[t] > clock'
          PROVE  lease'[held'[t].run] = [owner |-> SupervisorId[t], expires |-> until'[t],
                                         fence |-> held'[t].fence]
        <3>1. Working(t) /\ until[t] > clock
            BY <1>3, <2>2
        <3>2. /\ lease[held[t].run] = [owner |-> SupervisorId[t], expires |-> until[t],
                                       fence |-> held[t].fence]
              /\ lease[held[t].run].expires > clock
            BY <3>1, LeaseOfHolder
        <3>3. QED
            BY <1>1, <1>2, <1>3, <3>2
    <2>3. QED
        BY <2>1, <2>2 DEF LeaseStands
<1>6. QED
    BY <1>4, <1>5 DEF LeaseInv

(* A step that no lease depends on preserves the lease invariant.           *)
LEMMA LeaseFrame ==
    ASSUME LeaseInv, UNCHANGED <<clock, lease, pc, held, now, until, beating>>
    PROVE  LeaseInv'
BY DEF LeaseInv, FencesIssuedOnce, LeaseStands

(* Time only ends leases.                                                   *)
LEMMA ClockKeepsLease ==
    ASSUME TypeOK, LeaseInv, ClockTick
    PROVE  LeaseInv'
<1>1. /\ clock \in Nat /\ until \in [Supervisors -> Nat] /\ now \in [Supervisors -> Nat]
      /\ clock' = clock + 1 /\ UNCHANGED <<lease, pc, held, now, until, beating>>
    BY DEF TypeOK, ClockTick
<1>2. FencesIssuedOnce'
    BY <1>1 DEF LeaseInv, FencesIssuedOnce
<1>3. ASSUME NEW t \in Supervisors
      PROVE  now'[t] <= clock'
    <2>1. now[t] <= clock
        BY DEF LeaseInv, LeaseStands
    <2>2. QED
        BY <1>1, <2>1
<1>4. ASSUME NEW t \in Supervisors, Working(t)', until'[t] > clock'
      PROVE  lease'[held'[t].run] = [owner |-> SupervisorId[t], expires |-> until'[t],
                                     fence |-> held'[t].fence]
    <2>1. Working(t) /\ until[t] > clock
        BY <1>1, <1>4
    <2>2. QED
        BY <1>1, <2>1, LeaseOfHolder
<1>5. LeaseStands'
    BY <1>3, <1>4 DEF LeaseStands
<1>6. QED
    BY <1>2, <1>5 DEF LeaseInv

(* Every step of the system preserves the lease invariant.                  *)
LEMMA LeaseStep ==
    ASSUME TypeOK, LeaseInv, [Next]_vars
    PROVE  LeaseInv'
<1>1. ASSUME NEW r \in Runs, AcceptTurn(r)
      PROVE  LeaseInv'
    <2>1. UNCHANGED <<clock, lease, pc, held, now, until, beating>>
        BY <1>1 DEF AcceptTurn
    <2>2. QED
        BY <2>1, LeaseFrame
<1>2. ASSUME NEW r \in Runs, BootstrapTurn(r)
      PROVE  LeaseInv'
    <2>1. UNCHANGED <<clock, lease, pc, held, now, until, beating>>
        BY <1>2 DEF BootstrapTurn
    <2>2. QED
        BY <2>1, LeaseFrame
<1>3. ASSUME NEW r \in Runs, BootstrapAppend(r)
      PROVE  LeaseInv'
    <2>1. UNCHANGED <<clock, lease, pc, held, now, until, beating>>
        BY <1>3 DEF BootstrapAppend
    <2>2. QED
        BY <2>1, LeaseFrame
<1>4. ASSUME NEW r \in Runs, StartFails(r)
      PROVE  LeaseInv'
    <2>1. UNCHANGED <<clock, lease, pc, held, now, until, beating>>
        BY <1>4 DEF StartFails
    <2>2. QED
        BY <2>1, LeaseFrame
<1>5. ASSUME NEW r \in Runs, StartFailMessage(r)
      PROVE  LeaseInv'
    <2>1. UNCHANGED <<clock, lease, pc, held, now, until, beating>>
        BY <1>5 DEF StartFailMessage
    <2>2. QED
        BY <2>1, LeaseFrame
<1>6. ASSUME NEW r \in Runs, StartFailAppend(r)
      PROVE  LeaseInv'
    <2>1. UNCHANGED <<clock, lease, pc, held, now, until, beating>>
        BY <1>6 DEF StartFailAppend
    <2>2. QED
        BY <2>1, LeaseFrame
<1>7. ASSUME NEW r \in Runs, StartFailProject(r)
      PROVE  LeaseInv'
    <2>1. UNCHANGED <<clock, lease, pc, held, now, until, beating>>
        BY <1>7 DEF StartFailProject
    <2>2. QED
        BY <2>1, LeaseFrame
<1>8. ASSUME NEW r \in Runs, StartFailureFails(r)
      PROVE  LeaseInv'
    <2>1. UNCHANGED <<clock, lease, pc, held, now, until, beating>>
        BY <1>8 DEF StartFailureFails
    <2>2. QED
        BY <2>1, LeaseFrame
<1>9. ASSUME NEW r \in Runs, StartCrash(r)
      PROVE  LeaseInv'
    <2>1. UNCHANGED <<clock, lease, pc, held, now, until, beating>>
        BY <1>9 DEF StartCrash
    <2>2. QED
        BY <2>1, LeaseFrame
<1>10. ASSUME NEW s \in Supervisors, RecoverExpired(s)
       PROVE  LeaseInv'
    BY <1>10, RecoverKeepsLease
<1>11. ASSUME NEW s \in Supervisors, NEW r \in Runs, ClaimTurn(s, r)
       PROVE  LeaseInv'
    BY <1>11, ClaimKeepsLease
<1>12. ASSUME NEW s \in Supervisors, ClaimNothing(s)
       PROVE  LeaseInv'
    BY <1>12, LeaveKeepsLease, LeaseKept DEF ClaimNothing
<1>13. ASSUME NEW s \in Supervisors, ObserveRun(s)
       PROVE  LeaseInv'
    <2>1. Working(s) /\ UNCHANGED <<clock, lease, held, now, until, beating>>
        BY <1>13 DEF ObserveRun, At, ContextKept
    <2>2. PICK step \in {"skip", "recover", "heartbeat"} : Goto(s, step)
        BY <1>13, Zenon DEF ObserveRun
    <2>3. step \in TickSteps \ {"idle", "claim"}
        BY DEF TickSteps
    <2>4. QED
        BY <2>1, <2>2, <2>3, GotoKeepsLease, LeaseKept
<1>14. ASSUME NEW s \in Supervisors, SkipMessage(s)
       PROVE  LeaseInv'
    <2>1. Working(s) /\ UNCHANGED <<clock, lease, held, now, until, beating>>
        BY <1>14 DEF SkipMessage, At, ContextKept
    <2>2. PICK step \in {"read"} : Goto(s, step)
        BY <1>14, Zenon DEF SkipMessage
    <2>3. step \in TickSteps \ {"idle", "claim"}
        BY DEF TickSteps
    <2>4. QED
        BY <2>1, <2>2, <2>3, GotoKeepsLease, LeaseKept
<1>15. ASSUME NEW s \in Supervisors, ReadJournal(s)
       PROVE  LeaseInv'
    <2>1. Working(s) /\ UNCHANGED <<clock, lease, held, now, until, beating>>
        BY <1>15 DEF ReadJournal, At, ContextKept
    <2>2. PICK step \in {"recoverApply", "apply"} : Goto(s, step)
        BY <1>15, Zenon DEF ReadJournal
    <2>3. step \in TickSteps \ {"idle", "claim"}
        BY DEF TickSteps
    <2>4. QED
        BY <2>1, <2>2, <2>3, GotoKeepsLease, LeaseKept
<1>16. ASSUME NEW s \in Supervisors, ApplyJournal(s)
       PROVE  LeaseInv'
    <2>1. Working(s) /\ UNCHANGED <<clock, lease, held, now, until, beating>>
        BY <1>16 DEF ApplyJournal, At, ContextKept
    <2>2. PICK step \in {"recovered", "finish", "message"} : Goto(s, step)
        BY <1>16, Zenon DEF ApplyJournal
    <2>3. step \in TickSteps \ {"idle", "claim"}
        BY DEF TickSteps
    <2>4. QED
        BY <2>1, <2>2, <2>3, GotoKeepsLease, LeaseKept
<1>17. ASSUME NEW s \in Supervisors, AdoptCandidate(s)
       PROVE  LeaseInv'
    <2>1. Working(s) /\ UNCHANGED <<clock, lease, held, now, until, beating>>
        BY <1>17 DEF AdoptCandidate, At, ContextKept
    <2>2. PICK step \in {"read", "heartbeat"} : Goto(s, step)
        BY <1>17, Zenon DEF AdoptCandidate
    <2>3. step \in TickSteps \ {"idle", "claim"}
        BY DEF TickSteps
    <2>4. QED
        BY <2>1, <2>2, <2>3, GotoKeepsLease, LeaseKept
<1>18. ASSUME NEW s \in Supervisors, StartHeartbeat(s)
       PROVE  LeaseInv'
    <2>1. Working(s) /\ UNCHANGED clock
        BY <1>18 DEF StartHeartbeat, At
    <2>2. CASE Renewable(s)
        <3>1. RenewLease(s) /\ HoldsLease(s) /\ UNCHANGED <<held, now>>
            BY <1>18, <2>2 DEF StartHeartbeat, Renewable
        <3>2. /\ pc'[s] = "start"
              /\ \A t \in Supervisors \ {s} : pc'[t] = pc[t] /\ beating'[t] = beating[t]
            BY <1>18, <2>2 DEF StartHeartbeat, Goto, TypeOK
        <3>3. QED
            BY <2>1, <3>1, <3>2, RenewKeepsLease
    <2>3. CASE ~ Renewable(s)
        <3>1. Fail(s) /\ UNCHANGED lease
            BY <1>18, <2>3 DEF StartHeartbeat
        <3>2. QED
            BY <2>1, <3>1, FailKeepsLease, LeaseKept
    <2>4. QED
        BY <2>2, <2>3
<1>19. ASSUME NEW s \in Supervisors, Heartbeat(s)
       PROVE  LeaseInv'
    <2>1. Working(s)
        BY <1>19 DEF Heartbeat, LeaseInv, FencesIssuedOnce
    <2>2. UNCHANGED <<clock, pc, held, now>>
        BY <1>19 DEF Heartbeat
    <2>3. CASE RenewLease(s) /\ Renewable(s) /\ UNCHANGED beating
        BY <2>1, <2>2, <2>3, RenewKeepsLease DEF Renewable
    <2>4. CASE beating' = [beating EXCEPT ![s] = FALSE] /\ UNCHANGED <<leaseVars, until>>
        BY <2>2, <2>4 DEF LeaseInv, FencesIssuedOnce, LeaseStands, TypeOK
    <2>5. QED
        BY <1>19, <2>3, <2>4 DEF Heartbeat
<1>20. ASSUME NEW s \in Supervisors, EmitRunStarted(s)
       PROVE  LeaseInv'
    BY <1>20, LookupKeepsLease, TryAppendKeepsLease, LeaseKept DEF EmitRunStarted, TickSteps
<1>21. ASSUME NEW s \in Supervisors, Dispatch(s)
       PROVE  LeaseInv'
    BY <1>21, LookupKeepsLease, TryAppendKeepsLease, LeaseKept DEF Dispatch, TickSteps
<1>22. ASSUME NEW s \in Supervisors, ExecuteTurn(s)
       PROVE  LeaseInv'
    <2>1. Working(s) /\ UNCHANGED <<clock, lease, held, now, until, beating>>
        BY <1>22 DEF ExecuteTurn, At, ContextKept
    <2>2. PICK step \in {"adjudicate"} : Goto(s, step)
        BY <1>22, Zenon DEF ExecuteTurn
    <2>3. step \in TickSteps \ {"idle", "claim"}
        BY DEF TickSteps
    <2>4. QED
        BY <2>1, <2>2, <2>3, GotoKeepsLease, LeaseKept
<1>23. ASSUME NEW s \in Supervisors, Adjudicate(s)
       PROVE  LeaseInv'
    <2>1. Working(s) /\ UNCHANGED <<clock, lease, held, now, until, beating>>
        BY <1>23 DEF Adjudicate, At, ContextKept
    <2>2. PICK step \in {"read", "emit"} : Goto(s, step)
        BY <1>23, Zenon DEF Adjudicate
    <2>3. step \in TickSteps \ {"idle", "claim"}
        BY DEF TickSteps
    <2>4. QED
        BY <2>1, <2>2, <2>3, GotoKeepsLease, LeaseKept
<1>24. ASSUME NEW s \in Supervisors, EmitRunFinished(s)
       PROVE  LeaseInv'
    BY <1>24, LookupKeepsLease, TryAppendKeepsLease, LeaseKept DEF EmitRunFinished, TickSteps
<1>25. ASSUME NEW s \in Supervisors, FinishMessage(s)
       PROVE  LeaseInv'
    <2>1. Working(s) /\ UNCHANGED <<clock, lease, held, now, until, beating>>
        BY <1>25 DEF FinishMessage, At, ContextKept
    <2>2. PICK step \in {"finish"} : Goto(s, step)
        BY <1>25, Zenon DEF FinishMessage
    <2>3. step \in TickSteps \ {"idle", "claim"}
        BY DEF TickSteps
    <2>4. QED
        BY <2>1, <2>2, <2>3, GotoKeepsLease, LeaseKept
<1>26. ASSUME NEW s \in Supervisors, FinishLease(s)
       PROVE  LeaseInv'
    <2>1. Working(s) /\ UNCHANGED clock
        BY <1>26 DEF FinishLease, At
    <2>2. CASE HoldsLease(s) /\ ClearLease(held[s].run) /\ Leave(s)
        BY <2>1, <2>2, ClearKeepsLease
    <2>3. CASE Fail(s) /\ UNCHANGED lease
        BY <2>1, <2>3, FailKeepsLease, LeaseKept
    <2>4. QED
        BY <1>26, <2>2, <2>3 DEF FinishLease
<1>27. ASSUME NEW s \in Supervisors, FailMessage(s)
       PROVE  LeaseInv'
    <2>1. Working(s) /\ UNCHANGED <<clock, lease, held, now, until, beating>>
        BY <1>27 DEF FailMessage, At, ContextKept
    <2>2. PICK step \in {"failAppend"} : Goto(s, step)
        BY <1>27, Zenon DEF FailMessage
    <2>3. step \in TickSteps \ {"idle", "claim"}
        BY DEF TickSteps
    <2>4. QED
        BY <2>1, <2>2, <2>3, GotoKeepsLease, LeaseKept
<1>28. ASSUME NEW s \in Supervisors, FailAppend(s)
       PROVE  LeaseInv'
    BY <1>28, LookupKeepsLease, TryAppendKeepsLease, LeaseKept DEF FailAppend, TickSteps
<1>29. ASSUME NEW s \in Supervisors, FallbackFinish(s)
       PROVE  LeaseInv'
    <2>1. Working(s) /\ UNCHANGED clock /\ Leave(s)
        BY <1>29 DEF FallbackFinish, At
    <2>2. CASE HoldsLease(s) /\ ClearLease(held[s].run)
        BY <2>1, <2>2, ClearKeepsLease
    <2>3. CASE UNCHANGED lease
        BY <2>1, <2>3, LeaveKeepsLease, LeaseKept
    <2>4. QED
        BY <1>29, <2>2, <2>3 DEF FallbackFinish
<1>30. ASSUME NEW s \in Supervisors, StepFails(s)
       PROVE  LeaseInv'
    <2>1. Working(s) /\ UNCHANGED <<clock, lease>>
        BY <1>30 DEF StepFails
    <2>2. \/ Fail(s)
          \/ Goto(s, "failAppend") /\ ContextKept
          \/ Leave(s)
        BY <1>30, Zenon DEF StepFails
    <2>3. CASE Goto(s, "failAppend") /\ ContextKept
        BY <2>1, <2>3, GotoKeepsLease, LeaseKept DEF TickSteps, ContextKept
    <2>4. QED
        BY <2>1, <2>2, <2>3, FailKeepsLease, LeaveKeepsLease, LeaseKept
<1>31. ASSUME NEW s \in Supervisors, Crash(s)
       PROVE  LeaseInv'
    BY <1>31, LeaveKeepsLease, LeaseKept DEF Crash
<1>32. ASSUME NEW c \in Clients, RequestControl(c)
       PROVE  LeaseInv'
    <2>1. UNCHANGED <<clock, lease, pc, held, now, until, beating>>
        BY <1>32 DEF RequestControl
    <2>2. QED
        BY <2>1, LeaseFrame
<1>33. ASSUME NEW c \in Clients, AppendControl(c)
       PROVE  LeaseInv'
    <2>1. UNCHANGED <<clock, lease, pc, held, now, until, beating>>
        BY <1>33 DEF AppendControl
    <2>2. QED
        BY <2>1, LeaseFrame
<1>34. ASSUME NEW c \in Clients, Subscribe(c)
       PROVE  LeaseInv'
    <2>1. UNCHANGED <<clock, lease, pc, held, now, until, beating>>
        BY <1>34 DEF Subscribe
    <2>2. QED
        BY <2>1, LeaseFrame
<1>35. ASSUME NEW c \in Clients, ProjectRequest(c)
       PROVE  LeaseInv'
    <2>1. UNCHANGED <<clock, lease, pc, held, now, until, beating>>
        BY <1>35 DEF ProjectRequest
    <2>2. QED
        BY <2>1, LeaseFrame
<1>36. ASSUME NEW c \in Clients, RequestCrash(c)
       PROVE  LeaseInv'
    <2>1. UNCHANGED <<clock, lease, pc, held, now, until, beating>>
        BY <1>36 DEF RequestCrash
    <2>2. QED
        BY <2>1, LeaseFrame
<1>37. CASE ClockTick
    BY <1>37, ClockKeepsLease
<1>38. CASE UNCHANGED vars
    BY <1>38, LeaseFrame DEF vars
<1>39. QED
    BY <1>1, <1>2, <1>3, <1>4, <1>5, <1>6, <1>7, <1>8, <1>9, <1>10, <1>11,
       <1>12, <1>13, <1>14, <1>15, <1>16, <1>17, <1>18, <1>19, <1>20, <1>21,
       <1>22, <1>23, <1>24, <1>25, <1>26, <1>27, <1>28, <1>29, <1>30, <1>31,
       <1>32, <1>33, <1>34, <1>35, <1>36, <1>37, <1>38, Zenon
       DEF Next, TurnStart, Tick, Execute, ClientStep

------------------------------------------------------------------------------
(* The theorems about leases *)

(* The lease invariant holds in every reachable state.                      *)
LEMMA LeaseInvariance == Spec => []LeaseInv
<1>1. Init => LeaseInv
    <2> SUFFICES ASSUME Init PROVE LeaseInv
        OBVIOUS
    <2>1. /\ \A s \in Supervisors : ~ Working(s) /\ ~ beating[s] /\ now[s] = 0
          /\ clock = 0
        BY DEF Init
    <2>2. QED
        BY <2>1 DEF LeaseInv, FencesIssuedOnce, LeaseStands
<1>2. TypeOK /\ LeaseInv /\ [Next]_vars => LeaseInv'
    BY LeaseStep
<1>3. QED
    BY <1>1, <1>2, Typing, PTL DEF Spec

(* For every number of runs and supervisors, every lease time and every     *)
(* number of crashes, errors, control requests and subscriptions: until the *)
(* expiry it was given has passed, a tick is the only one that works on its *)
(* run.  Two ticks with a standing lease on one run would both have its     *)
(* current fencing token.                                                   *)
THEOREM LeaseExclusionHolds == Spec => []LeaseExclusion
<1>1. TypeOK /\ LeaseInv => LeaseExclusion
    <2> SUFFICES ASSUME TypeOK, LeaseInv,
                        NEW s \in Supervisors, NEW t \in Supervisors,
                        Working(s), until[s] > clock, Working(t), until[t] > clock,
                        held[s].run = held[t].run
                 PROVE  s = t
        BY DEF LeaseExclusion
    <2>1. held[s].fence = held[t].fence
        BY LeaseOfHolder
    <2>2. held[s] = held[t]
        BY <2>1, HeldEqual DEF TypeOK
    <2>3. QED
        BY <2>2 DEF LeaseInv, FencesIssuedOnce
<1>2. QED
    BY <1>1, Typing, LeaseInvariance, PTL

(* Six steps write the lease columns; all others leave them alone.          *)
LEMMA LeaseWriters ==
    ASSUME [Next]_vars
    PROVE  \/ UNCHANGED lease
           \/ \E s \in Supervisors :
                 \/ RecoverExpired(s) \/ (\E r \in Runs : ClaimTurn(s, r))
                 \/ StartHeartbeat(s) \/ Heartbeat(s) \/ FinishLease(s) \/ FallbackFinish(s)
<1>1. ASSUME NEW r \in Runs,
             \/ TurnStart(r) \/ AcceptTurn(r) \/ StartFails(r) \/ StartFailureFails(r)
             \/ StartCrash(r)
      PROVE  UNCHANGED lease
    BY <1>1 DEF TurnStart, AcceptTurn, StartFails, StartFailureFails, StartCrash,
                BootstrapTurn, BootstrapAppend, StartFailMessage, StartFailAppend,
                StartFailProject
<1>2. ASSUME NEW s \in Supervisors,
             \/ ClaimNothing(s) \/ ObserveRun(s) \/ SkipMessage(s) \/ ReadJournal(s)
             \/ ApplyJournal(s) \/ AdoptCandidate(s) \/ EmitRunStarted(s) \/ Dispatch(s)
             \/ ExecuteTurn(s) \/ Adjudicate(s) \/ EmitRunFinished(s) \/ FinishMessage(s)
             \/ FailMessage(s) \/ FailAppend(s) \/ StepFails(s) \/ Crash(s)
      PROVE  UNCHANGED lease
    BY <1>2 DEF ClaimNothing, ObserveRun, SkipMessage, ReadJournal, ApplyJournal,
                AdoptCandidate, EmitRunStarted, Dispatch, ExecuteTurn, Adjudicate,
                EmitRunFinished, FinishMessage, FailMessage, FailAppend, StepFails, Crash,
                Lookup, TryAppend
<1>3. ASSUME NEW c \in Clients,
             \/ ClientStep(c) \/ RequestControl(c) \/ Subscribe(c) \/ RequestCrash(c)
      PROVE  UNCHANGED lease
    BY <1>3 DEF ClientStep, AppendControl, ProjectRequest, RequestControl, Subscribe,
                RequestCrash
<1>4. ClockTick \/ UNCHANGED vars => UNCHANGED lease
    BY DEF ClockTick, vars
<1>5. QED
    BY <1>1, <1>2, <1>3, <1>4, Zenon DEF Next, Tick, Execute

(* A tick that holds the lease of its run and moves on, or renews it, is    *)
(* the holder that ChangedByHolder asks for.                                *)
LEMMA HolderChanges ==
    ASSUME TypeOK, NEW s \in Supervisors, Working(s), HoldsLease(s),
           \A q \in Runs : q # held[s].run => lease'[q] = lease[q],
           <<pc[s], until[s]>>' # <<pc[s], until[s]>>
    PROVE  \A r \in Runs : ChangedByHolder(r)
<1>1. held[s] = [run |-> held[s].run, fence |-> lease[held[s].run].fence]
    BY DEF TypeOK, HeldLeases, HoldsLease
<1>2. QED
    BY <1>1, Zenon DEF ChangedByHolder

(* For every value of the constants: the lease columns of a run whose lease *)
(* has not expired are only ever changed by the tick that holds it.         *)
THEOREM OnlyHolderChangesLeaseHolds == Spec => OnlyHolderChangesLease
<1>1. ASSUME TypeOK, TypeOK', LeaseInv, [Next]_vars
      PROVE  \A r \in Runs : ChangedByHolder(r)
    <2>1. CASE UNCHANGED lease
        BY <2>1 DEF ChangedByHolder
    <2>2. ASSUME NEW s \in Supervisors, RecoverExpired(s)
          PROVE  \A r \in Runs : ChangedByHolder(r)
        <3>1. ASSUME NEW r \in Runs, lease[r].expires > clock
              PROVE  lease'[r] = lease[r]
            <4>1. lease[r].expires \in Int /\ clock \in Nat
                BY <1>1, LeaseFields DEF TypeOK
            <4>2. ~ (lease[r].expires <= clock)
                BY <3>1, <4>1
            <4>3. QED
                BY <2>2, <4>2 DEF RecoverExpired, Expired
        <3>2. QED
            BY <3>1 DEF ChangedByHolder
    <2>3. ASSUME NEW s \in Supervisors, NEW q \in Runs, ClaimTurn(s, q)
          PROVE  \A r \in Runs : ChangedByHolder(r)
        <3>1. \A r \in Runs : r # q => lease'[r] = lease[r]
            BY <1>1, <2>3 DEF ClaimTurn, TypeOK
        <3>2. ~ (lease[q].expires > clock)
            <4>1. lease[q].expires = NoExpiry \/ lease[q].expires <= now[s]
                BY <2>3, TargetsAreClaimable DEF ClaimTurn, Claimable
            <4>2. now[s] <= clock
                BY <1>1 DEF LeaseInv, LeaseStands
            <4>3. lease[q].expires \in Int /\ clock \in Nat /\ now[s] \in Nat
                BY <1>1, LeaseFields DEF TypeOK
            <4>4. QED
                BY <4>1, <4>2, <4>3 DEF NoExpiry
        <3>3. QED
            BY <3>1, <3>2 DEF ChangedByHolder
    <2>4. ASSUME NEW s \in Supervisors, StartHeartbeat(s)
          PROVE  \A r \in Runs : ChangedByHolder(r)
        <3>1. CASE Renewable(s)
            <4>1. Working(s) /\ HoldsLease(s) /\ RenewLease(s) /\ pc[s] = "heartbeat"
                BY <2>4, <3>1 DEF StartHeartbeat, Renewable, At
            <4>2. \A r \in Runs : r # held[s].run => lease'[r] = lease[r]
                BY <1>1, <4>1 DEF RenewLease, TypeOK
            <4>3. pc'[s] = "start"
                BY <1>1, <2>4, <3>1 DEF StartHeartbeat, Goto, TypeOK
            <4>4. QED
                BY <1>1, <4>1, <4>2, <4>3, HolderChanges
        <3>2. CASE ~ Renewable(s)
            BY <2>4, <3>2 DEF StartHeartbeat, ChangedByHolder
        <3>3. QED
            BY <3>1, <3>2
    <2>5. ASSUME NEW s \in Supervisors, Heartbeat(s)
          PROVE  \A r \in Runs : ChangedByHolder(r)
        <3>1. CASE RenewLease(s) /\ Renewable(s) /\ until[s] < clock + TTL
            <4>1. Working(s) /\ HoldsLease(s)
                BY <1>1, <2>5, <3>1 DEF Heartbeat, Renewable, LeaseInv, FencesIssuedOnce
            <4>2. \A r \in Runs : r # held[s].run => lease'[r] = lease[r]
                BY <1>1, <3>1 DEF RenewLease, TypeOK
            <4>3. until'[s] # until[s]
                <5>1. until[s] \in Nat /\ clock + TTL \in Nat
                    BY <1>1, TurnSupervisorAssumption DEF TypeOK
                <5>2. until'[s] = clock + TTL
                    BY <1>1, <3>1 DEF RenewLease, TypeOK
                <5>3. QED
                    BY <3>1, <5>1, <5>2
            <4>4. QED
                BY <1>1, <4>1, <4>2, <4>3, HolderChanges
        <3>2. CASE UNCHANGED lease
            BY <3>2 DEF ChangedByHolder
        <3>3. QED
            BY <2>5, <3>1, <3>2 DEF Heartbeat
    <2>6. ASSUME NEW s \in Supervisors, FinishLease(s) \/ FallbackFinish(s)
          PROVE  \A r \in Runs : ChangedByHolder(r)
        <3>1. CASE HoldsLease(s) /\ ClearLease(held[s].run) /\ Leave(s)
            <4>1. pc[s] \in {"finish", "fallback"} /\ pc'[s] = "idle"
                BY <1>1, <2>6, <3>1 DEF FinishLease, FallbackFinish, At, Leave, TypeOK
            <4>2. \A r \in Runs : r # held[s].run => lease'[r] = lease[r]
                BY <1>1, <3>1 DEF ClearLease, TypeOK
            <4>3. QED
                BY <1>1, <3>1, <4>1, <4>2, HolderChanges
        <3>2. CASE UNCHANGED lease
            BY <3>2 DEF ChangedByHolder
        <3>3. QED
            BY <2>6, <3>1, <3>2 DEF FinishLease, FallbackFinish
    <2>7. QED
        BY <1>1, <2>1, <2>2, <2>3, <2>4, <2>5, <2>6, LeaseWriters, Zenon
<1>2. QED
    BY <1>1, Typing, LeaseInvariance, PTL DEF Spec, OnlyHolderChangesLease

------------------------------------------------------------------------------
(* The refinement *)

Beliefs == [s \in Supervisors |-> Belief(s)]

(* What a tick believes changes with its lease and with its work alone.     *)
LEMMA BeliefsKept ==
    ASSUME \A t \in Supervisors :
               /\ Working(t)' <=> Working(t)
               /\ Working(t) => held'[t] = held[t] /\ until'[t] = until[t]
    PROVE  Beliefs' = Beliefs
<1>1. ASSUME NEW t \in Supervisors
      PROVE  Belief(t)' = Belief(t)
    BY Zenon DEF Belief
<1>2. QED
    BY <1>1, Zenon DEF Beliefs

(* A tick that goes on with its work believes what it believed.             *)
LEMMA GotoKeepsBeliefs ==
    ASSUME TypeOK, NEW s \in Supervisors, NEW step \in TickSteps, Goto(s, step),
           Working(s) <=> step \notin {"idle", "claim"}, UNCHANGED <<held, until>>
    PROVE  Beliefs' = Beliefs
<1>1. \A t \in Supervisors : Working(t)' <=> Working(t)
    BY DEF Goto, TypeOK
<1>2. QED
    BY <1>1, BeliefsKept

LEMMA FailKeepsBeliefs ==
    ASSUME TypeOK, NEW s \in Supervisors, Working(s), Fail(s)
    PROVE  Beliefs' = Beliefs
<1>1. PICK step \in {"failMessage", "fallback"} : Goto(s, step)
    BY Zenon DEF Fail
<1>2. UNCHANGED <<held, until>>
    BY DEF Fail
<1>3. QED
    BY <1>1, <1>2, GotoKeepsBeliefs DEF TickSteps

(* A tick that ends believes nothing any more.                              *)
LEMMA LeaveForgets ==
    ASSUME TypeOK, NEW s \in Supervisors, Leave(s)
    PROVE  Beliefs' = [Beliefs EXCEPT ![s] = {}]
<1>1. \A t \in Supervisors \ {s} :
          (Working(t)' <=> Working(t)) /\ held'[t] = held[t] /\ until'[t] = until[t]
    BY DEF Leave, TypeOK
<1>2. ~ Working(s)'
    BY DEF Leave, TypeOK
<1>3. \A t \in Supervisors \ {s} : Belief(t)' = Belief(t)
    BY <1>1, Zenon DEF Belief
<1>4. Belief(s)' = {}
    BY <1>2, Zenon DEF Belief
<1>5. QED
    BY <1>3, <1>4 DEF Beliefs

(* A step that writes no lease and lets no time pass: the ticks believe     *)
(* what they believed, or one of them ends.                                 *)
Unleased ==
    /\ UNCHANGED <<clock, lease>>
    /\ Beliefs' = Beliefs \/ \E s \in Supervisors : Beliefs' = [Beliefs EXCEPT ![s] = {}]

LEMMA UnleasedSimulates ==
    ASSUME Unleased
    PROVE  [Fenced!Next]_(Fenced!vars)
<1>1. CASE Beliefs' = Beliefs
    BY <1>1 DEF Unleased, Beliefs, Fenced!vars
<1>2. ASSUME NEW s \in Supervisors, Beliefs' = [Beliefs EXCEPT ![s] = {}]
      PROVE  Fenced!Next
    <2>1. Fenced!Forget(s)
        BY <1>2 DEF Unleased, Beliefs, Fenced!Forget
    <2>2. QED
        BY <2>1, Zenon DEF Fenced!Next
<1>3. QED
    BY <1>1, <1>2 DEF Unleased

(* Looking up and appending are steps of a tick's work.                     *)
LEMMA LookupUnleased ==
    ASSUME TypeOK, NEW s \in Supervisors, NEW step \in TickSteps \ {"idle", "claim"},
           NEW e, NEW present \in TickSteps \ {"idle", "claim"},
           NEW absent \in TickSteps \ {"idle", "claim"}, Lookup(s, step, e, present, absent)
    PROVE  Unleased
<1>1. PICK next \in {present, absent} : Goto(s, next)
    BY Zenon DEF Lookup
<1>2. Working(s)
    BY DEF Lookup, At
<1>3. UNCHANGED <<clock, lease, held, until>>
    BY DEF Lookup, ContextKept
<1>4. QED
    BY <1>1, <1>2, <1>3, GotoKeepsBeliefs DEF Unleased

LEMMA TryAppendUnleased ==
    ASSUME TypeOK, NEW s \in Supervisors, NEW step \in TickSteps \ {"idle", "claim"},
           NEW e, NEW next \in TickSteps \ {"idle", "claim"}, TryAppend(s, step, e, next)
    PROVE  Unleased
<1>1. Working(s) /\ UNCHANGED <<clock, lease>>
    BY DEF TryAppend, At
<1>2. CASE Fail(s)
    BY <1>1, <1>2, FailKeepsBeliefs DEF Unleased
<1>3. CASE Goto(s, next) /\ ContextKept
    BY <1>1, <1>3, GotoKeepsBeliefs DEF ContextKept, Unleased
<1>4. QED
    BY <1>2, <1>3 DEF TryAppend

(* All steps of the turn starts and of the clients are unleased.            *)
LEMMA OthersUnleased ==
    ASSUME \/ \E r \in Runs : \/ TurnStart(r) \/ AcceptTurn(r) \/ StartFails(r)
                              \/ StartFailureFails(r) \/ StartCrash(r)
           \/ \E c \in Clients : \/ ClientStep(c) \/ RequestControl(c) \/ Subscribe(c)
                                 \/ RequestCrash(c)
           \/ UNCHANGED vars
    PROVE  Unleased
<1> DEFINE Idle == UNCHANGED <<clock, lease, pc, held, until>>
<1>1. ASSUME NEW r \in Runs, AcceptTurn(r) \/ StartFails(r) \/ StartFailureFails(r)
      PROVE  Idle
    BY <1>1 DEF AcceptTurn, StartFails, StartFailureFails
<1>2. ASSUME NEW r \in Runs, TurnStart(r) \/ StartCrash(r)
      PROVE  Idle
    <2>1. CASE BootstrapTurn(r) \/ BootstrapAppend(r)
        BY <2>1 DEF BootstrapTurn, BootstrapAppend
    <2>2. CASE StartFailMessage(r) \/ StartFailAppend(r)
        BY <2>2 DEF StartFailMessage, StartFailAppend
    <2>3. CASE StartFailProject(r) \/ StartCrash(r)
        BY <2>3 DEF StartFailProject, StartCrash
    <2>4. QED
        BY <1>2, <2>1, <2>2, <2>3, Zenon DEF TurnStart
<1>3. ASSUME NEW c \in Clients, \/ ClientStep(c) \/ RequestControl(c) \/ Subscribe(c)
                                \/ RequestCrash(c)
      PROVE  Idle
    <2>1. CASE AppendControl(c)
        BY <2>1 DEF AppendControl
    <2>2. CASE ProjectRequest(c) \/ RequestCrash(c)
        BY <2>2 DEF ProjectRequest, RequestCrash
    <2>3. ASSUME RequestControl(c)
          PROVE  UNCHANGED <<clock, lease, pc, held, until>>
        BY <2>3, Zenon DEF RequestControl, tickVars, leaseVars
    <2>4. ASSUME Subscribe(c)
          PROVE  UNCHANGED <<clock, lease, pc, held, until>>
        BY <2>4, Zenon DEF Subscribe, tickVars, leaseVars
    <2>5. QED
        BY <1>3, <2>1, <2>2, <2>3, <2>4, Zenon DEF ClientStep
<1>4. ASSUME UNCHANGED vars
      PROVE  Idle
    BY <1>4 DEF vars
<1>5. Idle
    BY <1>1, <1>2, <1>3, <1>4, Zenon
<1>6. Beliefs' = Beliefs
    BY <1>5, BeliefsKept
<1>7. QED
    BY <1>5, <1>6 DEF Unleased

(* So are the steps of a tick that write no lease columns.                  *)
LEMMA WorkUnleased ==
    ASSUME TypeOK, NEW s \in Supervisors,
           \/ ClaimNothing(s) \/ ObserveRun(s) \/ SkipMessage(s) \/ ReadJournal(s)
           \/ ApplyJournal(s) \/ AdoptCandidate(s) \/ EmitRunStarted(s) \/ Dispatch(s)
           \/ ExecuteTurn(s) \/ Adjudicate(s) \/ EmitRunFinished(s) \/ FinishMessage(s)
           \/ FailMessage(s) \/ FailAppend(s) \/ StepFails(s) \/ Crash(s)
    PROVE  Unleased
<1>1. CASE ClaimNothing(s) \/ Crash(s)
    <2>1. Leave(s) /\ UNCHANGED <<clock, lease>>
        BY <1>1 DEF ClaimNothing, Crash
    <2>2. QED
        BY <2>1, LeaveForgets, Zenon DEF Unleased
<1>2. CASE EmitRunStarted(s) \/ Dispatch(s) \/ EmitRunFinished(s) \/ FailAppend(s)
    BY <1>2, LookupUnleased, TryAppendUnleased
       DEF EmitRunStarted, Dispatch, EmitRunFinished, FailAppend, TickSteps
<1>3. CASE \/ ObserveRun(s) \/ SkipMessage(s) \/ ReadJournal(s) \/ ApplyJournal(s)
           \/ AdoptCandidate(s) \/ ExecuteTurn(s) \/ Adjudicate(s) \/ FinishMessage(s)
           \/ FailMessage(s)
    <2>1. Working(s)
        BY <1>3 DEF ObserveRun, SkipMessage, ReadJournal, ApplyJournal, AdoptCandidate,
                    ExecuteTurn, Adjudicate, FinishMessage, FailMessage, At
    <2>2. UNCHANGED <<clock, lease, held, until>>
        BY <1>3 DEF ObserveRun, SkipMessage, ReadJournal, ApplyJournal, AdoptCandidate,
                    ExecuteTurn, Adjudicate, FinishMessage, FailMessage, ContextKept,
                    leaseVars
    <2>3. PICK step \in {"skip", "recover", "heartbeat", "read", "recoverApply", "apply",
                         "recovered", "finish", "message", "adjudicate", "emit",
                         "failAppend"} : Goto(s, step)
        BY <1>3, Zenon DEF ObserveRun, SkipMessage, ReadJournal, ApplyJournal,
                    AdoptCandidate, ExecuteTurn, Adjudicate, FinishMessage, FailMessage
    <2>4. step \in TickSteps \ {"idle", "claim"}
        BY DEF TickSteps
    <2>5. QED
        BY <2>1, <2>2, <2>3, <2>4, GotoKeepsBeliefs DEF Unleased
<1>4. CASE StepFails(s)
    <2>1. Working(s) /\ UNCHANGED <<clock, lease>>
        BY <1>4 DEF StepFails
    <2>2. Fail(s) \/ Leave(s) \/ (Goto(s, "failAppend") /\ ContextKept)
        BY <1>4, Zenon DEF StepFails
    <2>3. CASE Fail(s)
        BY <2>1, <2>3, FailKeepsBeliefs DEF Unleased
    <2>4. CASE Leave(s)
        BY <2>1, <2>4, LeaveForgets, Zenon DEF Unleased
    <2>5. CASE Goto(s, "failAppend") /\ ContextKept
        BY <2>1, <2>5, GotoKeepsBeliefs DEF Unleased, ContextKept, TickSteps
    <2>6. QED
        BY <2>2, <2>3, <2>4, <2>5
<1>5. QED
    BY <1>1, <1>2, <1>3, <1>4

(* A claim acquires the lease of its run, by the clock its tick has read.   *)
LEMMA ClaimSimulates ==
    ASSUME TypeOK, LeaseInv, NEW s \in Supervisors, NEW r \in Runs, ClaimTurn(s, r)
    PROVE  Fenced!Next
<1>1. /\ pc[s] = "claim" /\ pc' = [pc EXCEPT ![s] = "observe"]
      /\ held' = [held EXCEPT ![s] = [run |-> r, fence |-> lease[r].fence + 1]]
      /\ until' = [until EXCEPT ![s] = now[s] + TTL]
      /\ UNCHANGED clock
      /\ lease' = [lease EXCEPT ![r] = [owner |-> SupervisorId[s],
                                       expires |-> now[s] + TTL,
                                       fence |-> @.fence + 1]]
    BY DEF ClaimTurn, At, Goto
<1>2. now[s] \in 0..clock
    <2>1. now[s] <= clock
        BY Zenon DEF LeaseInv, LeaseStands
    <2>2. now[s] \in Nat /\ clock \in Nat
        BY DEF TypeOK
    <2>3. QED
        BY <2>1, <2>2
<1>3. Fenced!OverAt(r, now[s])
    BY TargetsAreClaimable DEF ClaimTurn, Claimable, Fenced!OverAt, NoExpiry, Fenced!Never
<1>4. Beliefs[s] = {}
    BY <1>1, Zenon DEF Beliefs, Belief, Working
<1>5. Beliefs' = [Beliefs EXCEPT
                     ![s] = {Fenced!Believed(r, lease[r].fence + 1, now[s] + TTL)}]
    <2>1. \A t \in Supervisors \ {s} :
              (Working(t)' <=> Working(t)) /\ held'[t] = held[t] /\ until'[t] = until[t]
        BY <1>1 DEF TypeOK
    <2>2. \A t \in Supervisors \ {s} : Belief(t)' = Belief(t)
        BY <2>1, Zenon DEF Belief
    <2>3. /\ Working(s)' /\ until'[s] = now[s] + TTL
          /\ held'[s] = [run |-> r, fence |-> lease[r].fence + 1]
        BY <1>1 DEF TypeOK
    <2>4. Belief(s)' = {Fenced!Believed(r, lease[r].fence + 1, now[s] + TTL)}
        BY <2>3 DEF Belief, Fenced!Believed
    <2>5. QED
        BY <2>2, <2>4 DEF Beliefs
<1>6. Fenced!Acquire(s, r, now[s])
    BY <1>1, <1>3, <1>4, <1>5 DEF Beliefs, Fenced!Acquire
<1>7. QED
    BY <1>2, <1>6, Zenon DEF Fenced!Next

(* A heartbeat renews it.                                                   *)
LEMMA RenewSimulates ==
    ASSUME TypeOK, NEW s \in Supervisors, Working(s), HoldsLease(s), RenewLease(s),
           UNCHANGED <<clock, held>>,
           \A t \in Supervisors : Working(t)' <=> Working(t)
    PROVE  Fenced!Next
<1> DEFINE b == [run |-> held[s].run, fence |-> held[s].fence, until |-> until[s]]
<1>1. /\ lease' = [lease EXCEPT ![held[s].run].expires = clock + TTL]
      /\ until' = [until EXCEPT ![s] = clock + TTL]
    BY DEF RenewLease
<1>2. b \in Beliefs[s]
    BY DEF Beliefs, Belief
<1>3. b.run = held[s].run /\ b.fence = held[s].fence
    OBVIOUS
<1>4. Beliefs' = [Beliefs EXCEPT ![s] = {Fenced!Believed(b.run, b.fence, clock + TTL)}]
    <2>1. \A t \in Supervisors \ {s} : until'[t] = until[t]
        BY <1>1 DEF TypeOK
    <2>2. \A t \in Supervisors \ {s} : Belief(t)' = Belief(t)
        BY <2>1, Zenon DEF Belief
    <2>3. Working(s)' /\ until'[s] = clock + TTL /\ held' = held
        BY <1>1 DEF TypeOK
    <2>4. Belief(s)' = {Fenced!Believed(b.run, b.fence, clock + TTL)}
        BY <2>3 DEF Belief, Fenced!Believed
    <2>5. QED
        BY <2>2, <2>4 DEF Beliefs
<1> HIDE DEF b
<1>5. Fenced!Current(s, b)
    BY <1>3 DEF HoldsLease, Fenced!Current
<1>6. Fenced!Renew(s, b)
    BY <1>1, <1>3, <1>4, <1>5 DEF Beliefs, Fenced!Renew
<1>7. QED
    BY <1>2, <1>6, Zenon DEF Fenced!Next, Beliefs

(* The end of a tick that holds its lease returns it.                       *)
LEMMA ReturnSimulates ==
    ASSUME TypeOK, NEW s \in Supervisors, Working(s), HoldsLease(s),
           ClearLease(held[s].run), Leave(s), UNCHANGED clock
    PROVE  Fenced!Next
<1> DEFINE b == [run |-> held[s].run, fence |-> held[s].fence, until |-> until[s]]
<1>1. lease' = [lease EXCEPT ![held[s].run] =
                   [lease[held[s].run] EXCEPT !.owner = NoOwner, !.expires = NoExpiry]]
    BY DEF ClearLease
<1>2. b \in Beliefs[s]
    BY DEF Beliefs, Belief
<1>3. b.run = held[s].run /\ b.fence = held[s].fence
    OBVIOUS
<1> HIDE DEF b
<1>4. Fenced!Current(s, b)
    BY <1>3 DEF HoldsLease, Fenced!Current
<1>5. Beliefs' = [Beliefs EXCEPT ![s] = {}]
    BY LeaveForgets
<1>6. Fenced!Return(s, b)
    BY <1>1, <1>3, <1>4, <1>5 DEF Beliefs, Fenced!Return, Fenced!Free, Fenced!Never, NoExpiry
<1>7. QED
    BY <1>2, <1>6, Zenon DEF Fenced!Next, Beliefs

(* A recovery frees runs whose leases are over.                             *)
LEMMA RecoverSimulates ==
    ASSUME TypeOK, NEW s \in Supervisors, RecoverExpired(s)
    PROVE  Fenced!Next
<1> DEFINE over == {r \in Runs : Expired(r, clock)}
<1>1. Beliefs' = Beliefs
    <2>1. Goto(s, "claim") /\ pc[s] = "idle" /\ UNCHANGED <<held, until>>
        BY Zenon DEF RecoverExpired, At
    <2>2. QED
        BY <2>1, GotoKeepsBeliefs DEF TickSteps, Working
<1>2. \A r \in over : lease[r].expires # Fenced!Never /\ lease[r].expires <= clock
    BY DEF Expired, NoExpiry, Fenced!Never
<1>3. lease' = [r \in Runs |-> IF r \in over THEN Fenced!Free(r) ELSE lease[r]]
    BY Zenon DEF RecoverExpired, Fenced!Free, Fenced!Never, NoExpiry
<1>4. UNCHANGED clock
    BY Zenon DEF RecoverExpired
<1>5. over \in SUBSET Runs
    OBVIOUS
<1> HIDE DEF over
<1>6. Fenced!Reap(over)
    BY <1>1, <1>2, <1>3, <1>4 DEF Beliefs, Fenced!Reap
<1>7. QED
    BY <1>5, <1>6, Zenon DEF Fenced!Next

(* Every step of the system is a step of the abstract lease, or changes     *)
(* nothing of it.                                                           *)
LEMMA StepSimulates ==
    ASSUME TypeOK, LeaseInv, [Next]_vars
    PROVE  [Fenced!Next]_(Fenced!vars)
<1>1. CASE Unleased
    BY <1>1, UnleasedSimulates
<1>2. ASSUME NEW s \in Supervisors, StartHeartbeat(s)
      PROVE  Unleased \/ Fenced!Next
    <2>1. Working(s) /\ UNCHANGED clock
        BY <1>2 DEF StartHeartbeat, At
    <2>2. CASE Renewable(s) /\ RenewLease(s) /\ Goto(s, "start") /\ UNCHANGED held
        <3>1. \A t \in Supervisors : Working(t)' <=> Working(t)
            BY <2>1, <2>2 DEF Goto, TypeOK
        <3>2. QED
            BY <2>1, <2>2, <3>1, RenewSimulates DEF Renewable
    <2>3. CASE Fail(s) /\ UNCHANGED leaseVars
        BY <2>1, <2>3, FailKeepsBeliefs DEF Unleased, leaseVars
    <2>4. QED
        BY <1>2, <2>2, <2>3 DEF StartHeartbeat
<1>3. ASSUME NEW s \in Supervisors, Heartbeat(s)
      PROVE  Unleased \/ Fenced!Next
    <2>1. Working(s) /\ UNCHANGED <<clock, pc, held>>
        BY <1>3 DEF Heartbeat, LeaseInv, FencesIssuedOnce
    <2>2. CASE Renewable(s) /\ RenewLease(s)
        BY <2>1, <2>2, RenewSimulates DEF Renewable
    <2>3. CASE UNCHANGED <<leaseVars, until>>
        BY <2>1, <2>3, BeliefsKept DEF Unleased, leaseVars
    <2>4. QED
        BY <1>3, <2>2, <2>3 DEF Heartbeat
<1>4. ASSUME NEW s \in Supervisors, FinishLease(s) \/ FallbackFinish(s)
      PROVE  Unleased \/ Fenced!Next
    <2>1. Working(s) /\ UNCHANGED clock
        BY <1>4 DEF FinishLease, FallbackFinish, At
    <2>2. CASE HoldsLease(s) /\ ClearLease(held[s].run) /\ Leave(s)
        BY <2>1, <2>2, ReturnSimulates
    <2>3. CASE UNCHANGED lease /\ (Fail(s) \/ Leave(s))
        BY <2>1, <2>3, FailKeepsBeliefs, LeaveForgets, Zenon DEF Unleased
    <2>4. QED
        BY <1>4, <2>2, <2>3 DEF FinishLease, FallbackFinish, leaseVars
<1>5. CASE ClockTick
    <2>1. clock' = clock + 1 /\ UNCHANGED <<lease, pc, held, until>>
        BY <1>5 DEF ClockTick
    <2>2. Beliefs' = Beliefs
        BY <2>1, BeliefsKept
    <2>3. Fenced!Pass
        BY <2>1, <2>2 DEF Beliefs, Fenced!Pass
    <2>4. QED
        BY <2>3, Zenon DEF Fenced!Next
<1>6. QED
    BY <1>1, <1>2, <1>3, <1>4, <1>5, OthersUnleased, WorkUnleased, ClaimSimulates,
       RecoverSimulates, Zenon DEF Next, Tick, Execute

(* For every value of the constants: TurnSupervisor implements FencedLease. *)
(* Whoever reads the lease columns may forget everything else this system   *)
(* does.                                                                    *)
THEOREM Refinement == Spec => ImplementsFencedLease
<1>1. Init => Fenced!Init
    <2> SUFFICES ASSUME Init PROVE Fenced!Init
        OBVIOUS
    <2>1. \A s \in Supervisors : ~ Working(s)
        BY DEF Init
    <2>2. [s \in Supervisors |-> Belief(s)] = [s \in Supervisors |-> {}]
        BY <2>1, Zenon DEF Belief
    <2>3. QED
        BY <2>2 DEF Init, Fenced!Init, Fenced!Never, NoExpiry
<1>2. TypeOK /\ LeaseInv /\ [Next]_vars => [Fenced!Next]_(Fenced!vars)
    BY StepSimulates
<1>3. QED
    BY <1>1, <1>2, Typing, LeaseInvariance, PTL DEF Spec, ImplementsFencedLease, Fenced!Spec

==============================================================================
