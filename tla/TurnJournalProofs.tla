-------------------------- MODULE TurnJournalProofs --------------------------
(***************************************************************************)
(* What TLAPS proves of TurnSupervisor about the journal and what is made  *)
(* of it, for every value of the constants: conversations.status is always *)
(* what the run projections say, a turn's model is run at most once, what  *)
(* the read model says of an end is in the journal, and, where no rebuild  *)
(* and no pause interferes and ticks are prompt, one tick works on a turn. *)
(* Where the failure handling does not fail either, the end of a run       *)
(* stays, and where nothing breaks the message tells it.  The reducer is   *)
(* the fold the code runs, and a rebuild gives what live has where the     *)
(* journal is projected in order.                                          *)
(***************************************************************************)
EXTENDS TurnSupervisorProofs

USE DEF leaseVars, readModel, storeVars, tickVars

------------------------------------------------------------------------------
(* Which steps write what *)

(* Nine steps write the run projections or the conversation's status.       *)
LEMMA ReadModelWriters ==
    ASSUME [Next]_vars
    PROVE  \/ UNCHANGED readModel
           \/ \E r \in Runs : AcceptTurn(r) \/ StartFailProject(r) \/ StartFailureFails(r)
           \/ \E s \in Supervisors :
                 \/ RecoverExpired(s) \/ (\E r \in Runs : ClaimTurn(s, r))
                 \/ ApplyJournal(s) \/ FinishLease(s) \/ FallbackFinish(s)
           \/ \E c \in Clients : ProjectRequest(c)
<1>1. ASSUME NEW r \in Runs,
             \/ BootstrapTurn(r) \/ BootstrapAppend(r) \/ StartFailMessage(r)
             \/ StartFailAppend(r) \/ StartFails(r) \/ StartCrash(r)
      PROVE  UNCHANGED readModel
    BY <1>1 DEF StartFails, StartCrash, BootstrapTurn, BootstrapAppend, StartFailMessage,
                StartFailAppend
<1>2. ASSUME NEW s \in Supervisors,
             \/ ClaimNothing(s) \/ ObserveRun(s) \/ SkipMessage(s) \/ ReadJournal(s)
             \/ AdoptCandidate(s) \/ StartHeartbeat(s) \/ Heartbeat(s) \/ EmitRunStarted(s)
             \/ Dispatch(s) \/ ExecuteTurn(s) \/ Adjudicate(s) \/ EmitRunFinished(s)
             \/ FinishMessage(s) \/ FailMessage(s) \/ FailAppend(s) \/ StepFails(s)
             \/ Crash(s)
      PROVE  UNCHANGED readModel
    BY <1>2 DEF ClaimNothing, ObserveRun, SkipMessage, ReadJournal, AdoptCandidate,
                StartHeartbeat, Heartbeat, EmitRunStarted, Dispatch, ExecuteTurn,
                Adjudicate, EmitRunFinished, FinishMessage, FailMessage, FailAppend,
                StepFails, Crash, Lookup, TryAppend
<1>3. ASSUME NEW c \in Clients,
             \/ AppendControl(c) \/ RequestControl(c) \/ Subscribe(c) \/ RequestCrash(c)
      PROVE  UNCHANGED readModel
    BY <1>3 DEF AppendControl, RequestControl, Subscribe, RequestCrash
<1>4. ClockTick \/ UNCHANGED vars => UNCHANGED readModel
    BY DEF ClockTick, vars
<1>5. QED
    BY <1>1, <1>2, <1>3, <1>4, Zenon DEF Next, TurnStart, Tick, Execute, ClientStep

(* Eight steps append to a journal.                                         *)
LEMMA JournalWriters ==
    ASSUME [Next]_vars
    PROVE  \/ UNCHANGED journal
           \/ \E r \in Runs : BootstrapAppend(r) \/ StartFailAppend(r)
           \/ \E s \in Supervisors :
                 \/ EmitRunStarted(s) \/ Dispatch(s) \/ ExecuteTurn(s)
                 \/ EmitRunFinished(s) \/ FailAppend(s)
           \/ \E c \in Clients : AppendControl(c)
<1>1. ASSUME NEW r \in Runs,
             \/ AcceptTurn(r) \/ BootstrapTurn(r) \/ StartFailMessage(r)
             \/ StartFailProject(r) \/ StartFails(r) \/ StartFailureFails(r)
             \/ StartCrash(r)
      PROVE  UNCHANGED journal
    BY <1>1 DEF AcceptTurn, StartFails, StartFailureFails, StartCrash, BootstrapTurn,
                StartFailMessage, StartFailProject
<1>2. ASSUME NEW s \in Supervisors,
             \/ RecoverExpired(s) \/ (\E r \in Runs : ClaimTurn(s, r)) \/ ClaimNothing(s)
             \/ ObserveRun(s) \/ SkipMessage(s) \/ ReadJournal(s) \/ ApplyJournal(s)
             \/ AdoptCandidate(s) \/ StartHeartbeat(s) \/ Heartbeat(s) \/ Adjudicate(s)
             \/ FinishMessage(s) \/ FinishLease(s) \/ FailMessage(s) \/ FallbackFinish(s)
             \/ StepFails(s) \/ Crash(s)
      PROVE  UNCHANGED journal
    BY <1>2 DEF RecoverExpired, ClaimTurn, ClaimNothing, ObserveRun, SkipMessage,
                ReadJournal, ApplyJournal, AdoptCandidate, StartHeartbeat, Heartbeat,
                Adjudicate, FinishMessage, FinishLease, FailMessage, FallbackFinish,
                StepFails, Crash
<1>3. ASSUME NEW c \in Clients,
             \/ ProjectRequest(c) \/ RequestControl(c) \/ Subscribe(c) \/ RequestCrash(c)
      PROVE  UNCHANGED journal
    BY <1>3 DEF ProjectRequest, RequestControl, Subscribe, RequestCrash
<1>4. ClockTick \/ UNCHANGED vars => UNCHANGED journal
    BY DEF ClockTick, vars
<1>5. QED
    BY <1>1, <1>2, <1>3, <1>4, Zenon DEF Next, TurnStart, Tick, Execute, ClientStep

------------------------------------------------------------------------------
(* The status of the conversation *)

(* A conversation runs while one of its runs is active.                     *)
LEMMA RunsWhileActive ==
    ASSUME NEW p, NEW r \in Runs, p[r].state \in ActiveStates
    PROVE  ConversationStatus(p) = "running"
BY Zenon DEF ConversationStatus

(* A step that keeps the read model, or refreshes the status after what it  *)
(* did to the projections, leaves them in agreement.                        *)
LEMMA FreshKept ==
    ASSUME ConversationFresh, UNCHANGED readModel \/ RefreshConversation
    PROVE  ConversationFresh'
<1>1. CASE proj' = proj /\ conversation' = conversation
    <2>1. ConversationStatus(proj') = ConversationStatus(proj)
        BY <1>1, Zenon
    <2>2. QED
        BY <1>1, <2>1, Zenon DEF ConversationFresh
<1>2. CASE RefreshConversation
    BY <1>2, Zenon DEF ConversationFresh, RefreshConversation
<1>3. QED
    BY <1>1, <1>2

(* Whoever projects a batch refreshes the status with it.                   *)
LEMMA ProjectKeepsFresh ==
    ASSUME ConversationFresh, NEW r, NEW lo, NEW hi, NEW rebuild,
           Project(r, lo, hi, rebuild)
    PROVE  ConversationFresh'
<1>1. UNCHANGED readModel \/ RefreshConversation
    BY Zenon DEF Project
<1>2. QED
    BY <1>1, FreshKept

(* No step leaves the status behind the projections: who does not refresh   *)
(* it moves an active run to an active state.                               *)
LEMMA FreshStep ==
    ASSUME TypeOK, ConversationFresh, [Next]_vars
    PROVE  ConversationFresh'
<1>1. CASE UNCHANGED readModel
    BY <1>1, FreshKept
<1>2. ASSUME NEW r \in Runs, AcceptTurn(r)
      PROVE  ConversationFresh'
    <2>1. proj'[r].state \in ActiveStates /\ conversation' = "running"
        BY <1>2 DEF AcceptTurn, TypeOK, ActiveStates
    <2>2. QED
        BY <2>1, RunsWhileActive, Zenon DEF ConversationFresh
<1>3. ASSUME NEW r \in Runs, StartFailProject(r)
      PROVE  ConversationFresh'
    BY <1>3, ProjectKeepsFresh, Zenon DEF StartFailProject
<1>4. ASSUME NEW r \in Runs, StartFailureFails(r)
      PROVE  ConversationFresh'
    <2>1. UNCHANGED readModel \/ RefreshConversation
        BY <1>4, Zenon DEF StartFailureFails
    <2>2. QED
        BY <2>1, FreshKept
<1>5. ASSUME NEW s \in Supervisors, RecoverExpired(s)
      PROVE  ConversationFresh'
    <2>1. CASE \E r \in Runs : Expired(r, clock)
        <3>1. PICK r \in Runs : Expired(r, clock)
            BY <2>1
        <3>2. proj[r].state \in ActiveStates
            BY <3>1 DEF Expired, ActiveStates
        <3>3. proj'[r].state \in ActiveStates
            BY <1>5, <3>1 DEF RecoverExpired, TypeOK, Projections, ActiveStates
        <3>4. ConversationStatus(proj) = "running" /\ ConversationStatus(proj') = "running"
            BY <3>2, <3>3, RunsWhileActive, Zenon
        <3>5. QED
            BY <1>5, <3>4, Zenon DEF RecoverExpired, ConversationFresh
    <2>2. CASE ~ \E r \in Runs : Expired(r, clock)
        <3>1. proj' = proj
            BY <1>5, <2>2 DEF RecoverExpired, TypeOK
        <3>2. QED
            BY <1>5, <3>1, FreshKept DEF RecoverExpired
    <2>3. QED
        BY <2>1, <2>2
<1>6. ASSUME NEW s \in Supervisors, NEW r \in Runs, ClaimTurn(s, r)
      PROVE  ConversationFresh'
    <2>1. proj[r].state \in ActiveStates
        BY <1>6, TargetsAreClaimable DEF ClaimTurn, Claimable, ActiveStates
    <2>2. proj'[r].state \in ActiveStates
        BY <1>6 DEF ClaimTurn, TypeOK, Projections, ActiveStates
    <2>3. ConversationStatus(proj) = "running" /\ ConversationStatus(proj') = "running"
        BY <2>1, <2>2, RunsWhileActive, Zenon
    <2>4. QED
        BY <1>6, <2>3, Zenon DEF ClaimTurn, ConversationFresh
<1>7. ASSUME NEW s \in Supervisors, ApplyJournal(s)
      PROVE  ConversationFresh'
    BY <1>7, ProjectKeepsFresh, Zenon DEF ApplyJournal
<1>8. ASSUME NEW s \in Supervisors, FinishLease(s) \/ FallbackFinish(s)
      PROVE  ConversationFresh'
    <2>1. UNCHANGED readModel \/ RefreshConversation
        BY <1>8, Zenon DEF FinishLease, FallbackFinish
    <2>2. QED
        BY <2>1, FreshKept
<1>9. ASSUME NEW c \in Clients, ProjectRequest(c)
      PROVE  ConversationFresh'
    BY <1>9, ProjectKeepsFresh, Zenon DEF ProjectRequest
<1>10. QED
    BY <1>1, <1>2, <1>3, <1>4, <1>5, <1>6, <1>7, <1>8, <1>9, ReadModelWriters, Zenon

(* For every number of turns, supervisors and clients, and whatever fails:  *)
(* conversations.status is at every moment what the run projections say,    *)
(* although recovery, claim and turn start write projections without        *)
(* computing it.                                                            *)
THEOREM ConversationFreshHolds == Spec => []ConversationFresh
<1>1. Init => ConversationFresh
    <2> SUFFICES ASSUME Init PROVE ConversationFresh
        OBVIOUS
    <2>1. \A r \in Runs : proj[r].state = "absent"
        BY DEF Init
    <2>2. ConversationStatus(proj) = "idle"
        BY <2>1 DEF ConversationStatus, ActiveStates
    <2>3. QED
        BY <2>2 DEF Init, ConversationFresh
<1>2. TypeOK /\ ConversationFresh /\ [Next]_vars => ConversationFresh'
    BY FreshStep
<1>3. QED
    BY <1>1, <1>2, Typing, PTL DEF Spec

------------------------------------------------------------------------------
(* A turn's model is run at most once *)

(* An append adds its event at the end of one journal.                      *)
LEMMA AppendFacts ==
    ASSUME TypeOK, NEW r \in Runs, NEW e \in Events, AppendEvent(r, e)
    PROVE  /\ \A q \in Runs : q # r => journal'[q] = journal[q]
           /\ Len(journal[r]) \in Nat
           /\ Len(journal'[r]) = Len(journal[r]) + 1
           /\ \A i \in 1..Len(journal[r]) : journal'[r][i] = journal[r][i]
           /\ journal'[r][Len(journal[r]) + 1] = e
<1>1. journal' = [journal EXCEPT ![r] = Append(journal[r], e)]
    BY DEF AppendEvent
<1>2. journal \in [Runs -> Seq(Events)]
    BY DEF TypeOK
<1>3. journal[r] \in Seq(Events) /\ journal'[r] = Append(journal[r], e)
    BY <1>1, <1>2
<1>4. \A q \in Runs : q # r => journal'[q] = journal[q]
    BY <1>1, <1>2
<1>5. QED
    BY <1>3, <1>4

(* The ids recorded after an append are those recorded before and its own.  *)
LEMMA AppendRecords ==
    ASSUME TypeOK, NEW r \in Runs, NEW e \in Events, AppendEvent(r, e),
           NEW q \in Runs, NEW f \in Events
    PROVE  Recorded(q, f)' <=>
               Recorded(q, f) \/ (q = r /\ f.tag = e.tag /\ f.n = e.n)
<1>1. CASE q # r
    BY <1>1, AppendFacts DEF Recorded
<1>2. CASE q = r
    <2>1. Recorded(r, f) => Recorded(r, f)'
        BY AppendFacts DEF Recorded
    <2>2. f.tag = e.tag /\ f.n = e.n => Recorded(r, f)'
        BY AppendFacts DEF Recorded
    <2>3. ASSUME NEW i \in 1..Len(journal'[r]),
                 journal'[r][i].tag = f.tag, journal'[r][i].n = f.n
          PROVE  Recorded(r, f) \/ (f.tag = e.tag /\ f.n = e.n)
        <3>1. i \in 1..Len(journal[r]) \/ i = Len(journal[r]) + 1
            BY AppendFacts
        <3>2. CASE i \in 1..Len(journal[r])
            BY <2>3, <3>2, AppendFacts DEF Recorded
        <3>3. CASE i = Len(journal[r]) + 1
            BY <2>3, <3>3, AppendFacts
        <3>4. QED
            BY <3>1, <3>2, <3>3
    <2>4. QED
        BY <1>2, <2>1, <2>2, <2>3 DEF Recorded
<1>3. QED
    BY <1>1, <1>2

(* The execution of a run has recorded how the run ended.                   *)
EndTags == {"completed", "failed"}
Ended(r) == \E i \in 1..Len(journal[r]) : journal[r][i].tag \in EndTags

(* Only an event that ends the run ends it.                                 *)
LEMMA AppendEnds ==
    ASSUME TypeOK, NEW r \in Runs, NEW e \in Events, AppendEvent(r, e), NEW q \in Runs
    PROVE  Ended(q)' <=> Ended(q) \/ (q = r /\ e.tag \in EndTags)
<1>1. CASE q # r
    BY <1>1, AppendFacts DEF Ended
<1>2. CASE q = r
    <2>1. Ended(r) => Ended(r)'
        BY AppendFacts DEF Ended
    <2>2. e.tag \in EndTags => Ended(r)'
        BY AppendFacts DEF Ended
    <2>3. ASSUME NEW i \in 1..Len(journal'[r]), journal'[r][i].tag \in EndTags
          PROVE  Ended(r) \/ e.tag \in EndTags
        <3>1. i \in 1..Len(journal[r]) \/ i = Len(journal[r]) + 1
            BY AppendFacts
        <3>2. CASE i \in 1..Len(journal[r])
            BY <2>3, <3>2, AppendFacts DEF Ended
        <3>3. CASE i = Len(journal[r]) + 1
            BY <2>3, <3>3, AppendFacts
        <3>4. QED
            BY <3>1, <3>2, <3>3
    <2>4. QED
        BY <1>2, <2>1, <2>2, <2>3 DEF Ended
<1>3. QED
    BY <1>1, <1>2

(* A tick that dispatches has journaled the lease of the root item and not  *)
(* yet the end of the run; no two dispatch one run; and a run has one end.  *)
Dispatching ==
    \A s \in Supervisors : pc[s] \in DispatchedPcs =>
        Recorded(held[s].run, LeasedEvent) /\ ~ Ended(held[s].run)
OneDispatcher ==
    \A s, t \in Supervisors :
        {pc[s], pc[t]} \subseteq DispatchedPcs /\ held[s].run = held[t].run => s = t
OneEnd(r) ==
    ~ \E i, j \in 1..Len(journal[r]) :
        journal[r][i].tag = "completed" /\ journal[r][j].tag = "failed"
EndedWasLeased(r) == Ended(r) => Recorded(r, LeasedEvent)
DispatchInv ==
    /\ Dispatching
    /\ OneDispatcher
    /\ \A r \in Runs : OneEnd(r)
    /\ \A r \in Runs : EndedWasLeased(r)

(* A run that has one end keeps it if what is appended is no end, or if it  *)
(* had none before.                                                         *)
LEMMA AppendKeepsOneEnd ==
    ASSUME TypeOK, NEW r \in Runs, NEW e \in Events, AppendEvent(r, e),
           \A q \in Runs : OneEnd(q), e.tag \in EndTags => ~ Ended(r)
    PROVE  \A q \in Runs : OneEnd(q)'
<1> SUFFICES ASSUME NEW q \in Runs,
                    NEW i \in 1..Len(journal'[q]), NEW j \in 1..Len(journal'[q]),
                    journal'[q][i].tag = "completed", journal'[q][j].tag = "failed"
             PROVE  FALSE
    BY DEF OneEnd
<1>1. q = r
    BY AppendFacts DEF OneEnd
<1>2. /\ i \in 1..Len(journal[r]) \/ i = Len(journal[r]) + 1
      /\ j \in 1..Len(journal[r]) \/ j = Len(journal[r]) + 1
    BY <1>1, AppendFacts
<1>3. CASE i \in 1..Len(journal[r]) /\ j \in 1..Len(journal[r])
    BY <1>1, <1>3, AppendFacts DEF OneEnd
<1>4. CASE i = Len(journal[r]) + 1 /\ j \in 1..Len(journal[r])
    BY <1>1, <1>4, AppendFacts DEF Ended, EndTags
<1>5. CASE i \in 1..Len(journal[r]) /\ j = Len(journal[r]) + 1
    BY <1>1, <1>5, AppendFacts DEF Ended, EndTags
<1>6. CASE i = Len(journal[r]) + 1 /\ j = Len(journal[r]) + 1
    BY <1>1, <1>6
<1>7. QED
    BY <1>2, <1>3, <1>4, <1>5, <1>6

(* Nobody starts to dispatch.                                               *)
NoNewDispatcher ==
    \A t \in Supervisors : pc'[t] \in DispatchedPcs =>
        pc[t] \in DispatchedPcs /\ held'[t] = held[t]

(* A step after which nobody else dispatches, and that journals no end,     *)
(* keeps the invariant.                                                     *)
LEMMA DispatchKept ==
    ASSUME TypeOK, DispatchInv, NoNewDispatcher, NEW r \in Runs, NEW e \in Events,
           UNCHANGED journal \/ (AppendEvent(r, e) /\ e.tag \notin EndTags)
    PROVE  DispatchInv'
<1>1. \A s \in Supervisors : held[s].run \in Runs
    BY HeldFields DEF TypeOK
<1>2. LeasedEvent \in Events
    BY FixedEventTypes
<1>3. \A q \in Runs : Recorded(q, LeasedEvent) => Recorded(q, LeasedEvent)'
    <2>1. CASE UNCHANGED journal
        BY <2>1 DEF Recorded
    <2>2. CASE AppendEvent(r, e)
        BY <1>2, <2>2, AppendRecords
    <2>3. QED
        BY <2>1, <2>2
<1>4. \A q \in Runs : Ended(q)' => Ended(q)
    <2>1. CASE UNCHANGED journal
        BY <2>1 DEF Ended
    <2>2. CASE AppendEvent(r, e) /\ e.tag \notin EndTags
        BY <2>2, AppendEnds
    <2>3. QED
        BY <2>1, <2>2
<1>5. \A q \in Runs : OneEnd(q)'
    <2>1. CASE UNCHANGED journal
        BY <2>1 DEF DispatchInv, OneEnd
    <2>2. CASE AppendEvent(r, e) /\ e.tag \notin EndTags
        BY <2>2, AppendKeepsOneEnd DEF DispatchInv
    <2>3. QED
        BY <2>1, <2>2
<1>6. Dispatching'
    <2>1. ASSUME NEW s \in Supervisors, pc'[s] \in DispatchedPcs
          PROVE  (Recorded(held[s].run, LeasedEvent) /\ ~ Ended(held[s].run))'
        <3>1. pc[s] \in DispatchedPcs /\ held'[s] = held[s]
            BY <2>1 DEF NoNewDispatcher
        <3>2. Recorded(held[s].run, LeasedEvent) /\ ~ Ended(held[s].run)
            BY <3>1 DEF DispatchInv, Dispatching
        <3>3. PICK q \in Runs : held[s].run = q
            BY <1>1
        <3>4. Recorded(q, LeasedEvent)' /\ ~ Ended(q)'
            BY <1>3, <1>4, <3>2, <3>3
        <3>5. held'[s].run = q
            BY <3>1, <3>3
        <3>6. QED
            BY <3>4, <3>5 DEF Recorded, Ended
    <2>2. QED
        BY <2>1 DEF Dispatching, DispatchedPcs
<1>7. OneDispatcher'
    BY DEF DispatchInv, OneDispatcher, NoNewDispatcher
<1>8. \A q \in Runs : EndedWasLeased(q)'
    BY <1>3, <1>4 DEF DispatchInv, EndedWasLeased
<1>9. QED
    BY <1>5, <1>6, <1>7, <1>8 DEF DispatchInv

(* Of the steps of a tick only Dispatch makes it one that dispatches.       *)
LEMMA OthersDispatchNothing ==
    ASSUME TypeOK, [Next]_vars
    PROVE  NoNewDispatcher \/ \E s \in Supervisors : Dispatch(s)
<1> USE DEF NoNewDispatcher, TypeOK
<1>1. UNCHANGED <<pc, held>> => NoNewDispatcher
    OBVIOUS
<1>2. ASSUME NEW s \in Supervisors, pc'[s] \notin DispatchedPcs \/ pc[s] \in DispatchedPcs,
             held'[s] = held[s] \/ pc'[s] \notin DispatchedPcs,
             \A t \in Supervisors : t # s => pc'[t] = pc[t] /\ held'[t] = held[t]
      PROVE  NoNewDispatcher
    BY <1>2
<1>3. ASSUME NEW r \in Runs,
             \/ TurnStart(r) \/ AcceptTurn(r) \/ StartFails(r) \/ StartFailureFails(r)
             \/ StartCrash(r)
      PROVE  UNCHANGED <<pc, held>>
    BY <1>3 DEF TurnStart, AcceptTurn, StartFails, StartFailureFails, StartCrash,
                BootstrapTurn, BootstrapAppend, StartFailMessage, StartFailAppend,
                StartFailProject
<1>4. ASSUME NEW c \in Clients,
             \/ ClientStep(c) \/ RequestControl(c) \/ Subscribe(c) \/ RequestCrash(c)
      PROVE  UNCHANGED <<pc, held>>
    BY <1>4 DEF ClientStep, AppendControl, ProjectRequest, RequestControl, Subscribe,
                RequestCrash
<1>5. (\E s \in Supervisors : Heartbeat(s)) \/ ClockTick \/ UNCHANGED vars
          => UNCHANGED <<pc, held>>
    BY DEF Heartbeat, ClockTick, vars
<1>6. ASSUME NEW s \in Supervisors, Leave(s) \/ Fail(s)
      PROVE  NoNewDispatcher
    BY <1>6 DEF Leave, Fail, Goto, DispatchedPcs
<1>7. ASSUME NEW s \in Supervisors, RecoverExpired(s) \/ (\E r \in Runs : ClaimTurn(s, r))
      PROVE  NoNewDispatcher
    BY <1>7 DEF RecoverExpired, ClaimTurn, Goto, DispatchedPcs
<1>8. ASSUME NEW s \in Supervisors,
             \/ ObserveRun(s) \/ SkipMessage(s) \/ ReadJournal(s) \/ ApplyJournal(s)
             \/ AdoptCandidate(s) \/ FinishMessage(s) \/ FailMessage(s)
      PROVE  NoNewDispatcher
    BY <1>8 DEF ObserveRun, SkipMessage, ReadJournal, ApplyJournal, AdoptCandidate,
                FinishMessage, FailMessage, Goto, ContextKept, DispatchedPcs
<1>9. ASSUME NEW s \in Supervisors, ExecuteTurn(s) \/ Adjudicate(s)
      PROVE  NoNewDispatcher
    BY <1>9 DEF ExecuteTurn, Adjudicate, At, Goto, DispatchedPcs
<1>10. ASSUME NEW s \in Supervisors, NEW step, NEW e, NEW present, NEW absent,
              present \notin DispatchedPcs,
              absent \notin DispatchedPcs \/ step \in DispatchedPcs,
              Lookup(s, step, e, present, absent)
       PROVE  NoNewDispatcher
    BY <1>10 DEF Lookup, At, Goto, ContextKept
<1>11. ASSUME NEW s \in Supervisors, NEW step, NEW e, NEW next, next \notin DispatchedPcs,
              TryAppend(s, step, e, next)
       PROVE  NoNewDispatcher
    <2>1. CASE Fail(s)
        BY <2>1, <1>6
    <2>2. CASE Goto(s, next) /\ ContextKept
        BY <1>11, <2>2 DEF Goto, ContextKept
    <2>3. QED
        BY <1>11, <2>1, <2>2, Zenon DEF TryAppend
<1>12. ASSUME NEW s \in Supervisors, EmitRunStarted(s) \/ EmitRunFinished(s) \/ FailAppend(s)
       PROVE  NoNewDispatcher
    <2> HIDE DEF NoNewDispatcher
    <2>1. /\ {"bootstrap", "startAppend", "read"} \cap DispatchedPcs = {}
          /\ "emit" \in DispatchedPcs
        BY DEF DispatchedPcs
    <2>2. "bootstrap" \notin DispatchedPcs /\ "startAppend" \notin DispatchedPcs
          /\ "read" \notin DispatchedPcs
        BY <2>1
    <2>3. QED
        BY <1>10, <1>11, <1>12, <2>1, <2>2, Zenon
           DEF EmitRunStarted, EmitRunFinished, FailAppend
<1>13. ASSUME NEW s \in Supervisors, StartHeartbeat(s)
       PROVE  NoNewDispatcher
    <2>1. CASE Fail(s)
        BY <2>1, <1>6
    <2>2. CASE Goto(s, "start") /\ UNCHANGED held
        BY <2>2 DEF Goto, DispatchedPcs
    <2>3. QED
        BY <1>13, <2>1, <2>2 DEF StartHeartbeat
<1>14. ASSUME NEW s \in Supervisors,
              ClaimNothing(s) \/ FinishLease(s) \/ FallbackFinish(s) \/ Crash(s)
       PROVE  NoNewDispatcher
    BY <1>6, <1>14, Zenon DEF ClaimNothing, FinishLease, FallbackFinish, Crash
<1>15. ASSUME NEW s \in Supervisors, StepFails(s)
       PROVE  NoNewDispatcher
    <2>1. Leave(s) \/ Fail(s) \/ (Goto(s, "failAppend") /\ ContextKept)
        BY <1>15 DEF StepFails
    <2>2. CASE Goto(s, "failAppend") /\ ContextKept
        BY <2>2 DEF Goto, ContextKept, DispatchedPcs
    <2>3. QED
        BY <1>6, <2>1, <2>2
<1> HIDE DEF NoNewDispatcher, TypeOK
<1>16. QED
    BY <1>1, <1>3, <1>4, <1>5, <1>7, <1>8, <1>9, <1>12, <1>13, <1>14, <1>15, Zenon
       DEF Next, Tick, Execute

(* The events the threads write: a tick's own failure is a failed           *)
(* verification, and only a control request pauses a run.                   *)
Written ==
    {e \in Events : /\ e.tag = "supervisor-failed" => e.kind = "VerificationFailed"
                    /\ e.kind = "RunPaused" => "RunPaused" \in ControlKinds}

(* A journal only grows, by one event at a time, under an id of its own;    *)
(* and only EmitRunFinished writes the event that ends a run.               *)
LEMMA JournalStep ==
    ASSUME TypeOK, BatchInJournal, [Next]_vars
    PROVE  \/ UNCHANGED journal
           \/ \E r \in Runs, e \in Written :
                 /\ AppendEvent(r, e)
                 /\ e.tag \in EndTags => \E s \in Supervisors : EmitRunFinished(s)
<1> DEFINE Quiet == \/ UNCHANGED journal
                    \/ \E r \in Runs, e \in Written : AppendEvent(r, e) /\ e.tag \notin EndTags
<1> USE DEF Written
<1>1. \A s \in Supervisors : held[s].run \in Runs /\ now[s] \in Nat
    BY HeldFields DEF TypeOK
<1>2. ASSUME NEW r \in Runs, BootstrapAppend(r) \/ StartFailAppend(r)
      PROVE  Quiet
    <2>1. /\ QueuedEvent \in Written /\ QueuedEvent.tag \notin EndTags
          /\ Event("VerificationFailed", "start-failed", 0) \in Written
          /\ Event("VerificationFailed", "start-failed", 0).tag \notin EndTags
        BY FixedEventTypes DEF QueuedEvent, Event, EndTags
    <2>2. QED
        BY <1>2, <2>1 DEF BootstrapAppend, StartFailAppend
<1>3. ASSUME NEW s \in Supervisors, EmitRunStarted(s)
      PROVE  Quiet
    <2>1. StartedEvent \in Written /\ StartedEvent.tag \notin EndTags
        BY FixedEventTypes DEF StartedEvent, Event, EndTags
    <2>2. QED
        BY <1>1, <1>3, <2>1 DEF EmitRunStarted, Lookup, TryAppend
<1>4. ASSUME NEW s \in Supervisors, Dispatch(s)
      PROVE  Quiet
    <2>1. /\ QueuedEvent \in Written /\ QueuedEvent.tag \notin EndTags
          /\ LeasedEvent \in Written /\ LeasedEvent.tag \notin EndTags
        BY FixedEventTypes DEF QueuedEvent, LeasedEvent, Event, EndTags
    <2>2. QED
        BY <1>1, <1>4, <2>1 DEF Dispatch, Lookup, TryAppend
<1>5. ASSUME NEW s \in Supervisors, ExecuteTurn(s)
      PROVE  Quiet
    <2>1. \A kind \in {"RoleWorkerFailed", "VerificationFailed"} :
              /\ Event(kind, "child-failed", 0) \in Written
              /\ Event(kind, "child-failed", 0).tag \notin EndTags
        BY FixedEventTypes DEF Event, EndTags
    <2>2. /\ Event("VerificationFailed", "root-failed", 0) \in Written
          /\ Event("VerificationFailed", "root-failed", 0).tag \notin EndTags
        BY FixedEventTypes DEF Event, EndTags
    <2>3. QED
        BY <1>1, <1>5, <2>1, <2>2 DEF ExecuteTurn
<1>6. ASSUME NEW s \in Supervisors, EmitRunFinished(s)
      PROVE  UNCHANGED journal \/ \E r \in Runs, e \in Written : AppendEvent(r, e)
    <2>1. FinalEvent(s) \in Written
        BY FixedEventTypes DEF FinalEvent, Event
    <2>2. QED
        BY <1>1, <1>6, <2>1 DEF EmitRunFinished, Lookup, TryAppend
<1>7. ASSUME NEW s \in Supervisors, FailAppend(s)
      PROVE  Quiet
    <2>1. /\ Event("VerificationFailed", "supervisor-failed", now[s]) \in Written
          /\ Event("VerificationFailed", "supervisor-failed", now[s]).tag \notin EndTags
        BY <1>1, FixedEventTypes DEF Event, EndTags
    <2>2. QED
        BY <1>1, <1>7, <2>1 DEF FailAppend, TryAppend
<1>8. ASSUME NEW c \in Clients, AppendControl(c)
      PROVE  Quiet
    <2> DEFINE e == Event(request[c].kind, "control", request[c].next)
    <2>1. request[c].run \in Runs /\ request[c].next \in Nat
        BY RequestFields DEF TypeOK
    <2>2. e \in Written /\ e.tag \notin EndTags
        BY <1>8, <2>1, FixedEventTypes DEF AppendControl, BatchInJournal, Event, EndTags
    <2>3. AppendEvent(request[c].run, e) \/ UNCHANGED journal
        BY <1>8 DEF AppendControl
    <2> HIDE DEF e
    <2>4. QED
        BY <2>1, <2>2, <2>3
<1> HIDE DEF Written
<1>9. QED
    BY <1>2, <1>3, <1>4, <1>5, <1>6, <1>7, <1>8, JournalWriters, Zenon

(* A dispatch begins with the lease event of the root item, which only one  *)
(* can append.                                                              *)
LEMMA DispatchBegins ==
    ASSUME TypeOK, DispatchInv,
           NEW s \in Supervisors, TryAppend(s, "dispatch", LeasedEvent, "dispatching")
    PROVE  DispatchInv'
<1> DEFINE r == held[s].run
<1>1. r \in Runs /\ LeasedEvent \in Events /\ LeasedEvent.tag \notin EndTags
    BY HeldFields, FixedEventTypes DEF TypeOK, LeasedEvent, Event, EndTags
<1>2. CASE Fail(s) /\ UNCHANGED journal
    <2>1. NoNewDispatcher
        BY <1>2 DEF NoNewDispatcher, TypeOK, Fail, Goto, DispatchedPcs
    <2>2. QED
        BY <1>1, <1>2, <2>1, DispatchKept
<1>3. CASE AppendEvent(r, LeasedEvent) /\ Goto(s, "dispatching") /\ ContextKept
    <2>1. ~ Recorded(r, LeasedEvent) /\ ~ Ended(r)
        BY <1>1, <1>3 DEF AppendEvent, DispatchInv, EndedWasLeased
    <2>2. \A t \in Supervisors : pc[t] \in DispatchedPcs => held[t].run # r
        BY <2>1 DEF DispatchInv, Dispatching
    <2>3. held' = held /\ \A t \in Supervisors : t # s => pc'[t] = pc[t]
        BY <1>3 DEF Goto, ContextKept, TypeOK
    <2>4. OneDispatcher'
        BY <2>2, <2>3 DEF OneDispatcher, DispatchInv
    <2>5. \A q \in Runs : OneEnd(q)'
        BY <1>1, <1>3, AppendKeepsOneEnd DEF DispatchInv
    <2>6. \A q \in Runs : (Recorded(q, LeasedEvent) => Recorded(q, LeasedEvent)')
                          /\ (Ended(q)' => Ended(q))
        BY <1>1, <1>3, AppendRecords, AppendEnds
    <2>7. \A q \in Runs : q = r => Recorded(q, LeasedEvent)'
        BY <1>1, <1>3, AppendRecords
    <2>8. Dispatching'
        <3>1. ASSUME NEW t \in Supervisors, pc'[t] \in DispatchedPcs
              PROVE  (Recorded(held[t].run, LeasedEvent) /\ ~ Ended(held[t].run))'
            <4>1. CASE t = s
                BY <1>1, <2>1, <2>3, <2>6, <2>7, <4>1 DEF Recorded, Ended
            <4>2. CASE t # s
                <5>1. Recorded(held[t].run, LeasedEvent) /\ ~ Ended(held[t].run)
                    BY <2>3, <3>1, <4>2 DEF DispatchInv, Dispatching
                <5>2. held[t].run \in Runs
                    BY HeldFields DEF TypeOK
                <5>3. QED
                    BY <2>3, <2>6, <5>1, <5>2 DEF Recorded, Ended
            <4>3. QED
                BY <4>1, <4>2
        <3>2. QED
            BY <3>1 DEF Dispatching, DispatchedPcs
    <2>9. \A q \in Runs : EndedWasLeased(q)'
        BY <2>6 DEF DispatchInv, EndedWasLeased
    <2>10. QED
        BY <2>4, <2>5, <2>8, <2>9 DEF DispatchInv
<1>4. QED
    BY <1>2, <1>3 DEF TryAppend

(* The end of a run is recorded by its one dispatcher, which stops to be    *)
(* one.                                                                     *)
LEMMA FinishEnds ==
    ASSUME TypeOK, DispatchInv, NEW s \in Supervisors,
           TryAppend(s, "emitAppend", FinalEvent(s), "read")
    PROVE  DispatchInv'
<1> DEFINE r == held[s].run
           e == FinalEvent(s)
<1>1. r \in Runs /\ e \in Events
    BY HeldFields, FixedEventTypes DEF TypeOK
<1>2. pc[s] \in DispatchedPcs
    BY DEF TryAppend, At, DispatchedPcs
<1>3. Recorded(r, LeasedEvent) /\ ~ Ended(r)
    BY <1>2 DEF DispatchInv, Dispatching
<1>4. /\ pc'[s] \notin DispatchedPcs /\ held' = held
      /\ \A t \in Supervisors : t # s => pc'[t] = pc[t]
    BY DEF TryAppend, Fail, Goto, ContextKept, TypeOK, DispatchedPcs
<1>5. \A t \in Supervisors : pc'[t] \in DispatchedPcs =>
          pc[t] \in DispatchedPcs /\ held'[t] = held[t] /\ held[t].run # r
    BY <1>2, <1>4 DEF DispatchInv, OneDispatcher
<1>6. CASE UNCHANGED journal
    <2>1. NoNewDispatcher /\ LeasedEvent \in Events
        BY <1>5, FixedEventTypes DEF NoNewDispatcher
    <2>2. QED
        BY <1>1, <1>6, <2>1, DispatchKept
<1>7. CASE AppendEvent(r, e)
    <2> HIDE DEF e
    <2>1. \A q \in Runs : OneEnd(q)'
        BY <1>1, <1>3, <1>7, AppendKeepsOneEnd DEF DispatchInv
    <2>2. OneDispatcher'
        BY <1>5 DEF DispatchInv, OneDispatcher
    <2>3. LeasedEvent \in Events
        BY FixedEventTypes
    <2>4. \A q \in Runs : /\ Recorded(q, LeasedEvent) => Recorded(q, LeasedEvent)'
                          /\ Ended(q)' => Ended(q) \/ q = r
        BY <1>1, <1>7, <2>3, AppendRecords, AppendEnds
    <2>5. Dispatching'
        <3>1. ASSUME NEW t \in Supervisors, pc'[t] \in DispatchedPcs
              PROVE  (Recorded(held[t].run, LeasedEvent) /\ ~ Ended(held[t].run))'
            <4>1. /\ Recorded(held[t].run, LeasedEvent) /\ ~ Ended(held[t].run)
                  /\ held'[t] = held[t] /\ held[t].run # r
                BY <1>5, <3>1 DEF DispatchInv, Dispatching
            <4>2. held[t].run \in Runs
                BY HeldFields DEF TypeOK
            <4>3. QED
                BY <2>4, <4>1, <4>2 DEF Recorded, Ended
        <3>2. QED
            BY <3>1 DEF Dispatching, DispatchedPcs
    <2>6. \A q \in Runs : EndedWasLeased(q)'
        BY <1>3, <2>4 DEF DispatchInv, EndedWasLeased
    <2>7. QED
        BY <2>1, <2>2, <2>5, <2>6 DEF DispatchInv
<1>8. QED
    BY <1>6, <1>7, Zenon DEF TryAppend, storeVars

(* Every step keeps to one dispatch per run.                                *)
LEMMA DispatchStep ==
    ASSUME TypeOK, BatchInJournal, DispatchInv, [Next]_vars
    PROVE  DispatchInv'
<1>1. \A s \in Supervisors : held[s].run \in Runs
    BY HeldFields DEF TypeOK
<1>2. ASSUME NEW s \in Supervisors, Dispatch(s)
      PROVE  DispatchInv'
    <2>1. CASE TryAppend(s, "dispatch", LeasedEvent, "dispatching")
        BY <2>1, DispatchBegins
    <2>2. CASE Lookup(s, "bootstrap", QueuedEvent, "dispatch", "bootstrapAppend")
        <3>1. NoNewDispatcher /\ UNCHANGED journal
            BY <2>2 DEF Lookup, Goto, ContextKept, TypeOK, NoNewDispatcher, DispatchedPcs
        <3>2. QED
            BY <1>1, <3>1, DispatchKept, FixedEventTypes
    <2>3. CASE TryAppend(s, "bootstrapAppend", QueuedEvent, "dispatch")
        <3>1. NoNewDispatcher
            BY <2>3 DEF TryAppend, Fail, Goto, ContextKept, TypeOK, NoNewDispatcher,
                        DispatchedPcs
        <3>2. QueuedEvent \in Events /\ QueuedEvent.tag \notin EndTags
            BY FixedEventTypes DEF QueuedEvent, Event, EndTags
        <3>3. UNCHANGED journal \/ AppendEvent(held[s].run, QueuedEvent)
            BY <2>3 DEF TryAppend
        <3>4. QED
            BY <1>1, <3>1, <3>2, <3>3, DispatchKept
    <2>4. QED
        BY <1>2, <2>1, <2>2, <2>3 DEF Dispatch
<1>3. ASSUME NEW s \in Supervisors, EmitRunFinished(s)
      PROVE  DispatchInv'
    <2>1. CASE TryAppend(s, "emitAppend", FinalEvent(s), "read")
        BY <2>1, FinishEnds
    <2>2. CASE Lookup(s, "emit", FinalEvent(s), "read", "emitAppend")
        <3>1. NoNewDispatcher /\ UNCHANGED journal
            BY <2>2 DEF Lookup, At, Goto, ContextKept, TypeOK, NoNewDispatcher,
                        DispatchedPcs
        <3>2. QED
            BY <1>1, <3>1, DispatchKept, FixedEventTypes
    <2>3. QED
        BY <1>3, <2>1, <2>2 DEF EmitRunFinished
<1>4. ASSUME NoNewDispatcher,
             \/ UNCHANGED journal
             \/ \E r \in Runs, e \in Written : AppendEvent(r, e) /\ e.tag \notin EndTags
      PROVE  DispatchInv'
    <2>1. 1 \in Runs /\ QueuedEvent \in Events
        BY TurnSupervisorAssumption, FixedEventTypes DEF Runs
    <2>2. CASE UNCHANGED journal
        BY <1>4, <2>1, <2>2, DispatchKept
    <2>3. CASE \E r \in Runs, e \in Written : AppendEvent(r, e) /\ e.tag \notin EndTags
        BY <1>4, <2>3, DispatchKept DEF Written
    <2>4. QED
        BY <1>4, <2>2, <2>3
<1>5. QED
    BY <1>2, <1>3, <1>4, OthersDispatchNothing, JournalStep, Zenon

(* For every number of turns, ticks and clients, and whatever leases        *)
(* expire, rebuilds queue again and processes die: the model of a turn is   *)
(* run by one tick only, and no run is recorded as completed and as failed. *)
(* The id of the root item's lease event is what two dispatches collide     *)
(* over; the leases alone would not prevent it.                             *)
THEOREM DispatchedOnceHolds == Spec => []DispatchedOnce
<1>1. Init => DispatchInv
    BY DEF Init, DispatchInv, Dispatching, OneDispatcher, OneEnd, EndedWasLeased, Ended,
           DispatchedPcs
<1>2. TypeInv /\ DispatchInv /\ [Next]_vars => DispatchInv'
    BY DispatchStep DEF TypeInv
<1>3. DispatchInv => DispatchedOnce
    BY DEF DispatchInv, OneDispatcher, OneEnd, DispatchedOnce
<1>4. QED
    BY <1>1, <1>2, <1>3, TypeInvariance, PTL DEF Spec

------------------------------------------------------------------------------
(* What the read model says of an end is in the journal *)

(* What stands behind an end the read model shows: the event, or a failure  *)
(* arm that could not record the failure.                                   *)
EndRecorded(r, end) == \E i \in 1..Len(journal[r]) : journal[r][i].kind = EndKind(end)
FailureLost ==
    \/ budget["failureError"] < Budget["failureError"]
    \/ budget["startError"] < Budget["startError"]
Evidence(r, end) == EndRecorded(r, end) \/ (end = "failed" /\ FailureLost)

(* A terminal state is that of the events of one kind.                      *)
LEMMA EndOfState ==
    ASSUME NEW kind \in EventKinds, StateOf(kind) \in TerminalStates
    PROVE  kind = EndKind(StateOf(kind))
BY DEF EventKinds, StateOf, EndKind, TerminalStates

(* A batch takes an active run to an end only with the event of that end;   *)
(* and it has a terminal kind only with the event of that kind.             *)
LEMMA EndInBatch ==
    ASSUME NEW events \in Seq(Events), NEW current \in RunStates
    PROVE  /\ StateAfter(current, events) \in TerminalStates =>
                  \/ StateAfter(current, events) = current
                  \/ \E i \in 1..Len(events) :
                        events[i].kind = EndKind(StateAfter(current, events))
           /\ TerminalKind(events) \in TerminalStates =>
                  \E i \in 1..Len(events) : events[i].kind = EndKind(TerminalKind(events))
<1> DEFINE terminal == Positions(events, TerminalStates)
           active == Positions(events, {"running", "paused"})
<1>1. /\ terminal \in SUBSET (1..Len(events)) /\ active \in SUBSET (1..Len(events))
      /\ Len(events) \in Nat
    BY DEF Positions
<1>2. ASSUME NEW i \in terminal
      PROVE  events[i].kind = EndKind(StateOf(events[i].kind))
    <2>1. /\ i \in 1..Len(events) /\ events[i] \in Events
          /\ StateOf(events[i].kind) \in TerminalStates
        BY <1>2 DEF Positions
    <2>2. QED
        BY <2>1, EndOfState DEF Events
<1>3. terminal # {} => Earliest(terminal) \in terminal /\ Latest(terminal) \in terminal
    <2>1. terminal \in SUBSET Nat
        BY <1>1
    <2>2. QED
        BY <1>1, <2>1, EarliestExists, LatestExists
<1>4. active # {} => StateOf(events[Latest(active)].kind) \in {"running", "paused"}
    <2>1. active # {} => Latest(active) \in active
        BY <1>1, LatestExists
    <2>2. QED
        BY <2>1 DEF Positions
<1> HIDE DEF terminal, active
<1>5. StateAfter(current, events) =
        IF current \in TerminalStates THEN current
        ELSE IF terminal # {} THEN StateOf(events[Earliest(terminal)].kind)
        ELSE IF active # {} THEN StateOf(events[Latest(active)].kind)
        ELSE current
    BY Zenon DEF StateAfter, terminal, active
<1>6. TerminalKind(events) = IF terminal = {} THEN "none"
                             ELSE StateOf(events[Latest(terminal)].kind)
    BY Zenon DEF TerminalKind, terminal
<1>7. ASSUME StateAfter(current, events) \in TerminalStates,
             StateAfter(current, events) # current
      PROVE  \E i \in 1..Len(events) :
                 events[i].kind = EndKind(StateAfter(current, events))
    <2>1. terminal # {} /\ StateAfter(current, events) = StateOf(events[Earliest(terminal)].kind)
        BY <1>4, <1>5, <1>7 DEF TerminalStates
    <2>2. QED
        BY <1>1, <1>2, <1>3, <2>1
<1>8. ASSUME TerminalKind(events) \in TerminalStates
      PROVE  \E i \in 1..Len(events) : events[i].kind = EndKind(TerminalKind(events))
    <2>1. terminal # {} /\ TerminalKind(events) = StateOf(events[Latest(terminal)].kind)
        BY <1>6, <1>8 DEF TerminalStates
    <2>2. QED
        BY <1>1, <1>2, <1>3, <2>1
<1>9. QED
    BY <1>7, <1>8

(* A projection shows no end that is not in the journal, unless the run     *)
(* had it before.                                                           *)
LEMMA ProjectKeepsEvidence ==
    ASSUME TypeOK, TerminalHasEvidence, UNCHANGED <<journal, budget>>,
           NEW r \in Runs, NEW lo \in Nat \ {0}, NEW hi \in Nat,
           hi <= Len(journal[r]), NEW rebuild, Project(r, lo, hi, rebuild)
    PROVE  TerminalHasEvidence'
<1>1. CASE lo > hi
    BY <1>1 DEF Project, TerminalHasEvidence
<1>2. CASE ~ (lo > hi)
    <2> DEFINE batch == SubSeq(journal[r], lo, hi)
               before == IF rebuild THEN "queued" ELSE proj[r].state
               kind == IF cursor[r].kind # "none" /\ ~rebuild THEN cursor[r].kind
                       ELSE TerminalKind(batch)
    <2>1. journal[r] \in Seq(Events) /\ Len(journal[r]) \in Nat
        BY DEF TypeOK
    <2>2. batch \in Seq(Events)
        BY <1>2, <2>1
    <2>3. proj[r] \in Projections /\ cursor[r] \in Cursors
        BY DEF TypeOK
    <2>4. before \in RunStates
        BY <2>3 DEF Projections, RunStates, ActiveStates
    <2>5. /\ proj'[r].state = StateAfter(before, batch)
          /\ cursor'[r].kind = kind
          /\ \A q \in Runs : q # r => proj'[q] = proj[q] /\ cursor'[q] = cursor[q]
        BY <1>2, <2>3 DEF Project, TypeOK
    <2>6. \A i \in 1..Len(batch) : /\ lo + i - 1 \in 1..Len(journal[r])
                                   /\ batch[i] = journal[r][lo + i - 1]
        BY <1>2, <2>1
    <2>7. \A end : (\E i \in 1..Len(batch) : batch[i].kind = EndKind(end)) =>
                       EndRecorded(r, end)
        BY <2>6 DEF EndRecorded
    <2> HIDE DEF batch, before, kind
    <2>8. ASSUME proj'[r].state \in TerminalStates
          PROVE  proj'[r].state = proj[r].state \/ EndRecorded(r, proj'[r].state)
        <3>1. before \in TerminalStates => before = proj[r].state
            BY DEF before, TerminalStates
        <3>2. QED
            BY <2>2, <2>4, <2>5, <2>7, <2>8, <3>1, EndInBatch
    <2>9. ASSUME cursor'[r].kind \in TerminalStates
          PROVE  cursor'[r].kind = cursor[r].kind \/ EndRecorded(r, cursor'[r].kind)
        <3>1. kind = cursor[r].kind \/ kind = TerminalKind(batch)
            BY DEF kind
        <3>2. QED
            BY <2>2, <2>4, <2>5, <2>7, <2>9, <3>1, EndInBatch
    <2>10. ASSUME NEW q \in Runs, NEW end \in {proj'[q].state, cursor'[q].kind} \cap TerminalStates
           PROVE  Evidence(q, end)
        <3>1. end \in {proj[q].state, cursor[q].kind} \/ EndRecorded(q, end)
            BY <2>5, <2>8, <2>9, <2>10
        <3>2. QED
            BY <2>10, <3>1 DEF TerminalHasEvidence, Evidence, EndRecorded, FailureLost
    <2>11. QED
        BY <2>10 DEF TerminalHasEvidence, Evidence, EndRecorded, FailureLost
<1>3. QED
    BY <1>1, <1>2

(* What touches the budgets spends from one.                                *)
LEMMA BudgetWriters ==
    ASSUME [Next]_vars
    PROVE  UNCHANGED budget \/ \E kind \in BudgetKinds : Spend(kind)
<1>1. ASSUME NEW r \in Runs,
             \/ TurnStart(r) \/ AcceptTurn(r) \/ StartFails(r) \/ StartFailureFails(r)
             \/ StartCrash(r)
      PROVE  UNCHANGED budget \/ \E kind \in BudgetKinds : Spend(kind)
    BY <1>1 DEF TurnStart, AcceptTurn, StartFails, StartFailureFails, StartCrash,
                BootstrapTurn, BootstrapAppend, StartFailMessage, StartFailAppend,
                StartFailProject, BudgetKinds
<1>2. ASSUME NEW s \in Supervisors, Tick(s) \/ Heartbeat(s)
      PROVE  UNCHANGED budget
    BY <1>2 DEF Tick, Execute, Heartbeat, RecoverExpired, ClaimTurn, ClaimNothing,
                ObserveRun, SkipMessage, ReadJournal, ApplyJournal, AdoptCandidate,
                StartHeartbeat, EmitRunStarted, Dispatch, ExecuteTurn, Adjudicate,
                EmitRunFinished, FinishMessage, FinishLease, FailMessage, FailAppend,
                FallbackFinish, Lookup, TryAppend
<1>3. ASSUME NEW s \in Supervisors, StepFails(s) \/ Crash(s)
      PROVE  \E kind \in BudgetKinds : Spend(kind)
    BY <1>3 DEF StepFails, Crash, BudgetKinds
<1>4. ASSUME NEW c \in Clients,
             \/ ClientStep(c) \/ RequestControl(c) \/ Subscribe(c) \/ RequestCrash(c)
      PROVE  UNCHANGED budget \/ \E kind \in BudgetKinds : Spend(kind)
    BY <1>4 DEF ClientStep, AppendControl, ProjectRequest, RequestControl, Subscribe,
                RequestCrash, BudgetKinds
<1>5. ClockTick \/ UNCHANGED vars => UNCHANGED budget
    BY DEF ClockTick, vars
<1>6. QED
    BY <1>1, <1>2, <1>3, <1>4, <1>5, Zenon DEF Next

(* Budgets are never refilled.                                              *)
LEMMA BudgetStep ==
    ASSUME TypeOK, [Next]_vars
    PROVE  \A k \in BudgetKinds : budget'[k] \in Nat /\ budget'[k] <= budget[k]
<1>1. UNCHANGED budget \/ \E kind \in BudgetKinds : Spend(kind)
    BY BudgetWriters
<1>2. budget \in [BudgetKinds -> Nat]
    BY DEF TypeOK
<1>3. ASSUME NEW kind \in BudgetKinds, Spend(kind)
      PROVE  \A k \in BudgetKinds : budget'[k] \in Nat /\ budget'[k] <= budget[k]
    <2>1. /\ budget[kind] \in Nat /\ budget[kind] > 0
          /\ budget' = [budget EXCEPT ![kind] = budget[kind] - 1]
        BY <1>2, <1>3 DEF Spend
    <2>2. QED
        BY <1>2, <2>1
<1>4. QED
    BY <1>1, <1>2, <1>3

(* What stands behind an end stays.                                         *)
LEMMA EvidenceStays ==
    ASSUME TypeOK, BatchInJournal, [Next]_vars
    PROVE  /\ \A r \in Runs, end \in TerminalStates : Evidence(r, end) => Evidence(r, end)'
           /\ FailureLost => FailureLost'
<1>1. FailureLost => FailureLost'
    <2>1. \A k \in {"failureError", "startError"} :
              budget'[k] \in Int /\ budget[k] \in Int /\ Budget[k] \in Int
                  /\ budget'[k] <= budget[k]
        <3>1. budget \in [BudgetKinds -> Nat] /\ Budget \in [BudgetKinds -> Nat]
            BY TurnSupervisorAssumption DEF TypeOK
        <3>2. QED
            BY <3>1, BudgetStep DEF BudgetKinds
    <2>2. QED
        BY <2>1 DEF FailureLost
<1>2. \A r \in Runs, end \in TerminalStates : EndRecorded(r, end) => EndRecorded(r, end)'
    <2>1. CASE UNCHANGED journal
        BY <2>1 DEF EndRecorded
    <2>2. ASSUME NEW q \in Runs, NEW e \in Events, AppendEvent(q, e)
          PROVE  \A r \in Runs, end \in TerminalStates :
                     EndRecorded(r, end) => EndRecorded(r, end)'
        <3>1. ASSUME NEW r \in Runs, NEW i \in 1..Len(journal[r])
              PROVE  i \in 1..Len(journal'[r]) /\ journal'[r][i] = journal[r][i]
            <4>1. CASE r # q
                BY <2>2, <4>1, AppendFacts
            <4>2. CASE r = q
                BY <2>2, <3>1, <4>2, AppendFacts
            <4>3. QED
                BY <4>1, <4>2
        <3>2. QED
            BY <3>1 DEF EndRecorded
    <2>3. QED
        BY <2>1, <2>2, JournalStep DEF Written
<1>3. QED
    BY <1>1, <1>2 DEF Evidence

(* The places of a tick that has failed: its failure arm.                   *)
FailureArm == {"failMessage", "failAppend", "read", "apply", "finish", "fallback"}

(* A tick that failed is in its failure arm; one that falls back to write   *)
(* "failed" itself and may still do so has the failure in the journal, or   *)
(* could not record it; what a tick journals of its failure is a failed     *)
(* verification; and budgets are only spent.                                *)
ErrorInArm == \A s \in Supervisors : outcome[s] = "error" => pc[s] \in FailureArm
FallbackKnown ==
    \A s \in Supervisors :
        pc[s] = "fallback" /\ HoldsLease(s) => Evidence(held[s].run, "failed")
FailuresFail ==
    \A r \in Runs : \A i \in 1..Len(journal[r]) :
        journal[r][i].tag = "supervisor-failed" => journal[r][i].kind = "VerificationFailed"
Spent == \A k \in BudgetKinds : budget[k] <= Budget[k]
EvidenceInv == ErrorInArm /\ FallbackKnown /\ FailuresFail /\ Spent

(* The arm is entered at its beginning, and its fallback from three steps.  *)
ArmStep(t) ==
    /\ outcome'[t] = "error" => pc'[t] \in FailureArm
    /\ pc'[t] = "fallback" =>
           /\ held'[t] = held[t]
           /\ pc[t] = "fallback" \/ FailAppend(t) \/ FinishLease(t) \/ StepFails(t)

(* Every step is such a step for every tick.                                *)
LEMMA ArmSteps ==
    ASSUME TypeOK, ErrorInArm, [Next]_vars
    PROVE  \A t \in Supervisors : ArmStep(t)
<1> DEFINE Others(s) == \A t \in Supervisors : t # s =>
               pc'[t] = pc[t] /\ held'[t] = held[t] /\ outcome'[t] = outcome[t]
           Kept == \A t \in Supervisors : ArmStep(t)
<1> USE DEF TypeOK, ErrorInArm
<1>1. UNCHANGED <<pc, held, outcome>> => Kept
    BY DEF ArmStep
<1>2. ASSUME NEW s \in Supervisors, Others(s), ArmStep(s)
      PROVE  Kept
    BY <1>2 DEF ArmStep
<1>3. ASSUME NEW s \in Supervisors, Fail(s), outcome[s] # "error"
      PROVE  Others(s) /\ ArmStep(s)
    BY <1>3 DEF Fail, Goto, ArmStep, FailureArm
<1>4. ASSUME NEW s \in Supervisors, Leave(s)
      PROVE  Others(s) /\ ArmStep(s)
    BY <1>4 DEF Leave, ArmStep
<1>5. ASSUME NEW s \in Supervisors, NEW step \in TickSteps \ {"fallback"}, Goto(s, step),
             UNCHANGED <<held, outcome>>,
             step \in FailureArm \/ pc[s] \notin FailureArm
      PROVE  Others(s) /\ ArmStep(s)
    BY <1>5 DEF Goto, ArmStep
<1>6. ASSUME NEW s \in Supervisors, NEW step \in TickSteps \ {"fallback"}, Goto(s, step),
             UNCHANGED held, NEW o, o # "error", outcome' = [outcome EXCEPT ![s] = o]
      PROVE  Others(s) /\ ArmStep(s)
    BY <1>6 DEF Goto, ArmStep
<1>7. ASSUME NEW r \in Runs,
             \/ TurnStart(r) \/ AcceptTurn(r) \/ StartFails(r) \/ StartFailureFails(r)
             \/ StartCrash(r)
      PROVE  UNCHANGED <<pc, held, outcome>>
    BY <1>7 DEF TurnStart, AcceptTurn, StartFails, StartFailureFails, StartCrash,
                BootstrapTurn, BootstrapAppend, StartFailMessage, StartFailAppend,
                StartFailProject
<1>8. ASSUME NEW c \in Clients,
             \/ ClientStep(c) \/ RequestControl(c) \/ Subscribe(c) \/ RequestCrash(c)
      PROVE  UNCHANGED <<pc, held, outcome>>
    BY <1>8 DEF ClientStep, AppendControl, ProjectRequest, RequestControl, Subscribe,
                RequestCrash
<1>9. (\E s \in Supervisors : Heartbeat(s)) \/ ClockTick \/ UNCHANGED vars
          => UNCHANGED <<pc, held, outcome>>
    BY DEF Heartbeat, ClockTick, vars
<1>10. ASSUME NEW s \in Supervisors, RecoverExpired(s)
       PROVE  Others(s) /\ ArmStep(s)
    BY <1>10 DEF RecoverExpired, At, Goto, ArmStep, FailureArm
<1>11. ASSUME NEW s \in Supervisors, NEW r \in Runs, ClaimTurn(s, r)
       PROVE  Others(s) /\ ArmStep(s)
    BY <1>11 DEF ClaimTurn, At, Goto, ArmStep, FailureArm
<1>12. ASSUME NEW s \in Supervisors,
              ObserveRun(s) \/ AdoptCandidate(s) \/ ExecuteTurn(s) \/ Adjudicate(s)
       PROVE  Others(s) /\ ArmStep(s)
    BY <1>12 DEF ObserveRun, AdoptCandidate, ExecuteTurn, Adjudicate, At, Goto, ArmStep,
                 FailureArm
<1>13. ASSUME NEW s \in Supervisors, SkipMessage(s) \/ ReadJournal(s) \/ ApplyJournal(s)
              \/ FinishMessage(s) \/ FailMessage(s)
       PROVE  Others(s) /\ ArmStep(s)
    BY <1>13 DEF SkipMessage, ReadJournal, ApplyJournal, FinishMessage, FailMessage, At,
                 Goto, ContextKept, ArmStep, FailureArm
<1>14. ASSUME NEW s \in Supervisors, NEW step, NEW e,
              NEW present \in TickSteps \ {"fallback"}, NEW absent \in TickSteps \ {"fallback"},
              step \notin FailureArm, Lookup(s, step, e, present, absent)
       PROVE  Others(s) /\ ArmStep(s)
    <2>1. PICK next \in TickSteps \ {"fallback"} : Goto(s, next)
        BY <1>14, Zenon DEF Lookup
    <2>2. UNCHANGED <<held, outcome>> /\ pc[s] \notin FailureArm
        BY <1>14 DEF Lookup, ContextKept, At
    <2>3. QED
        BY <1>5, <2>1, <2>2
<1>15. ASSUME NEW s \in Supervisors, NEW step, NEW e,
              NEW next \in TickSteps \ {"fallback"}, step \notin FailureArm,
              TryAppend(s, step, e, next)
       PROVE  Others(s) /\ ArmStep(s)
    <2>1. pc[s] \notin FailureArm /\ outcome[s] # "error"
        BY <1>15 DEF TryAppend, At
    <2>2. CASE Fail(s)
        BY <1>3, <2>1, <2>2
    <2>3. CASE Goto(s, next) /\ UNCHANGED <<held, outcome>>
        BY <1>5, <1>15, <2>1, <2>3
    <2>4. QED
        BY <1>15, <2>2, <2>3 DEF TryAppend, ContextKept
<1>16. ASSUME NEW s \in Supervisors, EmitRunStarted(s) \/ Dispatch(s) \/ EmitRunFinished(s)
       PROVE  Others(s) /\ ArmStep(s)
    <2>1. /\ \A step \in {"start", "startAppend", "bootstrap", "bootstrapAppend", "dispatch",
                          "emit", "emitAppend"} : step \notin FailureArm
          /\ {"bootstrap", "startAppend", "bootstrapAppend", "dispatch", "dispatching",
              "emitAppend", "read"} \subseteq TickSteps \ {"fallback"}
        BY DEF FailureArm, TickSteps
    <2>2. CASE EmitRunStarted(s)
        BY <1>14, <1>15, <2>1, <2>2, Zenon DEF EmitRunStarted
    <2>3. CASE Dispatch(s)
        BY <1>14, <1>15, <2>1, <2>3, Zenon DEF Dispatch
    <2>4. CASE EmitRunFinished(s)
        BY <1>14, <1>15, <2>1, <2>4, Zenon DEF EmitRunFinished
    <2>5. QED
        BY <1>16, <2>2, <2>3, <2>4
<1>17. ASSUME NEW s \in Supervisors, StartHeartbeat(s)
       PROVE  Others(s) /\ ArmStep(s)
    <2>1. outcome[s] # "error"
        BY <1>17 DEF StartHeartbeat, At, FailureArm
    <2>2. CASE Fail(s)
        BY <1>3, <2>1, <2>2
    <2>3. CASE Goto(s, "start") /\ UNCHANGED <<held, outcome>>
        BY <2>1, <2>3 DEF Goto, ArmStep
    <2>4. QED
        BY <1>17, <2>2, <2>3 DEF StartHeartbeat
<1>18. ASSUME NEW s \in Supervisors,
              ClaimNothing(s) \/ FallbackFinish(s) \/ Crash(s)
       PROVE  Others(s) /\ ArmStep(s)
    BY <1>4, <1>18, Zenon DEF ClaimNothing, FallbackFinish, Crash
<1>19. ASSUME NEW s \in Supervisors, FinishLease(s)
       PROVE  Others(s) /\ ArmStep(s)
    <2>1. Leave(s) \/ Fail(s)
        BY <1>19 DEF FinishLease
    <2>2. CASE Fail(s)
        BY <1>19, <2>2 DEF Fail, Goto, ArmStep, FailureArm
    <2>3. QED
        BY <1>4, <2>1, <2>2
<1>20. ASSUME NEW s \in Supervisors, FailAppend(s)
       PROVE  Others(s) /\ ArmStep(s)
    <2>1. Fail(s) \/ (Goto(s, "read") /\ UNCHANGED <<held, outcome>>)
        BY <1>20 DEF FailAppend, TryAppend, ContextKept
    <2>2. QED
        BY <1>20, <2>1 DEF Fail, Goto, ArmStep, FailureArm
<1>21. ASSUME NEW s \in Supervisors, StepFails(s)
       PROVE  Others(s) /\ ArmStep(s)
    <2>1. Leave(s) \/ Fail(s) \/ (Goto(s, "failAppend") /\ ContextKept)
        BY <1>21 DEF StepFails
    <2>2. CASE Fail(s) \/ (Goto(s, "failAppend") /\ ContextKept)
        BY <1>21, <2>2 DEF Fail, Goto, ContextKept, ArmStep, FailureArm
    <2>3. QED
        BY <1>4, <2>1, <2>2
<1> HIDE DEF TypeOK, ErrorInArm, Kept, Others
<1>22. Kept
    BY <1>1, <1>2, <1>7, <1>8, <1>9, <1>10, <1>11, <1>12, <1>13, <1>16, <1>17, <1>18,
       <1>19, <1>20, <1>21, Zenon DEF Next, Tick, Execute
<1>23. QED
    BY <1>22 DEF Kept

(* A tick that has lost its lease does not get it back.                     *)
LEMMA LeaseNotRegained ==
    ASSUME TypeOK, LeaseInv, [Next]_vars, NEW s \in Supervisors, Working(s),
           held'[s] = held[s], HoldsLease(s)'
    PROVE  HoldsLease(s)
<1> DEFINE r == held[s].run
<1>1. /\ r \in Runs /\ held[s].fence \in Nat /\ lease[r].fence \in Nat
      /\ held[s].fence <= lease[r].fence /\ lease \in [Runs -> Leases]
    BY HeldFields, LeaseFields DEF TypeOK, LeaseInv, FencesIssuedOnce
<1>2. lease'[r].owner = SupervisorId[s] /\ lease'[r].fence = held[s].fence
    BY DEF HoldsLease
<1>3. SupervisorId[s] # NoOwner
    BY TurnSupervisorAssumption
<1>4. CASE lease' = lease
    BY <1>2, <1>4 DEF HoldsLease
<1>5. ASSUME NEW t \in Supervisors, RecoverExpired(t)
      PROVE  HoldsLease(s)
    BY <1>1, <1>2, <1>3, <1>5 DEF RecoverExpired, HoldsLease, Leases
<1>6. ASSUME NEW t \in Supervisors, NEW q \in Runs, ClaimTurn(t, q)
      PROVE  HoldsLease(s)
    <2>1. CASE q = r
        <3>1. lease'[r].fence = lease[r].fence + 1
            BY <1>1, <1>6, <2>1 DEF ClaimTurn
        <3>2. QED
            BY <1>1, <1>2, <3>1
    <2>2. CASE q # r
        BY <1>1, <1>2, <1>6, <2>2 DEF ClaimTurn, HoldsLease
    <2>3. QED
        BY <2>1, <2>2
<1>7. ASSUME NEW t \in Supervisors, StartHeartbeat(t) \/ Heartbeat(t)
      PROVE  HoldsLease(s)
    <2>1. RenewLease(t) \/ UNCHANGED lease
        BY <1>7 DEF StartHeartbeat, Heartbeat
    <2>2. QED
        BY <1>1, <1>2, <2>1 DEF RenewLease, HoldsLease, Leases
<1>8. ASSUME NEW t \in Supervisors, FinishLease(t) \/ FallbackFinish(t)
      PROVE  HoldsLease(s)
    <2>1. ClearLease(held[t].run) \/ UNCHANGED lease
        BY <1>8 DEF FinishLease, FallbackFinish
    <2>2. QED
        BY <1>1, <1>2, <1>3, <2>1 DEF ClearLease, HoldsLease, Leases
<1>9. QED
    BY <1>4, <1>5, <1>6, <1>7, <1>8, LeaseWriters, Zenon

(* Every step keeps what is known of failures.                              *)
LEMMA EvidenceStep ==
    ASSUME TypeOK, BatchInJournal, LeaseInv, EvidenceInv, [Next]_vars
    PROVE  EvidenceInv'
<1>1. \A t \in Supervisors : ArmStep(t)
    BY ArmSteps DEF EvidenceInv
<1>2. ErrorInArm'
    BY <1>1 DEF ErrorInArm, ArmStep, FailureArm
<1>3. FailuresFail'
    <2>1. CASE UNCHANGED journal
        BY <2>1 DEF EvidenceInv, FailuresFail
    <2>2. ASSUME NEW q \in Runs, NEW e \in Written, AppendEvent(q, e)
          PROVE  FailuresFail'
        <3>1. e \in Events
            BY DEF Written
        <3>2. ASSUME NEW r \in Runs, NEW i \in 1..Len(journal'[r])
              PROVE  (i \in 1..Len(journal[r]) /\ journal'[r][i] = journal[r][i])
                     \/ journal'[r][i] = e
            <4>1. CASE r # q
                BY <2>2, <3>1, <3>2, <4>1, AppendFacts
            <4>2. CASE r = q
                <5>1. i \in 1..Len(journal[q]) \/ i = Len(journal[q]) + 1
                    BY <2>2, <3>1, <3>2, <4>2, AppendFacts
                <5>2. QED
                    BY <2>2, <3>1, <4>2, <5>1, AppendFacts
            <4>3. QED
                BY <4>1, <4>2
        <3>3. QED
            BY <3>2 DEF EvidenceInv, FailuresFail, Written
    <2>3. QED
        BY <2>1, <2>2, JournalStep
<1>4. Spent'
    <2>1. budget \in [BudgetKinds -> Nat] /\ Budget \in [BudgetKinds -> Nat]
        BY TurnSupervisorAssumption DEF TypeOK
    <2>2. QED
        BY <2>1, BudgetStep DEF EvidenceInv, Spent
<1>5. FallbackKnown'
    <2>1. ASSUME NEW s \in Supervisors, pc'[s] = "fallback", HoldsLease(s)'
          PROVE  (Evidence(held[s].run, "failed"))'
        <3> DEFINE r == held[s].run
        <3>1. r \in Runs /\ held'[s] = held[s] /\ "failed" \in TerminalStates
            BY <1>1, <2>1, HeldFields DEF TypeOK, ArmStep, TerminalStates
        <3>2. \A q \in Runs : q = r /\ Evidence(q, "failed") => Evidence(q, "failed")'
            BY <3>1, EvidenceStays
        <3>3. CASE pc[s] = "fallback"
            <4>1. HoldsLease(s)
                BY <2>1, <3>1, <3>3, LeaseNotRegained DEF Working
            <4>2. Evidence(r, "failed")
                BY <3>3, <4>1 DEF EvidenceInv, FallbackKnown
            <4>3. QED
                BY <3>1, <3>2, <4>2 DEF Evidence, EndRecorded, FailureLost
        <3>4. CASE FailAppend(s)
            <4>1. Recorded(r, Event("VerificationFailed", "supervisor-failed", now[s]))
                BY <2>1, <3>4 DEF FailAppend, TryAppend, Goto, TypeOK
            <4>2. \E i \in 1..Len(journal[r]) : journal[r][i].kind = "VerificationFailed"
                BY <3>1, <4>1 DEF Recorded, Event, EvidenceInv, FailuresFail
            <4>3. Evidence(r, "failed")
                BY <4>2 DEF Evidence, EndRecorded, EndKind
            <4>4. QED
                BY <3>1, <3>2, <4>3 DEF Evidence, EndRecorded, FailureLost
        <3>5. CASE FinishLease(s)
            <4>1. ~ HoldsLease(s)
                BY <2>1, <3>5 DEF FinishLease, Leave, TypeOK
            <4>2. Working(s)
                BY <3>5 DEF FinishLease, At, Working
            <4>3. QED
                BY <2>1, <3>1, <4>1, <4>2, LeaseNotRegained
        <3>6. CASE StepFails(s)
            <4>1. Spend("failureError")
                BY <2>1, <3>6 DEF StepFails, Fail, Goto, TypeOK
            <4>2. /\ budget \in [BudgetKinds -> Nat] /\ Budget \in [BudgetKinds -> Nat]
                  /\ "failureError" \in BudgetKinds
                BY TurnSupervisorAssumption DEF TypeOK, BudgetKinds
            <4>3. budget["failureError"] <= Budget["failureError"]
                BY <4>2 DEF EvidenceInv, Spent
            <4>4. budget'["failureError"] = budget["failureError"] - 1
                BY <4>1, <4>2 DEF Spend
            <4>5. FailureLost'
                BY <4>2, <4>3, <4>4 DEF FailureLost
            <4>6. QED
                BY <4>5 DEF Evidence, FailureLost
        <3>7. QED
            BY <1>1, <2>1, <3>3, <3>4, <3>5, <3>6 DEF ArmStep
    <2>2. QED
        BY <2>1 DEF FallbackKnown
<1>6. QED
    BY <1>2, <1>3, <1>4, <1>5 DEF EvidenceInv

(* A step that shows no end but those shown before, or "failed" when a      *)
(* failure is known, keeps to what is recorded.                             *)
LEMMA NoNewEnd ==
    ASSUME TypeOK, BatchInJournal, [Next]_vars, TerminalHasEvidence,
           \A r \in Runs : \A end \in {proj'[r].state, cursor'[r].kind} \cap TerminalStates :
               \/ end \in {proj[r].state, cursor[r].kind}
               \/ end = "failed" /\ (FailureLost' \/ Evidence(r, "failed"))
    PROVE  TerminalHasEvidence'
<1>1. ASSUME NEW r \in Runs,
             NEW end \in {proj'[r].state, cursor'[r].kind} \cap TerminalStates
      PROVE  Evidence(r, end)'
    <2>1. CASE end \in {proj[r].state, cursor[r].kind}
        <3>1. Evidence(r, end)
            BY <1>1, <2>1 DEF TerminalHasEvidence, Evidence, EndRecorded, FailureLost
        <3>2. QED
            BY <1>1, <3>1, EvidenceStays
    <2>2. CASE end = "failed" /\ Evidence(r, "failed")
        BY <1>1, <2>2, EvidenceStays
    <2>3. CASE end = "failed" /\ FailureLost'
        BY <2>3 DEF Evidence, FailureLost
    <2>4. QED
        BY <1>1, <2>1, <2>2, <2>3
<1>2. QED
    BY <1>1 DEF TerminalHasEvidence, Evidence, EndRecorded, FailureLost

(* No step shows an end that nothing stands behind.                         *)
LEMMA TerminalStep ==
    ASSUME TypeOK, BatchInJournal, EvidenceInv, TerminalHasEvidence, [Next]_vars
    PROVE  TerminalHasEvidence'
<1>1. CASE UNCHANGED readModel
    BY <1>1, NoNewEnd
<1>2. ASSUME NEW r \in Runs, AcceptTurn(r)
      PROVE  TerminalHasEvidence'
    <2>1. \A q \in Runs : \/ proj'[q] = proj[q] /\ cursor'[q] = cursor[q]
                          \/ proj'[q].state = "queued" /\ cursor'[q].kind = "none"
        BY <1>2 DEF AcceptTurn, TypeOK
    <2>2. QED
        BY <2>1, NoNewEnd DEF TerminalStates
<1>3. ASSUME NEW r \in Runs, StartFailProject(r)
      PROVE  TerminalHasEvidence'
    <2>1. starter[r].seq \in Nat \ {0} /\ starter[r].seq <= Len(journal[r])
        BY <1>3 DEF StartFailProject, BatchInJournal, TypeOK
    <2>2. QED
        BY <1>3, <2>1, ProjectKeepsEvidence DEF StartFailProject
<1>4. ASSUME NEW r \in Runs, StartFailureFails(r)
      PROVE  TerminalHasEvidence'
    <2>1. /\ budget \in [BudgetKinds -> Nat] /\ Budget \in [BudgetKinds -> Nat]
          /\ "startError" \in BudgetKinds
        BY TurnSupervisorAssumption DEF TypeOK, BudgetKinds
    <2>2. budget["startError"] <= Budget["startError"]
        BY <2>1 DEF EvidenceInv, Spent
    <2>3. FailureLost'
        BY <1>4, <2>1, <2>2 DEF StartFailureFails, Spend, FailureLost
    <2>4. \A q \in Runs : /\ proj'[q].state \in {proj[q].state, "failed"}
                          /\ cursor'[q] = cursor[q]
        BY <1>4 DEF StartFailureFails, TypeOK, Projections
    <2>5. QED
        BY <2>3, <2>4, NoNewEnd
<1>5. ASSUME NEW s \in Supervisors, RecoverExpired(s)
      PROVE  TerminalHasEvidence'
    <2>1. \A q \in Runs : /\ proj'[q].state \in {proj[q].state, "queued"}
                          /\ cursor'[q] = cursor[q]
        BY <1>5 DEF RecoverExpired, TypeOK, Projections
    <2>2. QED
        BY <2>1, NoNewEnd DEF TerminalStates
<1>6. ASSUME NEW s \in Supervisors, NEW r \in Runs, ClaimTurn(s, r)
      PROVE  TerminalHasEvidence'
    <2>1. \A q \in Runs : /\ proj'[q].state \in {proj[q].state, "running"}
                          /\ cursor'[q] = cursor[q]
        BY <1>6 DEF ClaimTurn, TypeOK, Projections
    <2>2. QED
        BY <2>1, NoNewEnd DEF TerminalStates
<1>7. ASSUME NEW s \in Supervisors, ApplyJournal(s)
      PROVE  TerminalHasEvidence'
    <2>1. /\ held[s].run \in Runs /\ seen[s] \in Nat
          /\ seen[s] <= Len(journal[held[s].run])
        BY <1>7, HeldFields DEF ApplyJournal, BatchInJournal, TypeOK
    <2>2. Project(held[s].run, 1, seen[s], FALSE) /\ UNCHANGED <<journal, budget>>
        BY <1>7 DEF ApplyJournal
    <2>3. 1 \in Nat \ {0}
        OBVIOUS
    <2>4. QED
        BY <2>1, <2>2, <2>3, ProjectKeepsEvidence
<1>8. ASSUME NEW s \in Supervisors, FinishLease(s)
      PROVE  TerminalHasEvidence'
    <2>1. proj' = proj /\ cursor' = cursor
        BY <1>8 DEF FinishLease
    <2>2. QED
        BY <2>1, NoNewEnd
<1>9. ASSUME NEW s \in Supervisors, FallbackFinish(s)
      PROVE  TerminalHasEvidence'
    <2>1. CASE ~ HoldsLease(s)
        <3>1. UNCHANGED readModel
            BY <1>9, <2>1 DEF FallbackFinish
        <3>2. QED
            BY <1>1, <3>1
    <2>2. CASE HoldsLease(s)
        <3>1. Evidence(held[s].run, "failed")
            BY <1>9, <2>2 DEF FallbackFinish, At, EvidenceInv, FallbackKnown
        <3>2. \A q \in Runs :
                  \/ proj'[q] = proj[q] /\ cursor'[q] = cursor[q]
                  \/ /\ q = held[s].run
                     /\ proj'[q].state = "failed" /\ cursor'[q].kind = "failed"
            BY <1>9, <2>2 DEF FallbackFinish, TypeOK
        <3>3. QED
            BY <3>1, <3>2, NoNewEnd
    <2>3. QED
        BY <2>1, <2>2
<1>10. ASSUME NEW c \in Clients, ProjectRequest(c)
       PROVE  TerminalHasEvidence'
    <2>1. /\ request[c].run \in Runs /\ request[c].lo \in Nat \ {0} /\ request[c].hi \in Nat
          /\ request[c].hi <= Len(journal[request[c].run])
        <3>1. /\ request[c].run \in Runs /\ request[c].lo \in Nat /\ request[c].hi \in Nat
              /\ request[c].step = "project"
            BY <1>10, RequestFields DEF ProjectRequest, TypeOK
        <3>2. request[c].lo >= 1 /\ request[c].hi <= Len(journal[request[c].run])
            BY <3>1 DEF BatchInJournal
        <3>3. QED
            BY <3>1, <3>2
    <2>2. QED
        BY <1>10, <2>1, ProjectKeepsEvidence DEF ProjectRequest
<1>11. QED
    BY <1>1, <1>2, <1>3, <1>4, <1>5, <1>6, <1>7, <1>8, <1>9, <1>10, ReadModelWriters, Zenon

(* No step leaves the invariant.                                            *)
LEMMA EvidenceInvariance == Spec => []EvidenceInv
<1>1. Init => EvidenceInv
    BY TurnSupervisorAssumption
       DEF Init, EvidenceInv, ErrorInArm, FallbackKnown, FailuresFail, Spent
<1>2. TypeInv /\ LeaseInv /\ EvidenceInv /\ [Next]_vars => EvidenceInv'
    BY EvidenceStep DEF TypeInv
<1>3. QED
    BY <1>1, <1>2, TypeInvariance, LeaseInvariance, PTL DEF Spec

(* For every number of turns, ticks and clients, and however projections,   *)
(* rebuilds, fallbacks and recoveries interleave: an end that the read      *)
(* model or the stream cursor shows is in the journal, except "failed"      *)
(* where the failure arm itself met an error it could not record.           *)
THEOREM TerminalHasEvidenceHolds == Spec => []TerminalHasEvidence
<1>1. Init => TerminalHasEvidence
    BY DEF Init, TerminalHasEvidence, TerminalStates
<1>2. TypeInv /\ LeaseInv /\ EvidenceInv /\ TerminalHasEvidence /\ [Next]_vars
          => TerminalHasEvidence'
    BY TerminalStep DEF TypeInv
<1>3. QED
    BY <1>1, <1>2, TypeInvariance, LeaseInvariance, EvidenceInvariance, PTL DEF Spec

------------------------------------------------------------------------------
(* One tick works on a turn, where nothing takes the run out of the state   *)
(* its heartbeat needs                                                      *)

(* The threads whose time counts, the requests that pause a run and the     *)
(* subscriptions that rebuild its projection.  Two ticks do work on one     *)
(* turn when one of the three is different: the run pause_resume for one.   *)
Undisturbed ==
    "ticks" \in Prompt /\ "RunPaused" \notin ControlKinds /\ Budget["subscribe"] = 0

(* No run was paused, none is projected again from nothing.                 *)
NeverPaused == \A r \in Runs : \A i \in 1..Len(journal[r]) : journal[r][i].kind # "RunPaused"
NeverRebuilt ==
    /\ budget["subscribe"] = 0
    /\ \A c \in Clients : ~ request[c].rebuild

(* A run that has not been accepted has no projection and no requests.      *)
Accepted(r) == starter[r].step # "absent"
AcceptedFirst ==
    /\ \A r \in Runs : proj[r].state # "absent" => Accepted(r)
    /\ \A c \in Clients : request[c].step # "idle" => Accepted(request[c].run)

(* A tick that is about to claim still has the time to; one that works on a *)
(* turn finds its run running under the tick's own lease, or at its end.    *)
OnTurn(s) ==
    Working(s) =>
        /\ proj[held[s].run].state \in {"running"} \cup TerminalStates
        /\ proj[held[s].run].state = "running" =>
               HoldsLease(s) /\ lease[held[s].run].expires = until[s] /\ until[s] > clock
InTime(s) == At(s, "claim") => clock < now[s] + TTL

SoleInv ==
    /\ NeverPaused /\ NeverRebuilt /\ AcceptedFirst
    /\ \A s \in Supervisors : OnTurn(s) /\ InTime(s)
    /\ OneSupervisorPerTurn

(* A batch without a pause leaves a state where it is, or the run runs or   *)
(* is at an end; an end stays.                                              *)
LEMMA BatchMoves ==
    ASSUME NEW events \in Seq(Events), \A i \in 1..Len(events) : events[i].kind # "RunPaused",
           NEW current
    PROVE  /\ StateAfter(current, events) \in {current, "running"} \cup TerminalStates
           /\ current \in TerminalStates => StateAfter(current, events) = current
<1> DEFINE terminal == Positions(events, TerminalStates)
           active == Positions(events, {"running", "paused"})
<1>1. /\ terminal \in SUBSET (1..Len(events)) /\ active \in SUBSET (1..Len(events))
      /\ Len(events) \in Nat
    BY DEF Positions
<1>2. terminal # {} => StateOf(events[Earliest(terminal)].kind) \in TerminalStates
    <2>1. terminal \in SUBSET Nat
        BY <1>1
    <2>2. terminal # {} => Earliest(terminal) \in terminal
        BY <2>1, EarliestExists
    <2>3. QED
        BY <2>2 DEF Positions
<1>3. active # {} => StateOf(events[Latest(active)].kind) = "running"
    <2>1. active # {} => Latest(active) \in active
        BY <1>1, LatestExists
    <2>2. \A i \in active : /\ i \in 1..Len(events) /\ events[i] \in Events
                            /\ StateOf(events[i].kind) \in {"running", "paused"}
        BY DEF Positions
    <2>3. \A kind \in EventKinds : StateOf(kind) = "paused" => kind = "RunPaused"
        BY DEF EventKinds, StateOf
    <2>4. \A i \in active : StateOf(events[i].kind) = "running"
        BY <2>2, <2>3 DEF Events
    <2>5. QED
        BY <2>1, <2>4
<1> HIDE DEF terminal, active
<1>4. StateAfter(current, events) =
        IF current \in TerminalStates THEN current
        ELSE IF terminal # {} THEN StateOf(events[Earliest(terminal)].kind)
        ELSE IF active # {} THEN StateOf(events[Latest(active)].kind)
        ELSE current
    BY Zenon DEF StateAfter, terminal, active
<1>5. QED
    BY <1>2, <1>3, <1>4, Zenon

(* A projection that is no rebuild moves the state of its run alone.        *)
LEMMA ProjectMoves ==
    ASSUME TypeOK, NeverPaused, NEW r \in Runs, NEW lo \in Nat \ {0}, NEW hi \in Nat,
           hi <= Len(journal[r]), Project(r, lo, hi, FALSE)
    PROVE  /\ \A q \in Runs : q # r => proj'[q] = proj[q]
           /\ proj'[r].state \in {proj[r].state, "running"} \cup TerminalStates
           /\ proj[r].state \in TerminalStates => proj'[r].state = proj[r].state
           /\ lo <= hi => proj'[r].state = StateAfter(proj[r].state, SubSeq(journal[r], lo, hi))
<1>1. CASE lo > hi
    BY <1>1 DEF Project
<1>2. CASE ~ (lo > hi)
    <2> DEFINE batch == SubSeq(journal[r], lo, hi)
    <2>1. journal[r] \in Seq(Events) /\ Len(journal[r]) \in Nat
        BY DEF TypeOK
    <2>2. batch \in Seq(Events)
        BY <1>2, <2>1
    <2>3. \A i \in 1..Len(batch) : /\ lo + i - 1 \in 1..Len(journal[r])
                                   /\ batch[i] = journal[r][lo + i - 1]
        BY <1>2, <2>1
    <2>4. \A i \in 1..Len(batch) : batch[i].kind # "RunPaused"
        BY <2>3 DEF NeverPaused
    <2>5. /\ proj'[r].state = StateAfter(proj[r].state, batch)
          /\ \A q \in Runs : q # r => proj'[q] = proj[q]
        BY <1>2 DEF Project, TypeOK
    <2> HIDE DEF batch
    <2>6. /\ StateAfter(proj[r].state, batch) \in {proj[r].state, "running"} \cup TerminalStates
          /\ proj[r].state \in TerminalStates =>
                 StateAfter(proj[r].state, batch) = proj[r].state
        BY <2>2, <2>4, BatchMoves
    <2>7. QED
        BY <2>5, <2>6 DEF batch
<1>3. QED
    BY <1>1, <1>2

(* A tick works on because it worked before or has claimed; it claims       *)
(* because it meant to or has recovered.                                    *)
WorkStep(t) ==
    /\ Working(t)' =>
           \/ /\ Working(t) /\ held'[t] = held[t]
              /\ until'[t] = until[t] \/ StartHeartbeat(t) \/ Heartbeat(t)
           \/ \E r \in Runs : ClaimTurn(t, r)
    /\ pc'[t] = "claim" => \/ pc[t] = "claim" /\ now'[t] = now[t]
                           \/ RecoverExpired(t)

(* So does every step, for every tick.                                      *)
LEMMA WorkSteps ==
    ASSUME TypeOK, [Next]_vars
    PROVE  \A t \in Supervisors : WorkStep(t)
<1> DEFINE Others(s) == \A t \in Supervisors : t # s =>
               pc'[t] = pc[t] /\ held'[t] = held[t] /\ until'[t] = until[t] /\ now'[t] = now[t]
           Kept == \A t \in Supervisors : WorkStep(t)
           Places == TickSteps \ {"idle", "claim"}
<1> USE DEF TypeOK
<1>1. UNCHANGED <<pc, held, until, now>> => Kept
    BY DEF WorkStep, Working
<1>2. ASSUME NEW s \in Supervisors, Others(s), WorkStep(s)
      PROVE  Kept
    BY <1>2 DEF WorkStep, Working
<1>3. ASSUME NEW s \in Supervisors, Fail(s), Working(s)
      PROVE  Others(s) /\ WorkStep(s)
    BY <1>3 DEF Fail, Goto, WorkStep, Working
<1>4. ASSUME NEW s \in Supervisors, Leave(s)
      PROVE  Others(s) /\ WorkStep(s)
    BY <1>4 DEF Leave, WorkStep, Working
<1>5. ASSUME NEW s \in Supervisors, NEW step \in Places, Goto(s, step),
             UNCHANGED <<held, until, now>>, Working(s)
      PROVE  Others(s) /\ WorkStep(s)
    BY <1>5 DEF Goto, WorkStep, Working
<1>6. ASSUME NEW r \in Runs,
             \/ TurnStart(r) \/ AcceptTurn(r) \/ StartFails(r) \/ StartFailureFails(r)
             \/ StartCrash(r)
      PROVE  UNCHANGED <<pc, held, until, now>>
    BY <1>6 DEF TurnStart, AcceptTurn, StartFails, StartFailureFails, StartCrash,
                BootstrapTurn, BootstrapAppend, StartFailMessage, StartFailAppend,
                StartFailProject
<1>7. ASSUME NEW c \in Clients,
             \/ ClientStep(c) \/ RequestControl(c) \/ Subscribe(c) \/ RequestCrash(c)
      PROVE  UNCHANGED <<pc, held, until, now>>
    BY <1>7 DEF ClientStep, AppendControl, ProjectRequest, RequestControl, Subscribe,
                RequestCrash
<1>8. ClockTick \/ UNCHANGED vars => UNCHANGED <<pc, held, until, now>>
    BY DEF ClockTick, vars
<1>9. ASSUME NEW s \in Supervisors, Heartbeat(s)
      PROVE  Others(s) /\ WorkStep(s)
    BY <1>9 DEF Heartbeat, RenewLease, WorkStep, Working
<1>10. ASSUME NEW s \in Supervisors, StartHeartbeat(s)
       PROVE  Others(s) /\ WorkStep(s)
    <2>1. Working(s)
        BY <1>10 DEF StartHeartbeat, At, Working
    <2>2. CASE Fail(s)
        BY <1>3, <2>1, <2>2
    <2>3. CASE RenewLease(s) /\ Goto(s, "start") /\ UNCHANGED <<held, now>>
        BY <1>10, <2>1, <2>3 DEF RenewLease, Goto, WorkStep, Working
    <2>4. QED
        BY <1>10, <2>2, <2>3 DEF StartHeartbeat
<1>11. ASSUME NEW s \in Supervisors, RecoverExpired(s)
       PROVE  Others(s) /\ WorkStep(s)
    BY <1>11 DEF RecoverExpired, Goto, WorkStep, Working
<1>12. ASSUME NEW s \in Supervisors, NEW r \in Runs, ClaimTurn(s, r)
       PROVE  Others(s) /\ WorkStep(s)
    BY <1>12 DEF ClaimTurn, Goto, WorkStep, Working
<1>13. ASSUME NEW s \in Supervisors,
              \/ ObserveRun(s) \/ SkipMessage(s) \/ ReadJournal(s) \/ ApplyJournal(s)
              \/ AdoptCandidate(s) \/ ExecuteTurn(s) \/ Adjudicate(s) \/ FinishMessage(s)
              \/ FailMessage(s)
       PROVE  Others(s) /\ WorkStep(s)
    BY <1>13 DEF ObserveRun, SkipMessage, ReadJournal, ApplyJournal, AdoptCandidate,
                 ExecuteTurn, Adjudicate, FinishMessage, FailMessage, At, Goto, ContextKept,
                 WorkStep, Working
<1>14. ASSUME NEW s \in Supervisors, NEW step \in Places, NEW e, NEW present \in Places,
              NEW absent \in Places, Lookup(s, step, e, present, absent)
       PROVE  Others(s) /\ WorkStep(s)
    <2>1. PICK next \in Places : Goto(s, next)
        BY <1>14, Zenon DEF Lookup
    <2>2. UNCHANGED <<held, until, now>> /\ Working(s)
        BY <1>14 DEF Lookup, ContextKept, At, Working
    <2>3. QED
        BY <1>5, <2>1, <2>2
<1>15. ASSUME NEW s \in Supervisors, NEW step \in Places, NEW e, NEW next \in Places,
              TryAppend(s, step, e, next)
       PROVE  Others(s) /\ WorkStep(s)
    <2>1. Working(s)
        BY <1>15 DEF TryAppend, At, Working
    <2>2. CASE Fail(s)
        BY <1>3, <2>1, <2>2
    <2>3. CASE Goto(s, next) /\ UNCHANGED <<held, until, now>>
        BY <1>5, <1>15, <2>1, <2>3
    <2>4. QED
        BY <1>15, <2>2, <2>3 DEF TryAppend, ContextKept
<1>16. ASSUME NEW s \in Supervisors,
              EmitRunStarted(s) \/ Dispatch(s) \/ EmitRunFinished(s) \/ FailAppend(s)
       PROVE  Others(s) /\ WorkStep(s)
    <2>1. {"start", "startAppend", "bootstrap", "bootstrapAppend", "dispatch", "dispatching",
           "emit", "emitAppend", "read", "failAppend"} \subseteq Places
        BY DEF TickSteps
    <2> HIDE DEF Places
    <2>2. CASE EmitRunStarted(s)
        BY <1>14, <1>15, <2>1, <2>2 DEF EmitRunStarted
    <2>3. CASE Dispatch(s)
        BY <1>14, <1>15, <2>1, <2>3 DEF Dispatch
    <2>4. CASE EmitRunFinished(s)
        BY <1>14, <1>15, <2>1, <2>4 DEF EmitRunFinished
    <2>5. CASE FailAppend(s)
        BY <1>15, <2>1, <2>5 DEF FailAppend
    <2>6. QED
        BY <1>16, <2>2, <2>3, <2>4, <2>5
<1>17. ASSUME NEW s \in Supervisors,
              ClaimNothing(s) \/ FinishLease(s) \/ FallbackFinish(s) \/ Crash(s)
       PROVE  Others(s) /\ WorkStep(s)
    <2>1. Leave(s) \/ (Fail(s) /\ Working(s))
        BY <1>17 DEF ClaimNothing, FinishLease, FallbackFinish, Crash, At, Working
    <2>2. QED
        BY <1>3, <1>4, <2>1
<1>18. ASSUME NEW s \in Supervisors, StepFails(s)
       PROVE  Others(s) /\ WorkStep(s)
    <2>1. /\ Leave(s) \/ Fail(s) \/ (Goto(s, "failAppend") /\ ContextKept)
          /\ Working(s)
        BY <1>18 DEF StepFails
    <2>2. CASE Goto(s, "failAppend") /\ ContextKept
        BY <2>1, <2>2 DEF Goto, ContextKept, WorkStep, Working
    <2>3. QED
        BY <1>3, <1>4, <2>1, <2>2
<1> HIDE DEF TypeOK, Kept, Others
<1>19. Kept
    BY <1>1, <1>2, <1>6, <1>7, <1>8, <1>9, <1>10, <1>11, <1>12, <1>13, <1>16, <1>17,
       <1>18, Zenon DEF Next, Tick, Execute
<1>20. QED
    BY <1>19 DEF Kept

(* Nobody journals a pause if no client asks for one.                       *)
LEMMA NeverPausedStep ==
    ASSUME Undisturbed, TypeOK, BatchInJournal, NeverPaused, [Next]_vars
    PROVE  NeverPaused'
<1>1. CASE UNCHANGED journal
    BY <1>1 DEF NeverPaused
<1>2. ASSUME NEW q \in Runs, NEW e \in Written, AppendEvent(q, e)
      PROVE  NeverPaused'
    <2>1. e \in Events /\ e.kind # "RunPaused"
        BY DEF Written, Undisturbed
    <2>2. ASSUME NEW r \in Runs, NEW i \in 1..Len(journal'[r])
          PROVE  journal'[r][i].kind # "RunPaused"
        <3>1. CASE r # q
            BY <1>2, <2>1, <2>2, <3>1, AppendFacts DEF NeverPaused
        <3>2. CASE r = q
            <4>1. i \in 1..Len(journal[q]) \/ i = Len(journal[q]) + 1
                BY <1>2, <2>1, <2>2, <3>2, AppendFacts
            <4>2. QED
                BY <1>2, <2>1, <3>2, <4>1, AppendFacts DEF NeverPaused
        <3>3. QED
            BY <3>1, <3>2
    <2>3. QED
        BY <2>2 DEF NeverPaused
<1>3. QED
    BY <1>1, <1>2, JournalStep

(* Without a subscription nobody rebuilds, and what a client projects or    *)
(* appends belongs to a run that was accepted.                              *)
LEMMA RequestSteps ==
    ASSUME TypeOK, NeverRebuilt, [Next]_vars
    PROVE  /\ NeverRebuilt'
           /\ \A c \in Clients : request'[c].step # "idle" =>
                  \/ request[c].step # "idle" /\ request'[c].run = request[c].run
                  \/ (Accepted(request[c].run))'
           /\ \A r \in Runs : Accepted(r) => Accepted(r)'
<1> DEFINE Kept == UNCHANGED request
           Quiet(c) == /\ ~ request'[c].rebuild
                       /\ \/ request[c].step # "idle" /\ request'[c].run = request[c].run
                          \/ (Accepted(request[c].run))'
                          \/ request'[c].step = "idle"
           One(c) == Quiet(c) /\ \A d \in Clients : d # c => request'[d] = request[d]
<1>1. ASSUME NEW r \in Runs,
             \/ TurnStart(r) \/ AcceptTurn(r) \/ StartFails(r) \/ StartFailureFails(r)
             \/ StartCrash(r)
      PROVE  Kept
    BY <1>1 DEF TurnStart, AcceptTurn, StartFails, StartFailureFails, StartCrash,
                BootstrapTurn, BootstrapAppend, StartFailMessage, StartFailAppend,
                StartFailProject
<1>2. ASSUME NEW s \in Supervisors, Tick(s) \/ Heartbeat(s) \/ StepFails(s) \/ Crash(s)
      PROVE  Kept /\ UNCHANGED starter
    BY <1>2 DEF Tick, Execute, Heartbeat, StepFails, Crash, RecoverExpired, ClaimTurn,
                ClaimNothing, ObserveRun, SkipMessage, ReadJournal, ApplyJournal,
                AdoptCandidate, StartHeartbeat, EmitRunStarted, Dispatch, ExecuteTurn,
                Adjudicate, EmitRunFinished, FinishMessage, FinishLease, FailMessage,
                FailAppend, FallbackFinish, Lookup, TryAppend
<1>3. ClockTick \/ UNCHANGED vars => Kept /\ UNCHANGED starter
    BY DEF ClockTick, vars
<1>4. ASSUME NEW c \in Clients, Subscribe(c)
      PROVE  FALSE
    BY <1>4 DEF Subscribe, Spend, NeverRebuilt
<1>5. ASSUME NEW c \in Clients, RequestControl(c)
      PROVE  One(c) /\ UNCHANGED starter
    BY <1>5 DEF RequestControl, NoRequest, Accepted, TypeOK
<1>6. ASSUME NEW c \in Clients, AppendControl(c)
      PROVE  One(c) /\ UNCHANGED starter
    <2>1. CASE request' = [request EXCEPT ![c] = NoRequest]
        BY <1>6, <2>1 DEF AppendControl, TypeOK, NoRequest
    <2>2. CASE \E n : request' = [request EXCEPT ![c].step = "project",
                                                 ![c].lo = n, ![c].hi = n]
        <3>1. request[c].step = "append" /\ UNCHANGED starter
            BY <1>6 DEF AppendControl
        <3>2. ~ request[c].rebuild
            BY DEF NeverRebuilt
        <3>3. QED
            BY <2>2, <3>1, <3>2 DEF TypeOK, Requests
    <2>3. QED
        BY <1>6, <2>1, <2>2 DEF AppendControl
<1>7. ASSUME NEW c \in Clients, ProjectRequest(c) \/ RequestCrash(c)
      PROVE  One(c) /\ UNCHANGED starter
    BY <1>7 DEF ProjectRequest, RequestCrash, NoRequest, TypeOK
<1>8. \A r \in Runs : Accepted(r) => Accepted(r)'
    <2>1. ASSUME NEW r \in Runs,
                 \/ TurnStart(r) \/ AcceptTurn(r) \/ StartFails(r) \/ StartFailureFails(r)
                 \/ StartCrash(r)
          PROVE  \A q \in Runs : starter'[q].step = "absent" => starter[q].step = "absent"
        <3>1. starter \in [Runs -> Starters]
            BY DEF TypeOK
        <3>2. ASSUME NEW x, x # "absent", starter' = [starter EXCEPT ![r].step = x]
              PROVE  \A q \in Runs : starter'[q].step = "absent" => starter[q].step = "absent"
            BY <3>1, <3>2 DEF Starters
        <3>3. CASE StartFailAppend(r)
            BY <3>1, <3>3 DEF StartFailAppend
        <3>4. CASE BootstrapTurn(r) \/ BootstrapAppend(r)
            BY <3>2, <3>4 DEF BootstrapTurn, BootstrapAppend
        <3>5. CASE StartFailMessage(r) \/ StartFailProject(r) \/ AcceptTurn(r)
                   \/ StartFails(r) \/ StartFailureFails(r) \/ StartCrash(r)
            BY <3>2, <3>5, Zenon DEF StartFailMessage, StartFailProject, AcceptTurn,
                                     StartFails, StartFailureFails, StartCrash
        <3>6. QED
            BY <2>1, <3>3, <3>4, <3>5 DEF TurnStart
    <2>2. ASSUME UNCHANGED starter
          PROVE  \A q \in Runs : starter'[q].step = "absent" => starter[q].step = "absent"
        BY <2>2
    <2>3. \A q \in Runs : starter'[q].step = "absent" => starter[q].step = "absent"
        BY <1>2, <1>3, <1>4, <1>5, <1>6, <1>7, <2>1, <2>2, Zenon DEF Next, ClientStep
    <2>4. QED
        BY <2>3 DEF Accepted
<1>9. budget'["subscribe"] = 0
    <2>1. budget["subscribe"] = 0 /\ "subscribe" \in BudgetKinds
        BY DEF NeverRebuilt, BudgetKinds
    <2>2. QED
        BY <2>1, BudgetStep
<1>10. CASE Kept
    BY <1>8, <1>9, <1>10 DEF NeverRebuilt
<1>11. ASSUME NEW c \in Clients, One(c)
       PROVE  /\ NeverRebuilt'
              /\ \A d \in Clients : request'[d].step # "idle" =>
                     \/ request[d].step # "idle" /\ request'[d].run = request[d].run
                     \/ (Accepted(request[d].run))'
    BY <1>9, <1>11 DEF NeverRebuilt
<1>12. Kept \/ \E c \in Clients : One(c)
    <2> HIDE DEF Kept, One
    <2>1. QED
        BY <1>1, <1>2, <1>3, <1>4, <1>5, <1>6, <1>7, Zenon DEF Next, ClientStep
<1>13. QED
    BY <1>8, <1>10, <1>11, <1>12

(* What a step does to the state of a run: one that was not accepted keeps  *)
(* none, one that a tick works on is only ended.                            *)
LEMMA StateOnward ==
    ASSUME Undisturbed, TypeOK, BatchInJournal, SoleInv, [Next]_vars
    PROVE  /\ \A q \in Runs : proj'[q].state # "absent" => Accepted(q)'
           /\ \A s \in Supervisors : Working(s) =>
                  proj'[held[s].run].state \in {proj[held[s].run].state} \cup TerminalStates
<1> DEFINE Known == \A q \in Runs : proj'[q].state # "absent" =>
               proj[q].state # "absent" \/ Accepted(q) \/ Accepted(q)'
           Onward == \A s \in Supervisors : Working(s) =>
               proj'[held[s].run].state \in {proj[held[s].run].state} \cup TerminalStates
<1>1. \A s \in Supervisors : held[s].run \in Runs
    BY HeldFields DEF TypeOK
<1>2. \A s \in Supervisors : Working(s) =>
          /\ Accepted(held[s].run)
          /\ proj[held[s].run].state \in {"running"} \cup TerminalStates
          /\ proj[held[s].run].state \notin {"absent", "queued"}
    <2>1. \A s \in Supervisors : Working(s) =>
              proj[held[s].run].state \in {"running"} \cup TerminalStates
        BY DEF SoleInv, OnTurn
    <2>2. {"running"} \cup TerminalStates = {"running", "completed", "failed", "cancelled"}
        BY DEF TerminalStates
    <2>3. QED
        BY <1>1, <2>1, <2>2 DEF SoleInv, AcceptedFirst
<1>3. ASSUME NEW r \in Runs, NEW lo \in Nat \ {0}, NEW hi \in Nat, hi <= Len(journal[r]),
             Project(r, lo, hi, FALSE), Accepted(r)
      PROVE  Known /\ Onward
    <2>1. \A q \in Runs :
              /\ proj'[q].state # proj[q].state => q = r
              /\ proj[q].state \in {"running"} \cup TerminalStates =>
                     proj'[q].state \in {proj[q].state} \cup TerminalStates
        <3>1. /\ \A q \in Runs : q # r => proj'[q] = proj[q]
              /\ proj'[r].state \in {proj[r].state, "running"} \cup TerminalStates
              /\ proj[r].state \in TerminalStates => proj'[r].state = proj[r].state
            BY <1>3, ProjectMoves DEF SoleInv
        <3>2. QED
            BY <1>3, <3>1
    <2>2. QED
        BY <1>1, <1>2, <1>3, <2>1
<1>4. UNCHANGED readModel => Known /\ Onward
    OBVIOUS
<1>5. ASSUME NEW r \in Runs, AcceptTurn(r)
      PROVE  Known /\ Onward
    <2>1. /\ ~ Accepted(r) /\ Accepted(r)'
          /\ \A q \in Runs : q # r => proj'[q] = proj[q]
        BY <1>5 DEF AcceptTurn, Accepted, TypeOK, Starters
    <2>2. \A s \in Supervisors : Working(s) => held[s].run # r
        BY <1>2, <2>1
    <2>3. QED
        BY <1>1, <2>1, <2>2
<1>6. ASSUME NEW r \in Runs, StartFailProject(r)
      PROVE  Known /\ Onward
    <2>1. starter[r].seq \in Nat \ {0} /\ starter[r].seq <= Len(journal[r]) /\ Accepted(r)
        BY <1>6 DEF StartFailProject, BatchInJournal, TypeOK, Accepted
    <2>2. Project(r, starter[r].seq, starter[r].seq, FALSE) /\ starter[r].seq \in Nat
        BY <1>6, <2>1 DEF StartFailProject
    <2>3. QED
        BY <1>3, <2>1, <2>2
<1>7. ASSUME NEW r \in Runs, StartFailureFails(r)
      PROVE  Known /\ Onward
    <2>1. /\ Accepted(r)
          /\ \A q \in Runs : /\ q # r => proj'[q] = proj[q]
                             /\ proj'[q].state \in {proj[q].state, "failed"}
        BY <1>7 DEF StartFailureFails, Accepted, TypeOK, Projections
    <2>2. "failed" \in TerminalStates
        BY DEF TerminalStates
    <2>3. QED
        BY <1>1, <2>1, <2>2
<1>8. ASSUME NEW t \in Supervisors, RecoverExpired(t)
      PROVE  Known /\ Onward
    <2>1. \A q \in Runs : IF Expired(q, clock) THEN proj[q].state = "running"
                          ELSE proj'[q] = proj[q]
        BY <1>8 DEF RecoverExpired, Expired, TypeOK
    <2>2. ASSUME NEW s \in Supervisors, Working(s), Expired(held[s].run, clock)
          PROVE  FALSE
        <3>1. proj[held[s].run].state = "running" /\ lease[held[s].run].expires <= clock
            BY <2>2 DEF Expired
        <3>2. lease[held[s].run].expires = until[s] /\ until[s] > clock
            BY <2>2, <3>1 DEF SoleInv, OnTurn
        <3>3. clock \in Int /\ until[s] \in Int
            BY DEF TypeOK
        <3>4. QED
            BY <3>1, <3>2, <3>3
    <2>3. QED
        BY <1>1, <2>1, <2>2
<1>9. ASSUME NEW t \in Supervisors, NEW r \in Runs, ClaimTurn(t, r)
      PROVE  Known /\ Onward
    <2>1. proj[r].state = "queued" /\ \A q \in Runs : q # r => proj'[q] = proj[q]
        BY <1>9, TargetsAreClaimable DEF ClaimTurn, Claimable, TypeOK
    <2>2. \A s \in Supervisors : Working(s) => held[s].run # r
        BY <1>2, <2>1
    <2>3. QED
        BY <1>1, <2>1, <2>2
<1>10. ASSUME NEW t \in Supervisors, ApplyJournal(t)
       PROVE  Known /\ Onward
    <2>1. /\ seen[t] \in Nat /\ seen[t] <= Len(journal[held[t].run])
          /\ Working(t) /\ Project(held[t].run, 1, seen[t], FALSE)
        BY <1>10 DEF ApplyJournal, BatchInJournal, TypeOK, Working
    <2>2. 1 \in Nat \ {0}
        OBVIOUS
    <2>3. QED
        BY <1>1, <1>2, <1>3, <2>1, <2>2
<1>11. ASSUME NEW t \in Supervisors, FinishLease(t) \/ FallbackFinish(t)
       PROVE  Known /\ Onward
    <2>1. /\ Working(t) /\ "failed" \in TerminalStates
          /\ \A q \in Runs : \/ proj'[q] = proj[q]
                             \/ q = held[t].run /\ proj'[q].state = "failed"
        BY <1>11 DEF FinishLease, FallbackFinish, TypeOK, At, Working, TerminalStates
    <2>2. QED
        BY <1>1, <1>2, <2>1
<1>12. ASSUME NEW c \in Clients, ProjectRequest(c)
       PROVE  Known /\ Onward
    <2>1. /\ request[c].run \in Runs /\ request[c].lo \in Nat /\ request[c].hi \in Nat
          /\ request[c].step = "project"
        BY <1>12, RequestFields DEF ProjectRequest, TypeOK
    <2>2. request[c].lo >= 1 /\ request[c].hi <= Len(journal[request[c].run])
        BY <2>1 DEF BatchInJournal
    <2>3. request[c].rebuild = FALSE /\ Accepted(request[c].run)
        <3>1. request[c].rebuild \in BOOLEAN
            BY RequestFields DEF TypeOK
        <3>2. QED
            BY <2>1, <3>1 DEF SoleInv, NeverRebuilt, AcceptedFirst
    <2>4. Project(request[c].run, request[c].lo, request[c].hi, FALSE)
        BY <1>12, <2>3 DEF ProjectRequest
    <2>5. request[c].lo \in Nat \ {0}
        BY <2>1, <2>2
    <2>6. QED
        BY <1>3, <2>1, <2>2, <2>3, <2>4, <2>5
<1>13. Known /\ Onward
    <2> HIDE DEF Known, Onward
    <2>1. QED
        BY <1>4, <1>5, <1>6, <1>7, <1>8, <1>9, <1>10, <1>11, <1>12, ReadModelWriters, Zenon
<1>14. \A q \in Runs : Accepted(q) => Accepted(q)'
    BY RequestSteps DEF SoleInv
<1>15. QED
    BY <1>13, <1>14 DEF SoleInv, AcceptedFirst

(* Time passes by its own step alone.                                       *)
LEMMA ClockSteps ==
    ASSUME [Next]_vars
    PROVE  clock' = clock \/ ClockTick
<1>1. ASSUME NEW r \in Runs,
             \/ TurnStart(r) \/ AcceptTurn(r) \/ StartFails(r) \/ StartFailureFails(r)
             \/ StartCrash(r)
      PROVE  clock' = clock
    BY <1>1 DEF TurnStart, AcceptTurn, StartFails, StartFailureFails, StartCrash,
                BootstrapTurn, BootstrapAppend, StartFailMessage, StartFailAppend,
                StartFailProject
<1>2. ASSUME NEW s \in Supervisors, Tick(s) \/ Heartbeat(s) \/ StepFails(s) \/ Crash(s)
      PROVE  clock' = clock
    BY <1>2 DEF Tick, Execute, Heartbeat, StepFails, Crash, RecoverExpired, ClaimTurn,
                ClaimNothing, ObserveRun, SkipMessage, ReadJournal, ApplyJournal,
                AdoptCandidate, StartHeartbeat, EmitRunStarted, Dispatch, ExecuteTurn,
                Adjudicate, EmitRunFinished, FinishMessage, FinishLease, FailMessage,
                FailAppend, FallbackFinish, Lookup, TryAppend
<1>3. ASSUME NEW c \in Clients,
             \/ ClientStep(c) \/ RequestControl(c) \/ Subscribe(c) \/ RequestCrash(c)
      PROVE  clock' = clock
    BY <1>3 DEF ClientStep, AppendControl, ProjectRequest, RequestControl, Subscribe,
                RequestCrash
<1>4. UNCHANGED vars => clock' = clock
    BY DEF vars
<1>5. QED
    BY <1>1, <1>2, <1>3, <1>4, Zenon DEF Next

(* A tick that works on while its run is running still has the lease.       *)
LEMMA LeaseOnward ==
    ASSUME Undisturbed, TypeOK, LeaseInv, SoleInv, [Next]_vars, NEW s \in Supervisors,
           Working(s), Working(s)', held'[s] = held[s], proj[held[s].run].state = "running"
    PROVE  HoldsLease(s)' /\ lease'[held[s].run].expires = until'[s] /\ until'[s] > clock'
<1> DEFINE r == held[s].run
<1>1. /\ r \in Runs /\ lease \in [Runs -> Leases] /\ until \in [Supervisors -> Nat]
      /\ clock \in Nat /\ until[s] \in Nat /\ TTL \in Nat \ {0}
    BY TurnSupervisorAssumption, HeldFields DEF TypeOK
<1>2. HoldsLease(s) /\ lease[r].expires = until[s] /\ until[s] > clock
    BY DEF SoleInv, OnTurn
<1>3. \A t \in Supervisors : t # s /\ Working(t) => held[t].run # r
    BY DEF SoleInv, OneSupervisorPerTurn
<1> DEFINE Beats(t) == (StartHeartbeat(t) \/ Heartbeat(t)) /\ RenewLease(t)
<1>4. Beats(s) \/ (until'[s] = until[s] /\ ~ Beats(s))
    <2>1. WorkStep(s) /\ ~ \E q \in Runs : ClaimTurn(s, q)
        BY WorkSteps DEF ClaimTurn, At, Working
    <2>2. until'[s] = until[s] \/ StartHeartbeat(s) \/ Heartbeat(s)
        BY <2>1 DEF WorkStep
    <2>3. QED
        BY <2>2 DEF StartHeartbeat, Heartbeat, Fail
<1>5. CASE Beats(s)
    <2>1. RenewLease(s) /\ clock' = clock
        BY <1>5 DEF StartHeartbeat, Heartbeat
    <2>2. /\ lease'[r].owner = lease[r].owner /\ lease'[r].fence = lease[r].fence
          /\ lease'[r].expires = clock + TTL /\ until'[s] = clock + TTL
        BY <1>1, <2>1 DEF RenewLease, Leases
    <2>3. QED
        BY <1>1, <1>2, <2>1, <2>2 DEF HoldsLease
<1>6. CASE until'[s] = until[s] /\ ~ Beats(s)
    <2>1. lease'[r] = lease[r]
        <3>1. ASSUME NEW t \in Supervisors, RecoverExpired(t)
              PROVE  lease'[r] = lease[r]
            <4>1. ~ Expired(r, clock)
                BY <1>1, <1>2 DEF Expired
            <4>2. QED
                BY <1>1, <3>1, <4>1 DEF RecoverExpired
        <3>2. ASSUME NEW t \in Supervisors, NEW q \in Runs, ClaimTurn(t, q)
              PROVE  lease'[r] = lease[r]
            <4>1. q # r
                BY <3>2, TargetsAreClaimable DEF ClaimTurn, Claimable
            <4>2. QED
                BY <1>1, <3>2, <4>1 DEF ClaimTurn
        <3>3. ASSUME NEW t \in Supervisors, StartHeartbeat(t) \/ Heartbeat(t)
              PROVE  lease'[r] = lease[r]
            <4>1. Working(t) /\ (RenewLease(t) \/ UNCHANGED lease)
                BY <3>3 DEF StartHeartbeat, Heartbeat, At, Working, LeaseInv,
                            FencesIssuedOnce
            <4>2. QED
                BY <1>1, <1>3, <1>6, <3>3, <4>1 DEF RenewLease
        <3>4. ASSUME NEW t \in Supervisors, FinishLease(t) \/ FallbackFinish(t)
              PROVE  lease'[r] = lease[r]
            <4>1. Working(t) /\ (UNCHANGED lease \/ (ClearLease(held[t].run) /\ Leave(t)))
                BY <3>4 DEF FinishLease, FallbackFinish, At, Working
            <4>2. t = s => UNCHANGED lease
                BY <4>1 DEF Leave, Working, TypeOK
            <4>3. QED
                BY <1>1, <1>3, <4>1, <4>2 DEF ClearLease
        <3>5. QED
            BY <3>1, <3>2, <3>3, <3>4, LeaseWriters
    <2>2. until[s] > clock'
        <3>1. CASE clock' = clock
            BY <1>2, <3>1
        <3>2. CASE ClockTick
            BY <1>2, <3>2 DEF ClockTick, Undisturbed, Renewable
        <3>3. QED
            BY <3>1, <3>2, ClockSteps
    <2>3. QED
        BY <1>2, <1>6, <2>1, <2>2 DEF HoldsLease
<1>7. QED
    BY <1>4, <1>5, <1>6

(* Every step keeps ticks on turns of their own.                            *)
LEMMA SoleStep ==
    ASSUME Undisturbed, TypeOK, BatchInJournal, LeaseInv, SoleInv, [Next]_vars
    PROVE  SoleInv'
<1>1. NeverPaused' /\ NeverRebuilt'
    BY NeverPausedStep, RequestSteps DEF SoleInv
<1>2. AcceptedFirst'
    <2>1. \A q \in Runs : proj'[q].state # "absent" => Accepted(q)'
        BY StateOnward
    <2>2. ASSUME NEW c \in Clients, request'[c].step # "idle"
          PROVE  (Accepted(request[c].run))'
        <3>1. CASE request[c].step # "idle" /\ request'[c].run = request[c].run
            <4>1. Accepted(request[c].run) /\ request[c].run \in Runs
                BY <3>1, RequestFields DEF SoleInv, AcceptedFirst, TypeOK
            <4>2. \A q \in Runs : Accepted(q) => Accepted(q)'
                BY RequestSteps DEF SoleInv
            <4>3. QED
                BY <3>1, <4>1, <4>2 DEF Accepted
        <3>2. QED
            BY <2>2, <3>1, RequestSteps DEF SoleInv
    <2>3. QED
        BY <2>1, <2>2 DEF AcceptedFirst
<1>3. \A s \in Supervisors : held[s].run \in Runs
    BY HeldFields DEF TypeOK
<1>4. ASSUME NEW s \in Supervisors, Working(s), Working(s)', held'[s] = held[s]
      PROVE  OnTurn(s)'
    <2>1. proj'[held[s].run].state \in {proj[held[s].run].state} \cup TerminalStates
        BY <1>4, StateOnward
    <2>2. proj[held[s].run].state \in {"running"} \cup TerminalStates
        BY <1>4 DEF SoleInv, OnTurn
    <2>3. "running" \notin TerminalStates
        BY DEF TerminalStates
    <2>4. proj'[held[s].run].state = "running" => proj[held[s].run].state = "running"
        BY <2>1, <2>3
    <2>5. proj'[held[s].run].state = "running" =>
              HoldsLease(s)' /\ lease'[held[s].run].expires = until'[s] /\ until'[s] > clock'
        BY <1>4, <2>4, LeaseOnward
    <2>6. QED
        BY <1>4, <2>1, <2>2, <2>5 DEF OnTurn
<1>5. ASSUME NEW s \in Supervisors, NEW r \in Runs, ClaimTurn(s, r)
      PROVE  /\ OnTurn(s)' /\ held'[s].run = r
             /\ \A t \in Supervisors : Working(t) => held[t].run # r
             /\ \A t \in Supervisors : t # s => pc'[t] = pc[t] /\ held'[t] = held[t]
    <2>1. proj[r].state = "queued"
        BY <1>5, TargetsAreClaimable DEF ClaimTurn, Claimable
    <2>2. \A t \in Supervisors : Working(t) => held[t].run # r
        BY <2>1 DEF SoleInv, OnTurn, TerminalStates
    <2>3. /\ held'[s] = [run |-> r, fence |-> lease[r].fence + 1]
          /\ lease'[r] = [owner |-> SupervisorId[s], expires |-> now[s] + TTL,
                          fence |-> lease[r].fence + 1]
          /\ until'[s] = now[s] + TTL /\ clock' = clock
          /\ proj'[r].state = "running"
        BY <1>5 DEF ClaimTurn, TypeOK, Projections
    <2>4. now[s] + TTL > clock
        <3>1. clock < now[s] + TTL
            BY <1>5 DEF ClaimTurn, SoleInv, InTime
        <3>2. clock \in Int /\ now[s] + TTL \in Int
            BY TurnSupervisorAssumption DEF TypeOK
        <3>3. QED
            BY <3>1, <3>2
    <2>5. OnTurn(s)'
        BY <2>3, <2>4 DEF OnTurn, HoldsLease
    <2>6. \A t \in Supervisors : t # s => pc'[t] = pc[t] /\ held'[t] = held[t]
        BY <1>5 DEF ClaimTurn, Goto, TypeOK
    <2>7. QED
        BY <2>2, <2>3, <2>5, <2>6
<1>6. \A t \in Supervisors : WorkStep(t)
    BY WorkSteps
<1>7. \A s \in Supervisors : OnTurn(s)'
    <2>1. ASSUME NEW s \in Supervisors
          PROVE  OnTurn(s)'
        <3>1. CASE ~ Working(s)'
            BY <3>1 DEF OnTurn
        <3>2. CASE Working(s)'
            BY <1>4, <1>5, <1>6, <3>2 DEF WorkStep
        <3>3. QED
            BY <3>1, <3>2
    <2>2. QED
        BY <2>1
<1>8. OneSupervisorPerTurn'
    <2>1. ASSUME NEW s \in Supervisors, NEW t \in Supervisors, Working(s)', Working(t)',
                 held'[s].run = held'[t].run
          PROVE  s = t
        <3>1. CASE \E r \in Runs : ClaimTurn(s, r)
            BY <1>5, <2>1, <3>1 DEF Working
        <3>2. CASE \E r \in Runs : ClaimTurn(t, r)
            BY <1>5, <2>1, <3>2 DEF Working
        <3>3. CASE Working(s) /\ held'[s] = held[s] /\ Working(t) /\ held'[t] = held[t]
            BY <2>1, <3>3 DEF SoleInv, OneSupervisorPerTurn
        <3>4. QED
            BY <1>6, <2>1, <3>1, <3>2, <3>3 DEF WorkStep
    <2>2. QED
        BY <2>1 DEF OneSupervisorPerTurn, Working
<1>9. \A s \in Supervisors : InTime(s)'
    <2>1. ASSUME NEW s \in Supervisors, pc'[s] = "claim"
          PROVE  clock' < now'[s] + TTL
        <3>1. clock \in Nat /\ now[s] \in Nat /\ TTL \in Nat \ {0}
            BY TurnSupervisorAssumption DEF TypeOK
        <3>2. CASE RecoverExpired(s)
            <4>1. now'[s] = clock /\ clock' = clock
                BY <3>2 DEF RecoverExpired, TypeOK
            <4>2. QED
                BY <3>1, <4>1
        <3>3. CASE pc[s] = "claim" /\ now'[s] = now[s]
            <4>1. clock < now[s] + TTL
                BY <3>3 DEF SoleInv, InTime, At
            <4>2. CASE ClockTick
                BY <3>3, <4>2 DEF ClockTick, Undisturbed, At
            <4>3. CASE clock' = clock
                BY <3>3, <4>1, <4>3
            <4>4. QED
                BY <4>2, <4>3, ClockSteps
        <3>4. QED
            BY <1>6, <2>1, <3>2, <3>3 DEF WorkStep
    <2>2. QED
        BY <2>1 DEF InTime, At
<1>10. QED
    BY <1>1, <1>2, <1>7, <1>8, <1>9 DEF SoleInv

(* No step leaves the invariant.                                            *)
LEMMA SoleInvariance ==
    ASSUME Undisturbed
    PROVE  Spec => []SoleInv
<1>1. Init => SoleInv
    <2> SUFFICES ASSUME Init PROVE SoleInv
        OBVIOUS
    <2>1. \A s \in Supervisors : ~ Working(s) /\ pc[s] = "idle"
        BY DEF Init, Working
    <2>2. NeverPaused /\ NeverRebuilt /\ AcceptedFirst
        BY DEF Init, NeverPaused, NeverRebuilt, AcceptedFirst, NoRequest, Undisturbed
    <2>3. QED
        BY <2>1, <2>2 DEF SoleInv, OnTurn, InTime, At, OneSupervisorPerTurn
<1>2. TypeInv /\ LeaseInv /\ SoleInv /\ [Next]_vars => SoleInv'
    BY SoleStep DEF TypeInv
<1>3. QED
    BY <1>1, <1>2, TypeInvariance, LeaseInvariance, PTL DEF Spec

(* For every number of turns, ticks and clients, where ticks and their      *)
(* heartbeats are on time, nobody pauses a run and nobody rebuilds its      *)
(* projection: a turn is executed by one tick at a time, whatever crashes,  *)
(* errors, cancellations and resumptions it meets.                          *)
THEOREM OneSupervisorHolds ==
    ASSUME Undisturbed
    PROVE  Spec => []OneSupervisorPerTurn
<1>1. SoleInv => OneSupervisorPerTurn
    BY DEF SoleInv
<1>2. QED
    BY <1>1, SoleInvariance, PTL

------------------------------------------------------------------------------
(* An end stays, where nobody writes "failed" past the journal *)

(* Nobody works on the run; every tick that works holds its lease.          *)
Idle(r) == \A s \in Supervisors : Working(s) => held[s].run # r
Holding == \A s \in Supervisors : Working(s) => HoldsLease(s)

(* A tick that works keeps the lease to its end: the lease of a run that is *)
(* running has not expired, and that of a run at its end is nobody's        *)
(* business any more.                                                       *)
LEMMA HoldingStep ==
    ASSUME Undisturbed, TypeOK, LeaseInv, SoleInv, Holding, [Next]_vars
    PROVE  Holding'
<1>1. \A s \in Supervisors : held[s].run \in Runs
    BY HeldFields DEF TypeOK
<1>2. ASSUME NEW s \in Supervisors, NEW q \in Runs, ClaimTurn(s, q)
      PROVE  HoldsLease(s)'
    BY <1>2 DEF ClaimTurn, HoldsLease, TypeOK
<1>3. ASSUME NEW s \in Supervisors, Working(s), Working(s)', held'[s] = held[s]
      PROVE  HoldsLease(s)'
    <2> DEFINE r == held[s].run
    <2>1. /\ r \in Runs /\ HoldsLease(s) /\ lease \in [Runs -> Leases]
          /\ proj[r].state \in {"running"} \cup TerminalStates
          /\ proj[r].state = "running" =>
                 lease[r].expires = until[s] /\ until[s] > clock
        BY <1>1, <1>3 DEF Holding, SoleInv, OnTurn, TypeOK
    <2>2. \A t \in Supervisors : t # s /\ Working(t) => held[t].run # r
        BY <1>3 DEF SoleInv, OneSupervisorPerTurn
    <2> DEFINE Same == lease'[r].owner = lease[r].owner /\ lease'[r].fence = lease[r].fence
    <2>3. UNCHANGED lease => Same
        OBVIOUS
    <2>4. ASSUME NEW t \in Supervisors, RecoverExpired(t)
          PROVE  Same
        <3>1. ~ Expired(r, clock)
            <4>1. until[s] \in Nat /\ clock \in Nat
                BY DEF TypeOK
            <4>2. QED
                BY <2>1, <4>1 DEF Expired
        <3>2. QED
            BY <2>1, <2>4, <3>1 DEF RecoverExpired
    <2>5. ASSUME NEW t \in Supervisors, NEW q \in Runs, ClaimTurn(t, q)
          PROVE  Same
        <3>1. proj[q].state = "queued"
            BY <2>5, TargetsAreClaimable DEF ClaimTurn, Claimable
        <3>2. q # r
            BY <2>1, <3>1 DEF TerminalStates
        <3>3. QED
            BY <2>1, <2>5, <3>2 DEF ClaimTurn
    <2>6. ASSUME NEW t \in Supervisors, StartHeartbeat(t) \/ Heartbeat(t)
          PROVE  Same
        <3>1. RenewLease(t) \/ UNCHANGED lease
            BY <2>6 DEF StartHeartbeat, Heartbeat
        <3>2. QED
            BY <1>1, <2>1, <3>1 DEF RenewLease, Leases
    <2>7. ASSUME NEW t \in Supervisors, FinishLease(t) \/ FallbackFinish(t)
          PROVE  Same
        <3>1. Working(t) /\ (UNCHANGED lease \/ (ClearLease(held[t].run) /\ Leave(t)))
            BY <2>7 DEF FinishLease, FallbackFinish, At, Working
        <3>2. t = s => UNCHANGED lease
            BY <1>3, <3>1 DEF Leave, Working, TypeOK
        <3>3. QED
            BY <1>1, <2>1, <2>2, <3>1, <3>2 DEF ClearLease
    <2>8. Same
        <3> HIDE DEF Same
        <3>1. QED
            BY <2>3, <2>4, <2>5, <2>6, <2>7, LeaseWriters
    <2>9. QED
        BY <1>3, <2>1, <2>8 DEF HoldsLease
<1>4. QED
    BY <1>2, <1>3, WorkSteps DEF WorkStep, Holding

(* Who projects a batch into the state of a run, and who writes "failed"    *)
(* there without one.                                                       *)
Projects(q) ==
    \/ StartFailProject(q)
    \/ \E t \in Supervisors : ApplyJournal(t) /\ held[t].run = q
    \/ \E c \in Clients : ProjectRequest(c) /\ request[c].run = q
Overwrites(q) ==
    \/ StartFailureFails(q) /\ starter[q].step = "failProject"
    \/ \E t \in Supervisors : FallbackFinish(t) /\ HoldsLease(t) /\ held[t].run = q

(* The reasons for which the state of a run changes.                        *)
LEMMA StateMoves ==
    ASSUME TypeOK, BatchInJournal, SoleInv, [Next]_vars, NEW q \in Runs,
           proj'[q].state # proj[q].state
    PROVE  \/ /\ proj[q].state = "absent" /\ proj'[q].state = "queued"
              /\ AcceptTurn(q)
           \/ /\ proj[q].state = "running" /\ proj'[q].state = "queued"
              /\ Expired(q, clock) /\ \E t \in Supervisors : RecoverExpired(t)
           \/ /\ proj[q].state = "queued" /\ proj'[q].state = "running"
              /\ \E t \in Supervisors : ClaimTurn(t, q)
           \/ /\ proj[q].state \notin TerminalStates
              /\ proj'[q].state \in {"running"} \cup TerminalStates
              /\ Projects(q)
           \/ proj'[q].state = "failed" /\ Overwrites(q)
<1> DEFINE Moves ==
           \/ /\ proj[q].state = "absent" /\ proj'[q].state = "queued"
              /\ AcceptTurn(q)
           \/ /\ proj[q].state = "running" /\ proj'[q].state = "queued"
              /\ Expired(q, clock) /\ \E t \in Supervisors : RecoverExpired(t)
           \/ /\ proj[q].state = "queued" /\ proj'[q].state = "running"
              /\ \E t \in Supervisors : ClaimTurn(t, q)
           \/ /\ proj[q].state \notin TerminalStates
              /\ proj'[q].state \in {"running"} \cup TerminalStates
              /\ Projects(q)
           \/ proj'[q].state = "failed" /\ Overwrites(q)
<1>1. \A s \in Supervisors : held[s].run \in Runs
    BY HeldFields DEF TypeOK
<1>2. ASSUME NEW r \in Runs, NEW lo \in Nat \ {0}, NEW hi \in Nat, hi <= Len(journal[r]),
             Project(r, lo, hi, FALSE)
      PROVE  /\ q = r
             /\ proj[q].state \notin TerminalStates
             /\ proj'[q].state \in {"running"} \cup TerminalStates
    BY <1>2, ProjectMoves DEF SoleInv
<1>3. ~ UNCHANGED readModel
    OBVIOUS
<1>4. ASSUME NEW r \in Runs, AcceptTurn(r)
      PROVE  Moves
    <2>1. q = r /\ proj'[q].state = "queued" /\ ~ Accepted(r)
        BY <1>4 DEF AcceptTurn, TypeOK, Accepted
    <2>2. proj[q].state = "absent"
        BY <2>1 DEF SoleInv, AcceptedFirst
    <2>3. QED
        BY <1>4, <2>1, <2>2
<1>5. ASSUME NEW r \in Runs, StartFailProject(r)
      PROVE  Moves
    <2>1. starter[r].seq \in Nat \ {0} /\ starter[r].seq <= Len(journal[r])
        BY <1>5 DEF StartFailProject, BatchInJournal, TypeOK
    <2>2. Project(r, starter[r].seq, starter[r].seq, FALSE) /\ starter[r].seq \in Nat
        BY <1>5, <2>1 DEF StartFailProject
    <2>3. QED
        BY <1>2, <1>5, <2>1, <2>2 DEF Projects
<1>6. ASSUME NEW r \in Runs, StartFailureFails(r)
      PROVE  Moves
    <2>1. CASE starter[r].step = "failProject"
        <3>1. proj' = [proj EXCEPT ![r].state = "failed"]
            BY <1>6, <2>1 DEF StartFailureFails
        <3>2. q = r /\ proj'[q].state = "failed"
            BY <3>1 DEF TypeOK, Projections
        <3>3. QED
            BY <1>6, <2>1, <3>2 DEF Overwrites
    <2>2. CASE starter[r].step # "failProject"
        BY <1>6, <2>2 DEF StartFailureFails
    <2>3. QED
        BY <2>1, <2>2
<1>7. ASSUME NEW t \in Supervisors, RecoverExpired(t)
      PROVE  Moves
    BY <1>7 DEF RecoverExpired, Expired, TypeOK, Projections
<1>8. ASSUME NEW t \in Supervisors, NEW r \in Runs, ClaimTurn(t, r)
      PROVE  Moves
    <2>1. q = r /\ proj'[q].state = "running"
        BY <1>8 DEF ClaimTurn, TypeOK, Projections
    <2>2. proj[q].state = "queued"
        BY <1>8, <2>1, TargetsAreClaimable DEF ClaimTurn, Claimable
    <2>3. QED
        BY <1>8, <2>1, <2>2
<1>9. ASSUME NEW t \in Supervisors, ApplyJournal(t)
      PROVE  Moves
    <2>1. seen[t] \in Nat /\ seen[t] <= Len(journal[held[t].run])
        BY <1>9 DEF ApplyJournal, BatchInJournal, TypeOK
    <2>2. Project(held[t].run, 1, seen[t], FALSE)
        BY <1>9 DEF ApplyJournal
    <2>3. 1 \in Nat \ {0}
        OBVIOUS
    <2>4. QED
        BY <1>1, <1>2, <1>9, <2>1, <2>2, <2>3 DEF Projects
<1>10. ASSUME NEW t \in Supervisors, FinishLease(t) \/ FallbackFinish(t)
       PROVE  Moves
    <2>1. proj' # proj
        OBVIOUS
    <2>2. /\ FallbackFinish(t) /\ HoldsLease(t)
          /\ proj' = [proj EXCEPT ![held[t].run] = [state |-> "failed", seq |-> 0]]
        BY <1>10, <2>1 DEF FinishLease, FallbackFinish
    <2>3. q = held[t].run /\ proj'[q].state = "failed"
        BY <2>2 DEF TypeOK
    <2>4. QED
        BY <2>2, <2>3 DEF Overwrites
<1>11. ASSUME NEW c \in Clients, ProjectRequest(c)
       PROVE  Moves
    <2>1. /\ request[c].run \in Runs /\ request[c].lo \in Nat /\ request[c].hi \in Nat
          /\ request[c].step = "project" /\ request[c].rebuild \in BOOLEAN
        BY <1>11, RequestFields DEF ProjectRequest, TypeOK
    <2>2. request[c].lo >= 1 /\ request[c].hi <= Len(journal[request[c].run])
        BY <2>1 DEF BatchInJournal
    <2>3. request[c].rebuild = FALSE /\ request[c].lo \in Nat \ {0}
        BY <2>1, <2>2 DEF SoleInv, NeverRebuilt
    <2>4. Project(request[c].run, request[c].lo, request[c].hi, FALSE)
        BY <1>11, <2>3 DEF ProjectRequest
    <2>5. QED
        BY <1>2, <1>11, <2>1, <2>2, <2>3, <2>4 DEF Projects
<1>12. Moves
    <2> HIDE DEF Moves
    <2>1. QED
        BY <1>3, <1>4, <1>5, <1>6, <1>7, <1>8, <1>9, <1>10, <1>11, ReadModelWriters, Zenon
<1>13. QED
    BY <1>12

(* A start that is over stays over.                                         *)
LEMMA StarterDone ==
    ASSUME TypeOK, [Next]_vars
    PROVE  \A r \in Runs : starter[r].step = "done" => starter'[r] = starter[r]
<1>1. ASSUME NEW r \in Runs,
             \/ TurnStart(r) \/ AcceptTurn(r) \/ StartFails(r) \/ StartFailureFails(r)
             \/ StartCrash(r)
      PROVE  starter[r].step # "done" /\ \A q \in Runs \ {r} : starter'[q] = starter[q]
    BY <1>1 DEF TurnStart, AcceptTurn, StartFails, StartFailureFails, StartCrash,
                BootstrapTurn, BootstrapAppend, StartFailMessage, StartFailAppend,
                StartFailProject, TypeOK
<1>2. ASSUME NEW s \in Supervisors, Tick(s) \/ Heartbeat(s) \/ StepFails(s) \/ Crash(s)
      PROVE  UNCHANGED starter
    BY <1>2 DEF Tick, Execute, Heartbeat, StepFails, Crash, RecoverExpired, ClaimTurn,
                ClaimNothing, ObserveRun, SkipMessage, ReadJournal, ApplyJournal,
                AdoptCandidate, StartHeartbeat, EmitRunStarted, Dispatch, ExecuteTurn,
                Adjudicate, EmitRunFinished, FinishMessage, FinishLease, FailMessage,
                FailAppend, FallbackFinish, Lookup, TryAppend
<1>3. ASSUME NEW c \in Clients,
             \/ ClientStep(c) \/ RequestControl(c) \/ Subscribe(c) \/ RequestCrash(c)
      PROVE  UNCHANGED starter
    BY <1>3 DEF ClientStep, AppendControl, ProjectRequest, RequestControl, Subscribe,
                RequestCrash
<1>4. ClockTick \/ UNCHANGED vars => UNCHANGED starter
    BY DEF ClockTick, vars
<1>5. UNCHANGED starter \/ \E r \in Runs :
          starter[r].step # "done" /\ \A q \in Runs \ {r} : starter'[q] = starter[q]
    BY <1>1, <1>2, <1>3, <1>4, Zenon DEF Next
<1>6. QED
    BY <1>5

(* What a journal holds it keeps.                                           *)
LEMMA JournalKept ==
    ASSUME TypeOK, BatchInJournal, [Next]_vars
    PROVE  \A r \in Runs : \A i \in 1..Len(journal[r]) :
               i \in 1..Len(journal'[r]) /\ journal'[r][i] = journal[r][i]
<1>1. CASE UNCHANGED journal
    BY <1>1
<1>2. ASSUME NEW q \in Runs, NEW e \in Events, AppendEvent(q, e)
      PROVE  \A r \in Runs : \A i \in 1..Len(journal[r]) :
                 i \in 1..Len(journal'[r]) /\ journal'[r][i] = journal[r][i]
    <2>1. ASSUME NEW r \in Runs, NEW i \in 1..Len(journal[r])
          PROVE  i \in 1..Len(journal'[r]) /\ journal'[r][i] = journal[r][i]
        <3>1. CASE r # q
            BY <1>2, <3>1, AppendFacts
        <3>2. CASE r = q
            BY <1>2, <2>1, <3>2, AppendFacts
        <3>3. QED
            BY <3>1, <3>2
    <2>2. QED
        BY <2>1
<1>3. QED
    BY <1>1, <1>2, JournalStep DEF Written

(* Without subscriptions, a client projects the control event it journaled. *)
ControlsOnly ==
    \A c \in Clients : request[c].step = "project" =>
        /\ request[c].lo = request[c].hi
        /\ journal[request[c].run][request[c].lo].kind \in ControlKinds

(* No step puts another batch into the request of a client.                 *)
LEMMA ControlsStep ==
    ASSUME TypeOK, BatchInJournal, NeverRebuilt, ControlsOnly, [Next]_vars
    PROVE  ControlsOnly'
<1> DEFINE Kept(c) == request'[c] = request[c] \/ request'[c].step # "project"
           Appended(c) == /\ request'[c].lo = request'[c].hi
                          /\ journal'[request'[c].run][request'[c].lo].kind \in ControlKinds
<1>1. ASSUME NEW r \in Runs,
             \/ TurnStart(r) \/ AcceptTurn(r) \/ StartFails(r) \/ StartFailureFails(r)
             \/ StartCrash(r)
      PROVE  \A c \in Clients : Kept(c)
    BY <1>1 DEF TurnStart, AcceptTurn, StartFails, StartFailureFails, StartCrash,
                BootstrapTurn, BootstrapAppend, StartFailMessage, StartFailAppend,
                StartFailProject
<1>2. ASSUME NEW s \in Supervisors, Tick(s) \/ Heartbeat(s) \/ StepFails(s) \/ Crash(s)
      PROVE  \A c \in Clients : Kept(c)
    BY <1>2 DEF Tick, Execute, Heartbeat, StepFails, Crash, RecoverExpired, ClaimTurn,
                ClaimNothing, ObserveRun, SkipMessage, ReadJournal, ApplyJournal,
                AdoptCandidate, StartHeartbeat, EmitRunStarted, Dispatch, ExecuteTurn,
                Adjudicate, EmitRunFinished, FinishMessage, FinishLease, FailMessage,
                FailAppend, FallbackFinish, Lookup, TryAppend
<1>3. ASSUME NEW c \in Clients, RequestControl(c) \/ ProjectRequest(c) \/ RequestCrash(c)
      PROVE  \A d \in Clients : Kept(d)
    <2>1. NoRequest.step # "project"
        BY DEF NoRequest
    <2>2. CASE request' = [request EXCEPT ![c] = NoRequest]
        BY <2>1, <2>2 DEF TypeOK
    <2>3. CASE RequestControl(c)
        BY <2>3 DEF RequestControl, NoRequest, TypeOK
    <2>4. QED
        BY <1>3, <2>2, <2>3 DEF ProjectRequest, RequestCrash
<1>4. ASSUME NEW c \in Clients, Subscribe(c)
      PROVE  FALSE
    BY <1>4 DEF Subscribe, Spend, NeverRebuilt
<1>5. ASSUME NEW c \in Clients, AppendControl(c)
      PROVE  \A d \in Clients : Kept(d) \/ Appended(d)
    <2> DEFINE r == request[c].run
               e == Event(request[c].kind, "control", request[c].next)
    <2>1. /\ r \in Runs /\ request[c].kind \in ControlKinds /\ e \in Events
          /\ e.kind = request[c].kind
        <3>1. /\ request[c].run \in Runs /\ request[c].next \in Nat
              /\ request[c].kind \in ControlKinds
            BY <1>5, RequestFields DEF AppendControl, BatchInJournal, TypeOK
        <3>2. QED
            BY <3>1, FixedEventTypes DEF Event
    <2>2. CASE request' = [request EXCEPT ![c] = NoRequest]
        BY <2>2 DEF TypeOK, NoRequest
    <2>3. CASE /\ AppendEvent(r, e)
               /\ request' = [request EXCEPT ![c].step = "project",
                                             ![c].lo = Len(journal[r]) + 1,
                                             ![c].hi = Len(journal[r]) + 1]
        <3>1. /\ request'[c].run = r /\ request'[c].lo = Len(journal[r]) + 1
              /\ request'[c].hi = Len(journal[r]) + 1
              /\ \A d \in Clients : d # c => request'[d] = request[d]
            BY <2>3 DEF TypeOK, Requests
        <3>2. journal'[r][Len(journal[r]) + 1] = e
            BY <2>1, <2>3, AppendFacts
        <3>3. QED
            BY <2>1, <3>1, <3>2
    <2>4. QED
        BY <1>5, <2>2, <2>3 DEF AppendControl
<1>6. ClockTick \/ UNCHANGED vars => \A c \in Clients : Kept(c)
    BY DEF ClockTick, vars
<1>7. \A c \in Clients : Kept(c) \/ Appended(c)
    <2> HIDE DEF Kept, Appended
    <2>1. QED
        BY <1>1, <1>2, <1>3, <1>4, <1>5, <1>6, Zenon DEF Next, ClientStep
<1>8. ASSUME NEW c \in Clients, request'[c].step = "project", request'[c] = request[c]
      PROVE  Appended(c)
    <2>1. /\ request[c].run \in Runs /\ request[c].lo \in Nat /\ request[c].hi \in Nat
          /\ request[c].lo = request[c].hi /\ request[c].lo >= 1
          /\ request[c].hi <= Len(journal[request[c].run])
          /\ journal[request[c].run][request[c].lo].kind \in ControlKinds
        BY <1>8, RequestFields DEF ControlsOnly, BatchInJournal, TypeOK
    <2>2. request[c].lo \in 1..Len(journal[request[c].run])
        BY <2>1 DEF TypeOK
    <2>3. journal'[request[c].run][request[c].lo] = journal[request[c].run][request[c].lo]
        BY <2>1, <2>2, JournalKept
    <2>4. QED
        BY <1>8, <2>1, <2>3
<1>9. QED
    BY <1>7, <1>8 DEF ControlsOnly

(* A batch that holds no end ends nothing.                                  *)
LEMMA QuietBatch ==
    ASSUME NEW events \in Seq(Events), NEW current, current \notin TerminalStates,
           \A i \in 1..Len(events) : StateOf(events[i].kind) \notin TerminalStates
    PROVE  StateAfter(current, events) \notin TerminalStates
<1> DEFINE terminal == Positions(events, TerminalStates)
           active == Positions(events, {"running", "paused"})
<1>1. terminal = {} /\ active \in SUBSET (1..Len(events)) /\ Len(events) \in Nat
    BY DEF Positions
<1>2. active # {} => StateOf(events[Latest(active)].kind) \in {"running", "paused"}
    <2>1. active # {} => Latest(active) \in active
        BY <1>1, LatestExists
    <2>2. QED
        BY <2>1 DEF Positions
<1>3. "running" \notin TerminalStates /\ "paused" \notin TerminalStates
    BY DEF TerminalStates
<1> HIDE DEF terminal, active
<1>4. StateAfter(current, events) =
        IF current \in TerminalStates THEN current
        ELSE IF terminal # {} THEN StateOf(events[Earliest(terminal)].kind)
        ELSE IF active # {} THEN StateOf(events[Latest(active)].kind)
        ELSE current
    BY Zenon DEF StateAfter, terminal, active
<1>5. QED
    BY <1>1, <1>2, <1>3, <1>4

(* A batch of one event.                                                    *)
LEMMA OneEvent ==
    ASSUME NEW events \in Seq(Events), NEW n \in 1..Len(events)
    PROVE  /\ SubSeq(events, n, n) \in Seq(Events)
           /\ Len(SubSeq(events, n, n)) = 1 /\ SubSeq(events, n, n)[1] = events[n]
<1>1. n \in Nat /\ n >= 1 /\ n <= Len(events) /\ Len(events) \in Nat
    OBVIOUS
<1>2. SubSeq(events, n, n) \in Seq(Events)
    BY <1>1
<1>3. Len(SubSeq(events, n, n)) = 1
    BY <1>1
<1>4. SubSeq(events, n, n)[1] = events[n + 1 - 1]
    BY <1>1, <1>3
<1>5. QED
    BY <1>1, <1>2, <1>3, <1>4

(* A control event that is no cancellation ends nothing.                    *)
LEMMA ControlEndsNothing ==
    ASSUME TypeOK, BatchInJournal, SoleInv, ControlsOnly, "RunCancelled" \notin ControlKinds,
           NEW c \in Clients, ProjectRequest(c), proj[request[c].run].state \notin TerminalStates
    PROVE  proj'[request[c].run].state \notin TerminalStates
<1>1. PICK r \in Runs, n \in Nat : r = request[c].run /\ n = request[c].lo
    BY RequestFields DEF TypeOK
<1>2. /\ request[c].step = "project" /\ ~ request[c].rebuild
      /\ n >= 1 /\ request[c].hi = n /\ n <= Len(journal[r])
      /\ journal[r][n].kind \in ControlKinds
    <2>1. request[c].step = "project"
        BY DEF ProjectRequest
    <2>2. request[c].hi = n /\ journal[r][n].kind \in ControlKinds /\ ~ request[c].rebuild
        BY <1>1, <2>1 DEF ControlsOnly, SoleInv, NeverRebuilt
    <2>3. n >= 1 /\ n <= Len(journal[r])
        BY <1>1, <2>1, <2>2 DEF BatchInJournal
    <2>4. QED
        BY <2>1, <2>2, <2>3
<1>3. n \in Nat \ {0} /\ journal[r] \in Seq(Events) /\ Len(journal[r]) \in Nat
    BY <1>1, <1>2 DEF TypeOK
<1>4. Project(r, n, n, FALSE)
    <2>1. Project(r, n, request[c].hi, request[c].rebuild)
        BY <1>1, Zenon DEF ProjectRequest
    <2>2. request[c].rebuild = FALSE
        BY <1>2, RequestFields DEF TypeOK
    <2>3. QED
        BY <1>2, <2>1, <2>2
<1>5. StateOf(journal[r][n].kind) \notin TerminalStates
    BY <1>2, TurnSupervisorAssumption DEF StateOf, TerminalStates
<1>6. proj'[r].state = StateAfter(proj[r].state, SubSeq(journal[r], n, n))
    <2>1. n <= n
        BY <1>3
    <2>2. QED
        BY <1>4, <1>2, <1>3, <2>1, ProjectMoves DEF SoleInv
<1>7. /\ SubSeq(journal[r], n, n) \in Seq(Events)
      /\ Len(SubSeq(journal[r], n, n)) = 1 /\ SubSeq(journal[r], n, n)[1] = journal[r][n]
    <2>1. n \in 1..Len(journal[r])
        BY <1>2, <1>3
    <2>2. QED
        BY <1>3, <2>1, OneEvent
<1> DEFINE batch == SubSeq(journal[r], n, n)
<1>8. \A i \in 1..Len(batch) : StateOf(batch[i].kind) \notin TerminalStates
    BY <1>5, <1>7
<1> HIDE DEF batch
<1>9. StateAfter(proj[r].state, batch) \notin TerminalStates
    <2>1. batch \in Seq(Events) /\ proj[r].state \notin TerminalStates
        BY <1>1, <1>7 DEF batch
    <2>2. QED
        BY <1>8, <2>1, QuietBatch
<1>10. QED
    BY <1>1, <1>6, <1>9 DEF batch

(* Where starts are prompt and nobody cancels, a turn whose start is not    *)
(* over is not worked on, and its run is at no end.                         *)
Starting ==
    \A r \in Runs : starter[r].step # "done" => Idle(r) /\ proj[r].state \notin TerminalStates

(* No step lets a tick or an end come before the start of a turn is over.   *)
LEMMA StartingStep ==
    ASSUME "starts" \in Prompt, "RunCancelled" \notin ControlKinds, TypeOK, BatchInJournal,
           SoleInv, ControlsOnly, Starting, [Next]_vars
    PROVE  Starting'
<1> SUFFICES ASSUME NEW r \in Runs, starter'[r].step # "done"
             PROVE  Idle(r)' /\ proj'[r].state \notin TerminalStates
    BY DEF Starting
<1>1. starter[r].step # "done"
    BY StarterDone
<1>2. Idle(r) /\ proj[r].state \notin TerminalStates
    BY <1>1 DEF Starting
<1>3. ASSUME NEW s \in Supervisors, Working(s)', held'[s].run = r
      PROVE  FALSE
    <2>1. ~ \E q \in Runs : ClaimTurn(s, q)
        BY <1>1, <1>3 DEF ClaimTurn, TypeOK
    <2>2. Working(s) /\ held'[s] = held[s]
        BY <1>3, <2>1, WorkSteps DEF WorkStep
    <2>3. QED
        BY <1>2, <1>3, <2>2 DEF Idle
<1>4. ASSUME proj'[r].state \in TerminalStates
      PROVE  FALSE
    <2>1. proj'[r].state # proj[r].state /\ proj'[r].state \notin {"queued", "running"}
        BY <1>2, <1>4 DEF TerminalStates
    <2>2. Projects(r) \/ Overwrites(r)
        BY <2>1, StateMoves
    <2>3. ~ StartFailProject(r) /\ ~ StartFailureFails(r)
        BY <1>1 DEF StartFailProject, StartFailureFails, TypeOK, Starters
    <2>4. ASSUME NEW t \in Supervisors, held[t].run = r, ApplyJournal(t) \/ FallbackFinish(t)
          PROVE  FALSE
        BY <1>2, <2>4 DEF ApplyJournal, FallbackFinish, At, Idle, Working
    <2>5. ASSUME NEW c \in Clients, ProjectRequest(c), request[c].run = r
          PROVE  FALSE
        BY <1>2, <1>4, <2>5, ControlEndsNothing
    <2>6. QED
        BY <2>2, <2>3, <2>4, <2>5 DEF Projects, Overwrites
<1>5. QED
    BY <1>3, <1>4 DEF Idle

(* The failure arm is entered with the time at which it is, and left by     *)
(* reporting; a tick that has reported reads, applies and finishes.         *)
Reported(s) == outcome[s] = "error" /\ pc[s] \in {"read", "apply", "finish"}
Reporting(s) == pc[s] \in {"failMessage", "failAppend"}

FailStep(t) ==
    /\ Reporting(t)' => now'[t] = clock \/ (Reporting(t) /\ now'[t] = now[t])
    /\ Reported(t) => Reported(t)' \/ ~ Working(t)' \/ pc'[t] = "fallback"

(* Every tick fails, reports and leaves its failure arm so.                 *)
LEMMA FailSteps ==
    ASSUME TypeOK, ErrorInArm, [Next]_vars
    PROVE  \A t \in Supervisors : FailStep(t)
<1> DEFINE Others(s) == \A t \in Supervisors : t # s =>
               /\ pc'[t] = pc[t] /\ held'[t] = held[t]
               /\ outcome'[t] = outcome[t] /\ now'[t] = now[t]
           Kept == \A t \in Supervisors : FailStep(t)
           Places == TickSteps \ {"failMessage", "failAppend"}
<1> USE DEF TypeOK, ErrorInArm, Reported, Reporting, Working
<1>1. UNCHANGED <<pc, held, outcome, now>> => Kept
    BY DEF FailStep
<1>2. ASSUME NEW s \in Supervisors, Others(s), FailStep(s)
      PROVE  Kept
    BY <1>2 DEF FailStep
<1>3. ASSUME NEW s \in Supervisors, Fail(s)
      PROVE  Others(s) /\ FailStep(s)
    BY <1>3 DEF Fail, Goto, FailStep
<1>4. ASSUME NEW s \in Supervisors, Leave(s)
      PROVE  Others(s) /\ FailStep(s)
    BY <1>4 DEF Leave, FailStep
<1>5. ASSUME NEW s \in Supervisors, NEW step \in Places, Goto(s, step),
             UNCHANGED <<held, outcome, now>>, pc[s] \notin {"read", "apply", "finish"}
      PROVE  Others(s) /\ FailStep(s)
    BY <1>5 DEF Goto, FailStep
<1>6. ASSUME NEW r \in Runs,
             \/ TurnStart(r) \/ AcceptTurn(r) \/ StartFails(r) \/ StartFailureFails(r)
             \/ StartCrash(r)
      PROVE  UNCHANGED <<pc, held, outcome, now>>
    BY <1>6 DEF TurnStart, AcceptTurn, StartFails, StartFailureFails, StartCrash,
                BootstrapTurn, BootstrapAppend, StartFailMessage, StartFailAppend,
                StartFailProject
<1>7. ASSUME NEW c \in Clients,
             \/ ClientStep(c) \/ RequestControl(c) \/ Subscribe(c) \/ RequestCrash(c)
      PROVE  UNCHANGED <<pc, held, outcome, now>>
    BY <1>7 DEF ClientStep, AppendControl, ProjectRequest, RequestControl, Subscribe,
                RequestCrash
<1>8. (\E s \in Supervisors : Heartbeat(s)) \/ ClockTick \/ UNCHANGED vars
          => UNCHANGED <<pc, held, outcome, now>>
    BY DEF Heartbeat, ClockTick, vars
<1>9. ASSUME NEW s \in Supervisors,
             RecoverExpired(s) \/ \E r \in Runs : ClaimTurn(s, r)
      PROVE  Others(s) /\ FailStep(s)
    BY <1>9 DEF RecoverExpired, ClaimTurn, At, Goto, FailStep
<1>10. ASSUME NEW s \in Supervisors,
              ObserveRun(s) \/ AdoptCandidate(s) \/ ExecuteTurn(s) \/ Adjudicate(s)
       PROVE  Others(s) /\ FailStep(s)
    BY <1>10 DEF ObserveRun, AdoptCandidate, ExecuteTurn, Adjudicate, At, Goto, FailStep
<1>11. ASSUME NEW s \in Supervisors, SkipMessage(s) \/ ReadJournal(s) \/ ApplyJournal(s)
              \/ FinishMessage(s) \/ FailMessage(s)
       PROVE  Others(s) /\ FailStep(s)
    BY <1>11 DEF SkipMessage, ReadJournal, ApplyJournal, FinishMessage, FailMessage, At,
                 Goto, ContextKept, FailStep
<1>12. ASSUME NEW s \in Supervisors, NEW step, NEW e, NEW present \in Places,
              NEW absent \in Places, step \notin {"read", "apply", "finish"},
              Lookup(s, step, e, present, absent)
       PROVE  Others(s) /\ FailStep(s)
    <2>1. PICK next \in Places : Goto(s, next)
        BY <1>12, Zenon DEF Lookup
    <2>2. UNCHANGED <<held, outcome, now>> /\ pc[s] \notin {"read", "apply", "finish"}
        BY <1>12 DEF Lookup, ContextKept, At
    <2>3. QED
        BY <1>5, <2>1, <2>2
<1>13. ASSUME NEW s \in Supervisors, NEW step, NEW e, NEW next \in Places,
              step \notin {"read", "apply", "finish"}, TryAppend(s, step, e, next)
       PROVE  Others(s) /\ FailStep(s)
    <2>1. pc[s] \notin {"read", "apply", "finish"}
        BY <1>13 DEF TryAppend, At
    <2>2. CASE Fail(s)
        BY <1>3, <2>2
    <2>3. CASE Goto(s, next) /\ UNCHANGED <<held, outcome, now>>
        BY <1>5, <1>13, <2>1, <2>3
    <2>4. QED
        BY <1>13, <2>2, <2>3 DEF TryAppend, ContextKept
<1>14. ASSUME NEW s \in Supervisors,
              EmitRunStarted(s) \/ Dispatch(s) \/ EmitRunFinished(s) \/ FailAppend(s)
       PROVE  Others(s) /\ FailStep(s)
    <2>1. /\ \A step \in {"start", "startAppend", "bootstrap", "bootstrapAppend", "dispatch",
                          "emit", "emitAppend", "failAppend"} :
                 step \notin {"read", "apply", "finish"}
          /\ {"bootstrap", "startAppend", "bootstrapAppend", "dispatch", "dispatching",
              "emitAppend", "read"} \subseteq Places
        BY DEF TickSteps
    <2> HIDE DEF Places
    <2>2. CASE EmitRunStarted(s)
        BY <1>12, <1>13, <2>1, <2>2, Zenon DEF EmitRunStarted
    <2>3. CASE Dispatch(s)
        BY <1>12, <1>13, <2>1, <2>3, Zenon DEF Dispatch
    <2>4. CASE EmitRunFinished(s)
        BY <1>12, <1>13, <2>1, <2>4, Zenon DEF EmitRunFinished
    <2>5. CASE FailAppend(s)
        BY <1>13, <2>1, <2>5, Zenon DEF FailAppend
    <2>6. QED
        BY <1>14, <2>2, <2>3, <2>4, <2>5
<1>15. ASSUME NEW s \in Supervisors, StartHeartbeat(s)
       PROVE  Others(s) /\ FailStep(s)
    <2>1. CASE Fail(s)
        BY <1>3, <2>1
    <2>2. CASE Goto(s, "start") /\ UNCHANGED <<held, now, outcome>>
        BY <1>15, <2>2 DEF StartHeartbeat, At, Goto, FailStep
    <2>3. QED
        BY <1>15, <2>1, <2>2 DEF StartHeartbeat
<1>16. ASSUME NEW s \in Supervisors,
              ClaimNothing(s) \/ FallbackFinish(s) \/ Crash(s) \/ FinishLease(s)
       PROVE  Others(s) /\ FailStep(s)
    <2>1. Leave(s) \/ Fail(s)
        BY <1>16 DEF ClaimNothing, FallbackFinish, Crash, FinishLease
    <2>2. QED
        BY <1>3, <1>4, <2>1
<1>17. ASSUME NEW s \in Supervisors, StepFails(s)
       PROVE  Others(s) /\ FailStep(s)
    <2>1. \/ Leave(s) \/ Fail(s)
          \/ At(s, "failMessage") /\ Goto(s, "failAppend") /\ ContextKept
        BY <1>17 DEF StepFails
    <2>2. CASE At(s, "failMessage") /\ Goto(s, "failAppend") /\ ContextKept
        BY <2>2 DEF At, Goto, ContextKept, FailStep
    <2>3. QED
        BY <1>3, <1>4, <2>1, <2>2
<1> HIDE DEF TypeOK, ErrorInArm, Kept, Others
<1>18. Kept
    BY <1>1, <1>2, <1>6, <1>7, <1>8, <1>9, <1>10, <1>11, <1>14, <1>15, <1>16, <1>17,
       Zenon DEF Next, Tick, Execute
<1>19. QED
    BY <1>18 DEF Kept

(* Who writes which event.                                                  *)
ChildFailure == IF "objective" \in Children THEN {"RoleWorkerFailed", "VerificationFailed"}
                ELSE {"RoleWorkerFailed"}

Writes(r, e) ==
    \/ e = QueuedEvent
    \/ e.tag = "control" /\ e.kind \in ControlKinds
    \/ e = Event("VerificationFailed", "start-failed", 0) /\ StartFailAppend(r)
    \/ \E s \in Supervisors :
          /\ held[s].run = r
          /\ \/ e = StartedEvent /\ EmitRunStarted(s)
             \/ e = LeasedEvent /\ Dispatch(s)
             \/ e = Event("VerificationFailed", "root-failed", 0) /\ ExecuteTurn(s)
             \/ ExecuteTurn(s) /\ \E kind \in ChildFailure : e = Event(kind, "child-failed", 0)
             \/ e = FinalEvent(s) /\ EmitRunFinished(s)
             \/ e = Event("VerificationFailed", "supervisor-failed", now[s]) /\ FailAppend(s)

(* One event at most is appended by a step, by the thread that means it.    *)
LEMMA JournalMoves ==
    ASSUME TypeOK, BatchInJournal, [Next]_vars
    PROVE  UNCHANGED journal \/ \E r \in Runs, e \in Events : AppendEvent(r, e) /\ Writes(r, e)
<1> DEFINE Moves == UNCHANGED journal
                    \/ \E r \in Runs, e \in Events : AppendEvent(r, e) /\ Writes(r, e)
<1>1. \A s \in Supervisors : held[s].run \in Runs /\ now[s] \in Nat
    BY HeldFields DEF TypeOK
<1>2. 0 \in Nat
    OBVIOUS
<1>3. ASSUME NEW r \in Runs, BootstrapAppend(r) \/ StartFailAppend(r)
      PROVE  Moves
    <2>1. QueuedEvent \in Events /\ Event("VerificationFailed", "start-failed", 0) \in Events
        BY FixedEventTypes
    <2>2. CASE AppendEvent(r, QueuedEvent)
        BY <2>1, <2>2, Zenon DEF Writes
    <2>3. CASE StartFailAppend(r)
        BY <2>1, <2>3, Zenon DEF Writes, StartFailAppend
    <2>4. CASE UNCHANGED journal
        BY <2>4
    <2>5. QED
        BY <1>3, <2>2, <2>3, <2>4 DEF BootstrapAppend
<1>4. ASSUME NEW s \in Supervisors, EmitRunStarted(s) \/ Dispatch(s) \/ EmitRunFinished(s)
                                    \/ FailAppend(s)
      PROVE  Moves
    <2> DEFINE q == held[s].run
               lost == Event("VerificationFailed", "supervisor-failed", now[s])
    <2>1. /\ q \in Runs /\ {StartedEvent, QueuedEvent, LeasedEvent} \subseteq Events
          /\ FinalEvent(s) \in Events /\ lost \in Events
        BY <1>1, FixedEventTypes
    <2>2. \/ UNCHANGED journal
          \/ EmitRunStarted(s) /\ AppendEvent(q, StartedEvent)
          \/ Dispatch(s) /\ AppendEvent(q, QueuedEvent)
          \/ Dispatch(s) /\ AppendEvent(q, LeasedEvent)
          \/ EmitRunFinished(s) /\ AppendEvent(q, FinalEvent(s))
          \/ FailAppend(s) /\ AppendEvent(q, lost)
        BY <1>4 DEF EmitRunStarted, Dispatch, EmitRunFinished, FailAppend, TryAppend, Lookup
    <2> HIDE DEF lost
    <2>3. \A e \in Events : AppendEvent(q, e) /\ Writes(q, e) => Moves
        BY <2>1, Zenon
    <2>4. /\ EmitRunStarted(s) => Writes(q, StartedEvent)
          /\ Writes(q, QueuedEvent)
          /\ Dispatch(s) => Writes(q, LeasedEvent)
          /\ EmitRunFinished(s) => Writes(q, FinalEvent(s))
          /\ FailAppend(s) => Writes(q, lost)
        BY Zenon DEF Writes, lost
    <2>5. QED
        BY <2>1, <2>2, <2>3, <2>4, Zenon
<1>5. ASSUME NEW s \in Supervisors, ExecuteTurn(s)
      PROVE  Moves
    <2> DEFINE q == held[s].run
               root == Event("VerificationFailed", "root-failed", 0)
               child(kind) == Event(kind, "child-failed", 0)
    <2>1. /\ q \in Runs /\ root \in Events
          /\ \A kind \in {"RoleWorkerFailed", "VerificationFailed"} : child(kind) \in Events
        BY <1>2, <1>1, FixedEventTypes
    <2>2. \/ UNCHANGED journal
          \/ AppendEvent(q, root)
          \/ \E kind \in ChildFailure : AppendEvent(q, child(kind))
        BY <1>5 DEF ExecuteTurn, ChildFailure
    <2> HIDE DEF root, child
    <2>3. \A e \in Events : AppendEvent(q, e) /\ Writes(q, e) => Moves
        BY <2>1, Zenon
    <2>4. Writes(q, root) /\ \A kind \in ChildFailure : Writes(q, child(kind))
        BY <1>5, Zenon DEF Writes, root, child
    <2>5. ChildFailure \subseteq {"RoleWorkerFailed", "VerificationFailed"}
        BY DEF ChildFailure
    <2> HIDE DEF Moves
    <2>6. AppendEvent(q, root) => Moves
        BY <2>1, <2>3, <2>4, Zenon
    <2>7. ASSUME NEW kind \in ChildFailure, AppendEvent(q, child(kind))
          PROVE  Moves
        <3>1. child(kind) \in Events
            BY <2>1, <2>5, Zenon
        <3>2. QED
            BY <2>3, <2>4, <2>7, <3>1, Zenon
    <2>8. UNCHANGED journal => Moves
        BY DEF Moves
    <2>9. QED
        BY <2>2, <2>6, <2>7, <2>8, Zenon
<1>6. ASSUME NEW c \in Clients, AppendControl(c)
      PROVE  Moves
    <2>1. request[c].run \in Runs /\ request[c].next \in Nat
        BY RequestFields DEF TypeOK
    <2> DEFINE e == Event(request[c].kind, "control", request[c].next)
    <2>2. e \in Events /\ e.tag = "control" /\ e.kind \in ControlKinds
        BY <1>6, <2>1, FixedEventTypes DEF AppendControl, BatchInJournal, Event
    <2>3. AppendEvent(request[c].run, e) \/ UNCHANGED journal
        BY <1>6 DEF AppendControl
    <2> HIDE DEF e
    <2>4. Writes(request[c].run, e)
        BY <2>2 DEF Writes
    <2>5. QED
        BY <2>1, <2>2, <2>3, <2>4
<1> HIDE DEF Moves
<1>7. UNCHANGED journal => Moves
    BY DEF Moves
<1>8. Moves
    BY <1>3, <1>4, <1>5, <1>6, <1>7, JournalWriters, Zenon
<1>9. QED
    BY <1>8 DEF Moves

(* An event of a journal was there, or is the one that is appended.         *)
LEMMA NewEvent ==
    ASSUME TypeOK, NEW q \in Runs, NEW e \in Events, AppendEvent(q, e),
           NEW r \in Runs, NEW i \in 1..Len(journal'[r])
    PROVE  \/ i \in 1..Len(journal[r]) /\ journal'[r][i] = journal[r][i]
           \/ r = q /\ i = Len(journal[q]) + 1 /\ journal'[r][i] = e
<1>1. CASE r # q
    BY <1>1, AppendFacts
<1>2. CASE r = q
    <2>1. i \in 1..Len(journal[q]) \/ i = Len(journal[q]) + 1
        BY <1>2, AppendFacts
    <2>2. QED
        BY <1>2, <2>1, AppendFacts
<1>3. QED
    BY <1>1, <1>2

(* Only the failure arm of a tick writes the event of its failure.          *)
LEMMA NewFailure ==
    ASSUME TypeOK, BatchInJournal, [Next]_vars,
           NEW r \in Runs, NEW i \in 1..Len(journal'[r]),
           journal'[r][i].tag = "supervisor-failed"
    PROVE  \/ i \in 1..Len(journal[r]) /\ journal'[r][i] = journal[r][i]
           \/ \E s \in Supervisors : /\ held[s].run = r /\ FailAppend(s)
                                     /\ AppendEvent(r, journal'[r][i])
                                     /\ journal'[r][i].n = now[s]
<1>1. CASE UNCHANGED journal
    BY <1>1
<1>2. ASSUME NEW q \in Runs, NEW e \in Events, AppendEvent(q, e), Writes(q, e),
             r = q, journal'[r][i] = e
      PROVE  \E s \in Supervisors : /\ held[s].run = r /\ FailAppend(s)
                                    /\ AppendEvent(r, journal'[r][i])
                                    /\ journal'[r][i].n = now[s]
    <2>1. e.tag = "supervisor-failed"
        BY <1>2
    <2>2. QED
        BY <1>2, <2>1 DEF Writes, QueuedEvent, StartedEvent, LeasedEvent, FinalEvent, Event
<1>3. QED
    BY <1>1, <1>2, JournalMoves, NewEvent

(* An expiry stays, is taken away, or lies in the future; a claim gives a   *)
(* queued run one.                                                          *)
LEMMA ExpirySteps ==
    ASSUME TypeOK, [Next]_vars
    PROVE  \A r \in Runs :
               \/ lease'[r].expires \in {lease[r].expires, NoExpiry, clock + TTL}
               \/ proj[r].state = "queued" /\ \E s \in Supervisors : ClaimTurn(s, r)
<1> DEFINE Moved(r) == \/ lease'[r].expires \in {lease[r].expires, NoExpiry, clock + TTL}
                       \/ proj[r].state = "queued" /\ \E s \in Supervisors : ClaimTurn(s, r)
           Kept == \A r \in Runs : Moved(r)
<1>1. lease \in [Runs -> Leases] /\ \A s \in Supervisors : held[s].run \in Runs
    BY HeldFields DEF TypeOK
<1>2. UNCHANGED lease => Kept
    OBVIOUS
<1>3. ASSUME NEW s \in Supervisors, RecoverExpired(s)
      PROVE  Kept
    BY <1>1, <1>3 DEF RecoverExpired, Leases
<1>4. ASSUME NEW s \in Supervisors, NEW q \in Runs, ClaimTurn(s, q)
      PROVE  Kept
    <2>1. proj[q].state = "queued"
        BY <1>4, TargetsAreClaimable DEF ClaimTurn, Claimable
    <2>2. \A r \in Runs \ {q} : lease'[r] = lease[r]
        BY <1>1, <1>4 DEF ClaimTurn
    <2>3. QED
        BY <1>4, <2>1, <2>2
<1>5. ASSUME NEW s \in Supervisors,
             RenewLease(s) \/ ClearLease(held[s].run)
      PROVE  Kept
    BY <1>1, <1>5 DEF RenewLease, ClearLease, Leases
<1> HIDE DEF Kept
<1>6. ASSUME NEW s \in Supervisors, StartHeartbeat(s) \/ Heartbeat(s) \/ FinishLease(s)
                                    \/ FallbackFinish(s)
      PROVE  Kept
    BY <1>2, <1>5, <1>6 DEF StartHeartbeat, Heartbeat, FinishLease, FallbackFinish
<1>7. Kept
    BY <1>2, <1>3, <1>4, <1>6, LeaseWriters, Zenon
<1>8. QED
    BY <1>7 DEF Kept

(* The failure events a journal may hold: one that its tick wrote before    *)
(* any other tick could fail on the run, so that the next failure event has *)
(* an id of its own.                                                        *)
Past(r, n) ==
    /\ n <= clock
    /\ proj[r].state \in {"queued", "running"} \cup TerminalStates
    /\ proj[r].state = "queued" => n < clock
    /\ proj[r].state = "running" =>
           n < clock \/ lease[r].expires = NoExpiry \/ n < lease[r].expires
    /\ \A s \in Supervisors : Working(s) /\ held[s].run = r =>
           Reported(s) \/ (n < clock /\ (Reporting(s) => n < now[s]))
FailuresPast ==
    \A r \in Runs : \A i \in 1..Len(journal[r]) :
        journal[r][i].tag = "supervisor-failed" => Past(r, journal[r][i].n)
NoFallback == \A s \in Supervisors : pc[s] # "fallback"

(* Once an event of failure is in the past it stays there.                  *)
LEMMA PastKept ==
    ASSUME TypeOK, BatchInJournal, SoleInv, ErrorInArm, NoFallback', [Next]_vars,
           NEW r \in Runs, NEW n \in Nat, Past(r, n)
    PROVE  Past(r, n)'
<1>1. /\ clock \in Nat /\ clock' \in Nat /\ clock <= clock' /\ TTL \in Nat \ {0}
      /\ lease[r].expires \in Int
    <2>1. clock \in Nat /\ TTL \in Nat \ {0}
        BY TurnSupervisorAssumption DEF TypeOK
    <2>2. clock' = clock \/ clock' = clock + 1
        BY ClockSteps DEF ClockTick
    <2>3. clock' \in Nat /\ clock <= clock'
        BY <2>1, <2>2
    <2>4. lease[r] \in Leases
        BY DEF TypeOK
    <2>5. QED
        BY <2>1, <2>3, <2>4, LeaseFields
<1>2. n < clock => n < clock'
    BY <1>1
<1>3. \/ proj'[r].state = proj[r].state
      \/ /\ proj[r].state = "running" /\ proj'[r].state = "queued" /\ Expired(r, clock)
      \/ /\ proj[r].state = "queued" /\ proj'[r].state = "running"
      \/ /\ proj[r].state \in {"queued", "running"} /\ proj'[r].state # proj[r].state
         /\ proj'[r].state \in {"running"} \cup TerminalStates
      \/ proj'[r].state = "failed"
    <2>1. proj[r].state \in {"queued", "running"} \cup TerminalStates
        BY DEF Past
    <2>2. proj[r].state # "absent"
        BY <2>1 DEF TerminalStates
    <2>3. CASE proj'[r].state # proj[r].state
        BY <2>1, <2>2, <2>3, StateMoves
    <2>4. QED
        BY <2>3
<1>4. n <= clock' /\ proj'[r].state \in {"queued", "running"} \cup TerminalStates
    <2>1. n <= clock /\ proj[r].state \in {"queued", "running"} \cup TerminalStates
        BY DEF Past
    <2>2. QED
        BY <1>1, <1>3, <2>1 DEF TerminalStates
<1>5. proj'[r].state = "queued" => n < clock'
    <2>1. Expired(r, clock) => lease[r].expires # NoExpiry /\ lease[r].expires <= clock
        BY DEF Expired
    <2>2. ASSUME proj'[r].state = "queued"
          PROVE  proj[r].state = "queued" \/ (proj[r].state = "running" /\ Expired(r, clock))
        BY <1>3, <2>2 DEF TerminalStates
    <2>3. ASSUME proj[r].state = "running", Expired(r, clock)
          PROVE  n < clock
        BY <1>1, <2>1, <2>3 DEF Past
    <2>4. proj[r].state = "queued" => n < clock
        BY DEF Past
    <2>5. QED
        BY <1>2, <2>2, <2>3, <2>4
<1>6. proj'[r].state = "running" =>
          n < clock' \/ lease'[r].expires = NoExpiry \/ n < lease'[r].expires
    <2>1. CASE n < clock
        BY <1>2, <2>1
    <2>2. CASE ~ (n < clock) /\ proj'[r].state = "running"
        <3>1. proj[r].state = "running"
            BY <1>3, <2>2 DEF Past, TerminalStates
        <3>2. lease'[r].expires \in {lease[r].expires, NoExpiry, clock + TTL}
            BY <3>1, ExpirySteps
        <3>3. lease[r].expires = NoExpiry \/ n < lease[r].expires
            BY <2>2, <3>1 DEF Past
        <3>4. n <= clock
            BY DEF Past
        <3>5. n < clock + TTL
            BY <1>1, <3>4
        <3>6. QED
            BY <3>2, <3>3, <3>5
    <2>3. QED
        BY <2>1, <2>2
<1>7. ASSUME NEW s \in Supervisors, Working(s)', held'[s].run = r
      PROVE  Reported(s)' \/ (n < clock' /\ (Reporting(s)' => n < now'[s]))
    <2>1. CASE Working(s) /\ held'[s] = held[s]
        <3>1. CASE Reported(s)
            <4>1. FailStep(s)
                BY FailSteps
            <4>2. QED
                BY <1>7, <3>1, <4>1 DEF FailStep, NoFallback
        <3>2. CASE ~ Reported(s)
            <4>1. n < clock /\ (Reporting(s) => n < now[s])
                BY <1>7, <2>1, <3>2 DEF Past
            <4>2. FailStep(s)
                BY FailSteps
            <4>3. QED
                BY <1>2, <4>1, <4>2 DEF FailStep
        <3>3. QED
            BY <3>1, <3>2
    <2>2. ASSUME NEW q \in Runs, ClaimTurn(s, q)
          PROVE  n < clock' /\ ~ Reporting(s)'
        <3>1. q = r /\ pc'[s] = "observe"
            BY <1>7, <2>2 DEF ClaimTurn, Goto, TypeOK
        <3>2. proj[r].state = "queued"
            BY <2>2, <3>1, TargetsAreClaimable DEF ClaimTurn, Claimable
        <3>3. QED
            BY <1>2, <3>1, <3>2 DEF Past, Reporting
    <2>3. QED
        BY <1>7, <2>1, <2>2, WorkSteps DEF WorkStep
<1>8. QED
    BY <1>4, <1>5, <1>6, <1>7 DEF Past

(* What a tick reports of its own failure is in the past right away.        *)
LEMMA PastBegins ==
    ASSUME TypeOK, OutcomeKnown, LeaseInv, SoleInv, NEW s \in Supervisors, FailAppend(s),
           AppendEvent(held[s].run,
                       Event("VerificationFailed", "supervisor-failed", now[s]))
    PROVE  Past(held[s].run, now[s])'
<1>1. /\ Working(s) /\ outcome[s] = "error" /\ now[s] \in Nat /\ clock \in Nat
      /\ now[s] <= clock
    <2>1. pc[s] = "failAppend"
        BY DEF FailAppend, TryAppend, At
    <2>2. Working(s) /\ outcome[s] = "error"
        BY <2>1 DEF OutcomeKnown, Working
    <2>3. now[s] \in Nat /\ clock \in Nat /\ now[s] <= clock
        BY DEF LeaseInv, LeaseStands, TypeOK
    <2>4. QED
        BY <2>2, <2>3
<1>2. /\ Goto(s, "read") /\ ContextKept
      /\ UNCHANGED <<clock, lease, proj>>
    <2>1. ~ Recorded(held[s].run,
                     Event("VerificationFailed", "supervisor-failed", now[s]))
        BY DEF AppendEvent
    <2>2. QED
        BY <2>1 DEF FailAppend, TryAppend
<1>3. /\ proj[held[s].run].state \in {"running"} \cup TerminalStates
      /\ proj[held[s].run].state = "running" => now[s] < lease[held[s].run].expires
    BY <1>1 DEF SoleInv, OnTurn, TypeOK
<1>4. ASSUME NEW t \in Supervisors, Working(t)', held'[t].run = held[s].run
      PROVE  Reported(t)'
    <2>1. Working(t) /\ held[t].run = held[s].run
        BY <1>1, <1>2, <1>4 DEF Goto, ContextKept, TypeOK, Working
    <2>2. t = s
        BY <1>1, <2>1 DEF SoleInv, OneSupervisorPerTurn
    <2>3. QED
        BY <1>1, <1>2, <2>2 DEF Goto, ContextKept, Reported, TypeOK
<1>5. held'[s].run = held[s].run /\ now'[s] = now[s]
    BY <1>2 DEF ContextKept
<1>6. QED
    BY <1>1, <1>2, <1>3, <1>4, <1>5 DEF Past, TerminalStates

(* Where no arm meets an error of its own, none falls back.                 *)
LEMMA FallbackStep ==
    ASSUME TypeOK, EvidenceInv, Holding, FailuresPast, NoFallback,
           Budget["failureError"] = 0, [Next]_vars
    PROVE  NoFallback'
<1> SUFFICES ASSUME NEW t \in Supervisors, pc'[t] = "fallback"
             PROVE  FALSE
    BY DEF NoFallback
<1>1. FailAppend(t) \/ FinishLease(t) \/ StepFails(t)
    BY ArmSteps DEF ArmStep, EvidenceInv, NoFallback
<1>2. ASSUME FailAppend(t)
      PROVE  FALSE
    <2> DEFINE r == held[t].run
               lost == Event("VerificationFailed", "supervisor-failed", now[t])
    <2>1. r \in Runs /\ now[t] \in Nat /\ pc[t] = "failAppend"
        BY <1>2, HeldFields DEF FailAppend, TryAppend, At, TypeOK
    <2>2. Recorded(r, lost)
        BY <1>2 DEF FailAppend, TryAppend, Goto, TypeOK
    <2>3. PICK i \in 1..Len(journal[r]) :
              journal[r][i].tag = "supervisor-failed" /\ journal[r][i].n = now[t]
        BY <2>2 DEF Recorded, Event
    <2>4. Past(r, now[t])
        BY <2>1, <2>3 DEF FailuresPast
    <2>5. now[t] < now[t]
        <3>1. Working(t) /\ ~ Reported(t) /\ Reporting(t)
            BY <2>1 DEF Working, Reported, Reporting
        <3>2. QED
            BY <2>4, <3>1 DEF Past
    <2>6. QED
        BY <2>1, <2>5
<1>3. ASSUME FinishLease(t)
      PROVE  FALSE
    <2>1. pc[t] = "finish" /\ pc'[t] # "idle"
        BY <1>3 DEF FinishLease, At
    <2>2. HoldsLease(t)
        BY <2>1 DEF Holding, Working
    <2>3. Leave(t)
        BY <1>3, <2>2 DEF FinishLease
    <2>4. QED
        BY <2>1, <2>3 DEF Leave, TypeOK
<1>4. ASSUME StepFails(t)
      PROVE  FALSE
    <2>1. Spend("failureError")
        BY <1>4 DEF StepFails, Fail, Goto, TypeOK
    <2>2. budget["failureError"] \in Nat /\ budget["failureError"] <= 0
        BY DEF EvidenceInv, Spent, TypeOK, BudgetKinds
    <2>3. QED
        BY <2>1, <2>2 DEF Spend
<1>5. QED
    BY <1>1, <1>2, <1>3, <1>4

(* Every step keeps the failures of a journal in the past.                  *)
LEMMA FailuresPastStep ==
    ASSUME TypeOK, BatchInJournal, OutcomeKnown, LeaseInv, SoleInv, ErrorInArm, FailuresPast,
           NoFallback', [Next]_vars
    PROVE  FailuresPast'
<1> SUFFICES ASSUME NEW r \in Runs, NEW i \in 1..Len(journal'[r]),
                    journal'[r][i].tag = "supervisor-failed"
             PROVE  (Past(r, journal[r][i].n))'
    BY DEF FailuresPast
<1>1. CASE i \in 1..Len(journal[r]) /\ journal'[r][i] = journal[r][i]
    <2>1. PICK n \in Nat : n = journal[r][i].n
        <3>1. journal[r] \in Seq(Events)
            BY DEF TypeOK
        <3>2. journal[r][i] \in Events
            BY <1>1, <3>1
        <3>3. QED
            BY <3>2 DEF Events
    <2>2. Past(r, n)
        BY <1>1, <2>1 DEF FailuresPast
    <2>3. Past(r, n)'
        BY <2>2, PastKept
    <2>4. QED
        BY <1>1, <2>1, <2>3
<1>2. ASSUME NEW s \in Supervisors, held[s].run = r, FailAppend(s),
             AppendEvent(r, journal'[r][i]), journal'[r][i].n = now[s]
      PROVE  (Past(r, journal[r][i].n))'
    <2> DEFINE lost == Event("VerificationFailed", "supervisor-failed", now[s])
    <2>1. AppendEvent(r, lost)
        <3>1. AppendEvent(r, lost) \/ UNCHANGED journal
            BY <1>2 DEF FailAppend, TryAppend
        <3>2. journal' # journal
            BY <1>2 DEF AppendEvent, TypeOK
        <3>3. QED
            BY <3>1, <3>2
    <2>2. Past(held[s].run, now[s])'
        BY <1>2, <2>1, PastBegins
    <2>3. held'[s].run = r /\ now'[s] = now[s]
        <3>1. ContextKept
            BY <1>2, <2>1 DEF FailAppend, TryAppend, AppendEvent
        <3>2. QED
            BY <1>2, <3>1 DEF ContextKept
    <2>4. QED
        BY <1>2, <2>2, <2>3
<1>3. QED
    BY <1>1, <1>2, NewFailure

(* Where no tick is disturbed, each holds its lease to its end.             *)
LEMMA HoldingInvariance ==
    ASSUME Undisturbed
    PROVE  Spec => []Holding
<1>1. Init => Holding
    BY DEF Init, Holding, Working
<1>2. TypeInv /\ LeaseInv /\ SoleInv /\ Holding /\ [Next]_vars => Holding'
    BY HoldingStep DEF TypeInv
<1>3. QED
    BY <1>1, <1>2, TypeInvariance, LeaseInvariance, SoleInvariance, PTL DEF Spec

(* The failures of the failure handling itself: "failed" is written past    *)
(* the journal when the arm of a tick or of a turn start meets an error of  *)
(* its own.  The error of a start does no harm where starts are prompt and  *)
(* nobody cancels: the run is then at no end yet.                           *)
ArmsHold ==
    /\ Budget["failureError"] = 0
    /\ \/ Budget["startError"] = 0
       \/ "starts" \in Prompt /\ "RunCancelled" \notin ControlKinds

StartsFirst == Budget["startError"] # 0 => Starting

StickyInv == FailuresPast /\ NoFallback /\ ControlsOnly /\ StartsFirst

(* Every step keeps what keeps an end where it is.                          *)
LEMMA StickyStep ==
    ASSUME ArmsHold, TypeInv, LeaseInv, EvidenceInv, SoleInv, Holding, StickyInv, [Next]_vars
    PROVE  StickyInv'
<1> USE DEF TypeInv, StickyInv
<1>1. NoFallback'
    BY FallbackStep DEF ArmsHold
<1>2. FailuresPast'
    BY <1>1, FailuresPastStep DEF EvidenceInv
<1>3. ControlsOnly'
    BY ControlsStep DEF SoleInv
<1>4. StartsFirst'
    BY StartingStep DEF StartsFirst, ArmsHold
<1>5. QED
    BY <1>1, <1>2, <1>3, <1>4

(* So does every behaviour in which the failure handling does not fail.     *)
LEMMA StickyInvariance ==
    ASSUME Undisturbed, ArmsHold
    PROVE  Spec => []StickyInv
<1>1. Init => StickyInv
    <2> SUFFICES ASSUME Init PROVE StickyInv
        OBVIOUS
    <2>1. FailuresPast /\ NoFallback
        BY DEF Init, FailuresPast, NoFallback
    <2>2. ControlsOnly
        BY DEF Init, ControlsOnly, NoRequest
    <2>3. Starting
        BY DEF Init, Starting, Idle, Working, TerminalStates
    <2>4. QED
        BY <2>1, <2>2, <2>3 DEF StickyInv, StartsFirst
<1>2. TypeInv /\ LeaseInv /\ EvidenceInv /\ SoleInv /\ Holding /\ StickyInv /\ [Next]_vars
          => StickyInv'
    BY StickyStep
<1>3. QED
    BY <1>1, <1>2, TypeInvariance, LeaseInvariance, EvidenceInvariance, SoleInvariance,
       HoldingInvariance, PTL DEF Spec

(* An end is left only where "failed" is written over it.                   *)
LEMMA EndStays ==
    ASSUME ArmsHold, TypeInv, EvidenceInv, SoleInv, StickyInv, [Next]_vars, NEW r \in Runs,
           proj[r].state \in TerminalStates
    PROVE  proj'[r].state = proj[r].state
<1> SUFFICES ASSUME proj'[r].state # proj[r].state
             PROVE  FALSE
    OBVIOUS
<1>1. Overwrites(r)
    BY StateMoves DEF TypeInv, TerminalStates
<1>2. ASSUME StartFailureFails(r), starter[r].step = "failProject"
      PROVE  FALSE
    <2>1. budget["startError"] > 0
        BY <1>2 DEF StartFailureFails, Spend
    <2>2. /\ budget["startError"] \in Nat /\ Budget["startError"] \in Nat
          /\ budget["startError"] <= Budget["startError"]
        BY TurnSupervisorAssumption DEF EvidenceInv, Spent, TypeInv, TypeOK, BudgetKinds
    <2>3. Budget["startError"] # 0
        BY <2>1, <2>2
    <2>4. QED
        BY <1>2, <2>3 DEF StickyInv, StartsFirst, Starting
<1>3. ASSUME NEW t \in Supervisors, FallbackFinish(t)
      PROVE  FALSE
    BY <1>3 DEF FallbackFinish, At, StickyInv, NoFallback
<1>4. QED
    BY <1>1, <1>2, <1>3 DEF Overwrites

(* For every number of turns, ticks and clients, where ticks are on time,   *)
(* nobody pauses a run or rebuilds its projection and the failure handling  *)
(* itself does not fail: a run that is completed, failed or cancelled stays *)
(* so, whatever crashes, errors and late requests follow.                   *)
THEOREM TerminalStickyHolds ==
    ASSUME Undisturbed, ArmsHold
    PROVE  Spec => TerminalSticky
<1> DEFINE Stays == \A r \in Runs :
               proj[r].state \in TerminalStates => proj'[r].state = proj[r].state
<1>1. TypeInv /\ EvidenceInv /\ SoleInv /\ StickyInv /\ [Next]_vars => Stays
    BY EndStays
<1>2. TypeInv /\ EvidenceInv /\ SoleInv /\ StickyInv /\ [Next]_vars => [Stays]_vars
    BY <1>1
<1> HIDE DEF Stays
<1>3. Spec => [][Stays]_vars
    BY <1>2, TypeInvariance, EvidenceInvariance, SoleInvariance, StickyInvariance, PTL
       DEF Spec
<1>4. QED
    BY <1>3 DEF TerminalSticky, Stays

------------------------------------------------------------------------------
(* The message of a finished turn tells its end, where nothing goes wrong   *)

(* No mishap but errors of turn starts and of the failure handling, which   *)
(* then handles nothing: a thread that dies or a step that fails can leave  *)
(* the message behind the run, and so can a cancellation that overtakes an  *)
(* outcome or an objective child that fails after the root has succeeded.   *)
Uneventful ==
    /\ Undisturbed
    /\ "starts" \in Prompt
    /\ "RunCancelled" \notin ControlKinds
    /\ "objective" \notin Children
    /\ Budget["crash"] = 0 /\ Budget["error"] = 0

(* What the tag of an event says of its kind.                               *)
Failing == {"root-failed", "failed", "start-failed", "supervisor-failed"}
Telling(e) ==
    /\ e.tag = "completed" => e.kind = "RunCompleted"
    /\ e.tag \in Failing => e.kind = "VerificationFailed"
    /\ e.tag \notin Failing \cup {"completed"} => StateOf(e.kind) \notin TerminalStates
TagsTell == \A r \in Runs : \A i \in 1..Len(journal[r]) : Telling(journal[r][i])

(* A journal has an event of these tags.                                    *)
Has(r, tags) == \E i \in 1..Len(journal[r]) : journal[r][i].tag \in tags

(* An append adds one tag to one journal.                                   *)
LEMMA AppendHas ==
    ASSUME TypeOK, NEW r \in Runs, NEW e \in Events, AppendEvent(r, e), NEW q \in Runs, NEW tags
    PROVE  Has(q, tags)' <=> Has(q, tags) \/ (q = r /\ e.tag \in tags)
<1>1. ASSUME NEW i \in 1..Len(journal'[q]), journal'[q][i].tag \in tags
      PROVE  Has(q, tags) \/ (q = r /\ e.tag \in tags)
    BY <1>1, NewEvent DEF Has
<1>2. ASSUME NEW i \in 1..Len(journal[q]), journal[q][i].tag \in tags
      PROVE  Has(q, tags)'
    <2>1. CASE q # r
        BY <1>2, <2>1, AppendFacts DEF Has
    <2>2. CASE q = r
        <3>1. i \in 1..Len(journal'[q]) /\ journal'[q][i] = journal[q][i]
            BY <1>2, <2>2, AppendFacts
        <3>2. QED
            BY <1>2, <3>1 DEF Has
    <2>3. QED
        BY <2>1, <2>2
<1>3. ASSUME q = r, e.tag \in tags
      PROVE  Has(q, tags)'
    <2>1. Len(journal[r]) + 1 \in 1..Len(journal'[r]) /\ journal'[r][Len(journal[r]) + 1] = e
        BY AppendFacts
    <2>2. QED
        BY <1>3, <2>1 DEF Has
<1>4. QED
    BY <1>1, <1>2, <1>3 DEF Has

(* Threads write what they mean.                                            *)
LEMMA TellingStep ==
    ASSUME Uneventful, TypeOK, BatchInJournal, TagsTell, [Next]_vars
    PROVE  TagsTell'
<1>1. ASSUME NEW r \in Runs, NEW e \in Events, Writes(r, e)
      PROVE  Telling(e)
    <2>1. ControlKinds \subseteq {"RunResumed"}
        BY TurnSupervisorAssumption DEF Uneventful, Undisturbed
    <2>2. ChildFailure = {"RoleWorkerFailed"}
        BY DEF Uneventful, ChildFailure
    <2> USE DEF Telling, Failing, StateOf, TerminalStates, Event
    <2>3. /\ Telling(QueuedEvent) /\ Telling(StartedEvent) /\ Telling(LeasedEvent)
          /\ Telling(Event("VerificationFailed", "start-failed", 0))
          /\ Telling(Event("VerificationFailed", "root-failed", 0))
          /\ Telling(Event("RoleWorkerFailed", "child-failed", 0))
        BY DEF QueuedEvent, StartedEvent, LeasedEvent
    <2>4. \A s \in Supervisors :
              /\ Telling(FinalEvent(s))
              /\ Telling(Event("VerificationFailed", "supervisor-failed", now[s]))
        BY DEF FinalEvent
    <2>5. e.tag = "control" /\ e.kind \in ControlKinds => Telling(e)
        BY <2>1
    <2> HIDE DEF Telling, Event
    <2>6. QED
        BY <1>1, <2>2, <2>3, <2>4, <2>5 DEF Writes
<1>2. SUFFICES ASSUME NEW r \in Runs, NEW i \in 1..Len(journal'[r])
               PROVE  Telling(journal'[r][i])
    BY DEF TagsTell, Telling
<1>3. CASE UNCHANGED journal
    BY <1>3 DEF TagsTell
<1>4. ASSUME NEW q \in Runs, NEW e \in Events, AppendEvent(q, e), Writes(q, e)
      PROVE  Telling(journal'[r][i])
    BY <1>1, <1>4, NewEvent DEF TagsTell
<1>5. QED
    BY <1>3, <1>4, JournalMoves

(* Nobody cancels a run.                                                    *)
LEMMA NeverCancelled ==
    ASSUME TypeOK, TagsTell, NEW r \in Runs
    PROVE  ~ CancellationObserved(r)
BY DEF TagsTell, Telling, Failing, CancellationObserved, StateOf, TerminalStates

(* A batch whose ends are all the same, and that has one, ends so.          *)
LEMMA BatchEnds ==
    ASSUME NEW events \in Seq(Events), NEW current, current \notin TerminalStates, NEW end,
           \A i \in 1..Len(events) :
               StateOf(events[i].kind) \in TerminalStates => StateOf(events[i].kind) = end,
           \E i \in 1..Len(events) : StateOf(events[i].kind) \in TerminalStates
    PROVE  StateAfter(current, events) = end
<1> DEFINE terminal == Positions(events, TerminalStates)
           active == Positions(events, {"running", "paused"})
<1>1. terminal \in SUBSET Nat /\ terminal # {}
    BY DEF Positions
<1>2. Earliest(terminal) \in terminal
    BY <1>1, EarliestExists
<1>3. StateOf(events[Earliest(terminal)].kind) = end
    BY <1>2 DEF Positions
<1> HIDE DEF terminal, active
<1>4. StateAfter(current, events) =
        IF current \in TerminalStates THEN current
        ELSE IF terminal # {} THEN StateOf(events[Earliest(terminal)].kind)
        ELSE IF active # {} THEN StateOf(events[Latest(active)].kind)
        ELSE current
    BY Zenon DEF StateAfter, terminal, active
<1>5. QED
    BY <1>1, <1>3, <1>4

(* The steps of a tick before it writes that the run has started, that its  *)
(* root item is leased, what became of it, and the end of the run; and the  *)
(* steps after which the execution has ended one way.                       *)
Opening == {"observe", "recover", "recoverApply", "recovered", "heartbeat", "start",
            "startAppend"}
BeforeLease == Opening \cup {"bootstrap", "bootstrapAppend", "dispatch"}
BeforeRoot == BeforeLease \cup {"dispatching"}
BeforeEnd == BeforeRoot \cup {"adjudicate", "emit", "emitAppend"}
Executed == {"adjudicate", "emit", "emitAppend", "read", "apply", "message", "finish"}

(* A tick that executes turn r in one go: it finds in the journal what it   *)
(* has written itself and nothing else of a tick, the journal knows one end *)
(* of the run, and the read model and the message follow it.                *)
Unwritten(s, r) ==
    /\ pc[s] \in Opening => ~ Has(r, {"started"})
    /\ pc[s] \in BeforeLease => ~ Has(r, {"leased"})
    /\ pc[s] \in BeforeRoot => ~ Has(r, {"root-failed"})
    /\ pc[s] \in BeforeEnd => ~ Has(r, {"completed", "failed"})
    /\ pc[s] = "bootstrapAppend" => ~ Recorded(r, QueuedEvent)
    /\ ~ Has(r, {"start-failed", "supervisor-failed"})

OneWay(s, r) ==
    /\ pc[s] \in Executed => outcome[s] \in {"completed", "failed"}
    /\ pc[s] \in Executed /\ outcome[s] = "completed" => ~ Has(r, {"root-failed", "failed"})
    /\ pc[s] \in Executed /\ outcome[s] = "failed" =>
           ~ Has(r, {"completed"}) /\ Has(r, {"root-failed"})
    /\ pc[s] \in {"read", "apply"} /\ outcome[s] = "completed" => Has(r, {"completed"})
    /\ pc[s] = "apply" =>
           \E i \in 1..seen[s] : journal[r][i].tag \in {"root-failed", "completed"}

Follows(s, r) ==
    /\ proj[r].state = IF pc[s] \in {"message", "finish"} THEN outcome[s] ELSE "running"
    /\ pc[s] = "finish" => message[r] = MessageOf(outcome[s])

Straight(s, r) ==
    /\ pc[s] \in BeforeEnd \cup Executed
    /\ Unwritten(s, r) /\ OneWay(s, r) /\ Follows(s, r)

(* A turn nobody has executed yet has nothing of a tick in its journal; one *)
(* whose start fails has said so in its message; and one that is at its end *)
(* tells it there.                                                          *)
TickTags == {"started", "leased", "root-failed", "completed", "failed", "supervisor-failed"}
Fresh(r) ==
    Idle(r) /\ proj[r].state \notin TerminalStates =>
        /\ ~ Has(r, TickTags)
        /\ starter[r].step # "failProject" => ~ Has(r, {"start-failed"})
FailingStart(r) ==
    /\ starter[r].step \in {"failAppend", "failProject"} => message[r] = "failed"
    /\ starter[r].step = "failProject" => journal[r][starter[r].seq].tag = "start-failed"
Settled(r) ==
    Idle(r) /\ proj[r].state \in TerminalStates => message[r] = MessageOf(proj[r].state)

RunInv(r) == Fresh(r) /\ FailingStart(r) /\ Settled(r)
RunStraight(r) ==
    RunInv(r) /\ \A s \in Supervisors : Working(s) /\ held[s].run = r => Straight(s, r)
StraightInv == TagsTell /\ \A r \in Runs : RunStraight(r)

(* A step elsewhere: at most a control event in the journal of the run.     *)
Aside(r) ==
    /\ journal'[r] = journal[r]
       \/ \E e \in Events : e.tag = "control" /\ AppendEvent(r, e)
    /\ message'[r] = message[r]
    /\ starter'[r] = starter[r]
StateKept(r) ==
    \/ proj'[r].state = proj[r].state
    \/ Idle(r) /\ proj[r].state \notin TerminalStates /\ proj'[r].state \notin TerminalStates
TickKept(s) ==
    /\ pc'[s] = pc[s] /\ held'[s] = held[s] /\ outcome'[s] = outcome[s] /\ seen'[s] = seen[s]
Elsewhere(r) ==
    /\ Aside(r) /\ StateKept(r)
    /\ \A s \in Supervisors : Working(s) /\ held[s].run = r => TickKept(s)
    /\ \A s \in Supervisors : Working(s)' /\ held'[s].run = r => Working(s) /\ TickKept(s)

(* A step elsewhere adds no tag but that of a control event.                *)
LEMMA AsideHas ==
    ASSUME TypeOK, NEW r \in Runs, Aside(r), NEW tags, "control" \notin tags
    PROVE  Has(r, tags)' <=> Has(r, tags)
<1>1. CASE journal'[r] = journal[r]
    BY <1>1 DEF Has
<1>2. ASSUME NEW e \in Events, e.tag = "control", AppendEvent(r, e)
      PROVE  Has(r, tags)' <=> Has(r, tags)
    BY <1>2, AppendHas
<1>3. QED
    BY <1>1, <1>2 DEF Aside

(* What is in a journal stays there, at its place.                          *)
LEMMA AsideKeeps ==
    ASSUME TypeOK, NEW r \in Runs, Aside(r)
    PROVE  /\ \A i \in 1..Len(journal[r]) :
                  i \in 1..Len(journal'[r]) /\ journal'[r][i] = journal[r][i]
           /\ Recorded(r, QueuedEvent)' => Recorded(r, QueuedEvent)
<1>1. CASE journal'[r] = journal[r]
    BY <1>1 DEF Recorded
<1>2. ASSUME NEW e \in Events, e.tag = "control", AppendEvent(r, e)
      PROVE  /\ \A i \in 1..Len(journal[r]) :
                    i \in 1..Len(journal'[r]) /\ journal'[r][i] = journal[r][i]
             /\ Recorded(r, QueuedEvent)' => Recorded(r, QueuedEvent)
    <2>1. QueuedEvent \in Events /\ QueuedEvent.tag = "queued"
        BY FixedEventTypes DEF QueuedEvent, Event
    <2>2. QED
        BY <1>2, <2>1, AppendFacts, AppendRecords
<1>3. QED
    BY <1>1, <1>2 DEF Aside

(* Such a step leaves a tick on its way.                                    *)
LEMMA StraightKept ==
    ASSUME TypeOK, BatchInJournal, NEW r \in Runs, NEW s \in Supervisors,
           Working(s), held[s].run = r, Straight(s, r), Aside(r), TickKept(s),
           proj'[r].state = proj[r].state
    PROVE  Straight(s, r)'
<1>1. \A tags \in SUBSET (TickTags \cup {"start-failed"}) : Has(r, tags)' <=> Has(r, tags)
    BY AsideHas DEF TickTags
<1>2. Unwritten(s, r)'
    BY <1>1, AsideKeeps DEF Straight, Unwritten, TickKept, TickTags
<1>3. OneWay(s, r)'
    <2>1. seen[s] \in Nat /\ (pc[s] = "apply" => seen[s] <= Len(journal[r]))
        BY DEF BatchInJournal, TypeOK
    <2>2. ASSUME pc[s] = "apply"
          PROVE  \E i \in 1..seen'[s] : journal'[r][i].tag \in {"root-failed", "completed"}
        <3>1. PICK i \in 1..seen[s] : journal[r][i].tag \in {"root-failed", "completed"}
            BY <2>2 DEF Straight, OneWay
        <3>2. i \in 1..Len(journal[r])
            BY <2>1, <2>2, TypeOK DEF TypeOK
        <3>3. QED
            BY <3>1, <3>2, AsideKeeps DEF TickKept
    <2>3. QED
        BY <1>1, <2>2 DEF Straight, OneWay, TickKept, TickTags
<1>4. Follows(s, r)'
    BY DEF Straight, Follows, TickKept, Aside
<1>5. QED
    BY <1>2, <1>3, <1>4 DEF Straight, TickKept

(* And it leaves the run as it was, unless somebody stops working on it.    *)
LEMMA RunKept ==
    ASSUME TypeOK, BatchInJournal, NEW r \in Runs, RunInv(r), Aside(r), StateKept(r),
           Idle(r)' => Idle(r)
    PROVE  RunInv(r)'
<1>1. Has(r, TickTags)' <=> Has(r, TickTags)
    BY AsideHas DEF TickTags
<1>2. Has(r, {"start-failed"})' <=> Has(r, {"start-failed"})
    BY AsideHas
<1>3. Fresh(r)'
    BY <1>1, <1>2 DEF RunInv, Fresh, StateKept, Aside
<1>4. FailingStart(r)'
    <2>1. starter[r].step = "failProject" => starter[r].seq \in 1..Len(journal[r])
        BY DEF BatchInJournal
    <2>2. QED
        BY <2>1, AsideKeeps DEF RunInv, FailingStart, Aside
<1>5. Settled(r)'
    BY DEF RunInv, Settled, StateKept, Aside
<1>6. QED
    BY <1>3, <1>4, <1>5 DEF RunInv

(* A step elsewhere keeps everything about the run.                         *)
LEMMA ElsewhereKeeps ==
    ASSUME TypeOK, BatchInJournal, NEW r \in Runs, RunStraight(r), Elsewhere(r)
    PROVE  RunStraight(r)'
<1>1. RunInv(r)'
    <2>1. Idle(r)' => Idle(r)
        BY DEF Idle, TickKept, Elsewhere, Working
    <2>2. QED
        BY <2>1, RunKept DEF RunStraight, Elsewhere
<1>2. ASSUME NEW s \in Supervisors, Working(s)', held'[s].run = r
      PROVE  Straight(s, r)'
    <2>1. Working(s) /\ TickKept(s) /\ held[s].run = r
        BY <1>2 DEF TickKept, Elsewhere
    <2>2. proj'[r].state = proj[r].state
        BY <2>1 DEF StateKept, Idle, Elsewhere
    <2>3. QED
        BY <2>1, <2>2, StraightKept DEF RunStraight, Elsewhere
<1>3. QED
    BY <1>1, <1>2 DEF RunStraight

(* A step on one run.                                                       *)
LEMMA OnlyRun ==
    ASSUME TypeOK, BatchInJournal, StraightInv, TagsTell', NEW q \in Runs, RunStraight(q)',
           \A r \in Runs \ {q} : Elsewhere(r)
    PROVE  StraightInv'
<1>1. ASSUME NEW r \in Runs \ {q}
      PROVE  RunStraight(r)'
    BY <1>1, ElsewhereKeeps DEF StraightInv
<1>2. \A r \in Runs : RunStraight(r)'
    BY <1>1
<1>3. QED
    BY <1>2 DEF StraightInv

(* A step of one tick that works on.                                        *)
LEMMA TickAlone ==
    ASSUME TypeOK, BatchInJournal, SoleInv, Starting, StraightInv, TagsTell',
           NEW s \in Supervisors, NEW q \in Runs, held[s].run = q, Working(s),
           \A t \in Supervisors \ {s} : TickKept(t),
           UNCHANGED starter,
           \A r \in Runs \ {q} : /\ journal'[r] = journal[r] /\ message'[r] = message[r]
                                 /\ proj'[r] = proj[r],
           \/ Working(s)' /\ held'[s] = held[s] /\ Straight(s, q)'
           \/ ~ Working(s)' /\ Settled(q)' /\ proj'[q].state \in TerminalStates
    PROVE  StraightInv'
<1>1. ASSUME NEW r \in Runs \ {q}
      PROVE  Elsewhere(r)
    <2>1. Aside(r) /\ StateKept(r)
        BY DEF Aside, StateKept
    <2>2. ASSUME NEW t \in Supervisors, Working(t), held[t].run = r
          PROVE  TickKept(t)
        BY <2>2
    <2>3. ASSUME NEW t \in Supervisors, Working(t)', held'[t].run = r
          PROVE  Working(t) /\ TickKept(t)
        <3>1. t # s
            BY <2>3
        <3>2. QED
            BY <2>3, <3>1 DEF TickKept, Working
    <2>4. QED
        BY <2>1, <2>2, <2>3 DEF Elsewhere
<1>2. starter[q].step = "done"
    BY DEF Starting, Idle
<1>3. FailingStart(q)'
    BY <1>2 DEF FailingStart
<1>4. \A t \in Supervisors \ {s} : Working(t)' => held'[t].run # q
    BY DEF TickKept, SoleInv, OneSupervisorPerTurn, Working
<1>5. CASE Working(s)' /\ held'[s] = held[s] /\ Straight(s, q)'
    <2>1. ~ Idle(q)'
        BY <1>5 DEF Idle
    <2>2. RunInv(q)'
        BY <1>3, <2>1 DEF RunInv, Fresh, Settled
    <2>3. RunStraight(q)'
        BY <1>4, <1>5, <2>2 DEF RunStraight
    <2>4. QED
        BY <1>1, <2>3, OnlyRun
<1>6. CASE ~ Working(s)' /\ Settled(q)' /\ proj'[q].state \in TerminalStates
    <2>1. RunInv(q)'
        BY <1>3, <1>6 DEF RunInv, Fresh
    <2>2. RunStraight(q)'
        BY <1>4, <1>6, <2>1 DEF RunStraight
    <2>3. QED
        BY <1>1, <2>2, OnlyRun
<1>7. QED
    BY <1>5, <1>6

(* An id that is recorded has its tag in the journal.                       *)
LEMMA RecordedHas ==
    ASSUME NEW r, NEW e, NEW tags, e.tag \in tags
    PROVE  Recorded(r, e) => Has(r, tags)
BY DEF Recorded, Has

(* A tick that reads, or only moves on.                                     *)
LEMMA ReadsStraight ==
    ASSUME TypeOK, TagsTell, NEW s \in Supervisors, NEW q \in Runs, held[s].run = q,
           Straight(s, q), Holding, Working(s),
           ObserveRun(s) \/ ReadJournal(s) \/ AdoptCandidate(s) \/ StartHeartbeat(s)
    PROVE  /\ Straight(s, q)' /\ Working(s)' /\ held'[s] = held[s]
           /\ \A t \in Supervisors \ {s} : TickKept(t)
           /\ UNCHANGED <<starter, journal, message, proj>>
<1> USE DEF Straight, BeforeEnd, BeforeRoot, BeforeLease, Opening, Executed, At, Goto
<1>1. \A tags : UNCHANGED journal => (Has(q, tags)' <=> Has(q, tags))
    BY DEF Has
<1>2. UNCHANGED journal => (Recorded(q, QueuedEvent)' <=> Recorded(q, QueuedEvent))
    BY DEF Recorded
<1>3. CASE ObserveRun(s)
    <2>1. ~ CancellationObserved(q)
        BY NeverCancelled
    <2>2. /\ pc[s] = "observe" /\ pc'[s] \in {"recover", "heartbeat"}
          /\ \A t \in Supervisors \ {s} : pc'[t] = pc[t]
          /\ UNCHANGED <<held, outcome, seen, starter, journal, message, proj>>
        BY <1>3, <2>1 DEF ObserveRun, TypeOK
    <2>3. Straight(s, q)'
        BY <1>1, <1>2, <2>2 DEF Unwritten, OneWay, Follows
    <2>4. QED
        BY <2>2, <2>3 DEF TickKept, Working
<1>4. CASE ReadJournal(s)
    <2>1. /\ \/ pc[s] = "recover" /\ pc'[s] = "recoverApply"
             \/ pc[s] = "read" /\ pc'[s] = "apply"
          /\ seen'[s] = Len(journal[q])
          /\ \A t \in Supervisors \ {s} : pc'[t] = pc[t] /\ seen'[t] = seen[t]
          /\ UNCHANGED <<held, outcome, starter, journal, message, proj>>
        BY <1>4 DEF ReadJournal, TypeOK
    <2>2. ASSUME pc[s] = "read"
          PROVE  Has(q, {"root-failed", "completed"})
        BY <2>2 DEF OneWay, Has
    <2>3. Straight(s, q)'
        BY <1>1, <1>2, <2>1, <2>2 DEF Unwritten, OneWay, Follows, Has
    <2>4. QED
        BY <2>1, <2>3 DEF TickKept, Working
<1>5. CASE AdoptCandidate(s)
    <2>1. /\ pc[s] = "recovered" /\ pc'[s] = "heartbeat"
          /\ \A t \in Supervisors \ {s} : pc'[t] = pc[t]
          /\ UNCHANGED <<held, outcome, seen, starter, journal, message, proj>>
        BY <1>5 DEF AdoptCandidate, TypeOK, Follows
    <2>2. Straight(s, q)'
        BY <1>1, <1>2, <2>1 DEF Unwritten, OneWay, Follows
    <2>3. QED
        BY <2>1, <2>2 DEF TickKept, Working
<1>6. CASE StartHeartbeat(s)
    <2>1. Renewable(s)
        BY <1>6 DEF StartHeartbeat, Renewable, Holding, Follows
    <2>2. /\ pc[s] = "heartbeat" /\ pc'[s] = "start"
          /\ \A t \in Supervisors \ {s} : pc'[t] = pc[t]
          /\ UNCHANGED <<held, outcome, seen, starter, journal, message, proj>>
        BY <1>6, <2>1 DEF StartHeartbeat, TypeOK
    <2>3. Straight(s, q)'
        BY <1>1, <1>2, <2>2 DEF Unwritten, OneWay, Follows
    <2>4. QED
        BY <2>2, <2>3 DEF TickKept, Working
<1>7. QED
    BY <1>3, <1>4, <1>5, <1>6

(* A tick that writes an event finds no other of its id.                    *)
LEMMA WritesStraight ==
    ASSUME TypeOK, TagsTell, NEW s \in Supervisors, NEW q \in Runs, held[s].run = q,
           Straight(s, q), Working(s),
           EmitRunStarted(s) \/ Dispatch(s) \/ EmitRunFinished(s)
    PROVE  /\ Straight(s, q)' /\ Working(s)' /\ held'[s] = held[s]
           /\ \A t \in Supervisors \ {s} : TickKept(t)
           /\ UNCHANGED <<starter, message, proj>>
           /\ \A r \in Runs \ {q} : journal'[r] = journal[r]
<1> DEFINE Moved == /\ \A t \in Supervisors \ {s} : pc'[t] = pc[t]
                    /\ UNCHANGED <<held, outcome, seen, starter, message, proj>>
           Goal == /\ Straight(s, q)' /\ Working(s)' /\ held'[s] = held[s]
                   /\ \A t \in Supervisors \ {s} : TickKept(t)
                   /\ UNCHANGED <<starter, message, proj>>
                   /\ \A r \in Runs \ {q} : journal'[r] = journal[r]
<1> USE DEF Straight, BeforeEnd, BeforeRoot, BeforeLease, Opening, Executed, At, Goto
<1>1. /\ {StartedEvent, QueuedEvent, LeasedEvent, FinalEvent(s)} \subseteq Events
      /\ StartedEvent.tag = "started" /\ QueuedEvent.tag = "queued"
      /\ LeasedEvent.tag = "leased"
      /\ FinalEvent(s).tag = IF outcome[s] = "completed" THEN "completed" ELSE "failed"
    BY FixedEventTypes DEF StartedEvent, QueuedEvent, LeasedEvent, FinalEvent, Event
<1>2. ASSUME NEW e, NEW step, NEW present \in TickSteps, NEW absent \in TickSteps,
             Lookup(s, step, e, present, absent)
      PROVE  /\ pc[s] = step /\ Moved /\ UNCHANGED journal
             /\ \/ pc'[s] = present /\ Recorded(q, e)
                \/ pc'[s] = absent /\ ~ Recorded(q, e)
    BY <1>2 DEF Lookup, ContextKept, TypeOK
<1>3. ASSUME NEW e \in Events, NEW step, NEW next \in TickSteps, TryAppend(s, step, e, next),
             pc[s] = step => ~ Recorded(q, e)
      PROVE  /\ pc[s] = step /\ Moved /\ pc'[s] = next
             /\ \A tags : Has(q, tags)' <=> Has(q, tags) \/ e.tag \in tags
             /\ \A r \in Runs \ {q} : journal'[r] = journal[r]
    <2>1. pc[s] = step /\ AppendEvent(q, e) /\ Goto(s, next) /\ ContextKept
          /\ UNCHANGED <<starter, message, proj>>
        BY <1>3 DEF TryAppend
    <2>2. \A tags : Has(q, tags)' <=> Has(q, tags) \/ e.tag \in tags
        BY <2>1, AppendHas
    <2>3. QED
        BY <2>1, <2>2, AppendFacts DEF ContextKept, TypeOK
<1>4. UNCHANGED journal => /\ \A tags : Has(q, tags)' <=> Has(q, tags)
                           /\ Recorded(q, QueuedEvent)' <=> Recorded(q, QueuedEvent)
    BY DEF Has, Recorded
<1>5. {"bootstrap", "startAppend", "dispatch", "bootstrapAppend", "dispatching", "read",
       "emitAppend"} \subseteq TickSteps
    BY DEF TickSteps
<1>6. CASE Lookup(s, "start", StartedEvent, "bootstrap", "startAppend")
    <2>1. /\ pc[s] = "start" /\ Moved /\ UNCHANGED journal
          /\ pc'[s] \in {"bootstrap", "startAppend"}
        BY <1>2, <1>5, <1>6
    <2>2. Straight(s, q)'
        BY <1>4, <2>1 DEF Unwritten, OneWay, Follows
    <2>3. QED
        BY <2>1, <2>2 DEF TickKept, Working
<1>7. CASE TryAppend(s, "startAppend", StartedEvent, "bootstrap")
    <2>1. pc[s] = "startAppend" => ~ Recorded(q, StartedEvent)
        BY <1>1, RecordedHas DEF Unwritten
    <2>2. /\ pc[s] = "startAppend" /\ Moved /\ pc'[s] = "bootstrap"
          /\ \A tags : Has(q, tags)' <=> Has(q, tags) \/ "started" \in tags
          /\ \A r \in Runs \ {q} : journal'[r] = journal[r]
        BY <1>1, <1>3, <1>5, <1>7, <2>1
    <2>3. Straight(s, q)'
        BY <2>2 DEF Unwritten, OneWay, Follows
    <2>4. QED
        BY <2>2, <2>3 DEF TickKept, Working
<1>8. CASE Lookup(s, "bootstrap", QueuedEvent, "dispatch", "bootstrapAppend")
    <2>1. /\ pc[s] = "bootstrap" /\ Moved /\ UNCHANGED journal
          /\ \/ pc'[s] = "dispatch"
             \/ pc'[s] = "bootstrapAppend" /\ ~ Recorded(q, QueuedEvent)
        BY <1>2, <1>5, <1>8
    <2>2. Straight(s, q)'
        BY <1>4, <2>1 DEF Unwritten, OneWay, Follows
    <2>3. QED
        BY <2>1, <2>2 DEF TickKept, Working
<1>9. CASE TryAppend(s, "bootstrapAppend", QueuedEvent, "dispatch")
    <2>1. pc[s] = "bootstrapAppend" => ~ Recorded(q, QueuedEvent)
        BY DEF Unwritten
    <2>2. /\ pc[s] = "bootstrapAppend" /\ Moved /\ pc'[s] = "dispatch"
          /\ \A tags : Has(q, tags)' <=> Has(q, tags) \/ "queued" \in tags
          /\ \A r \in Runs \ {q} : journal'[r] = journal[r]
        BY <1>1, <1>3, <1>5, <1>9, <2>1
    <2>3. Straight(s, q)'
        BY <2>2 DEF Unwritten, OneWay, Follows
    <2>4. QED
        BY <2>2, <2>3 DEF TickKept, Working
<1>10. CASE TryAppend(s, "dispatch", LeasedEvent, "dispatching")
    <2>1. pc[s] = "dispatch" => ~ Recorded(q, LeasedEvent)
        BY <1>1, RecordedHas DEF Unwritten
    <2>2. /\ pc[s] = "dispatch" /\ Moved /\ pc'[s] = "dispatching"
          /\ \A tags : Has(q, tags)' <=> Has(q, tags) \/ "leased" \in tags
          /\ \A r \in Runs \ {q} : journal'[r] = journal[r]
        BY <1>1, <1>3, <1>5, <1>10, <2>1
    <2>3. Straight(s, q)'
        BY <2>2 DEF Unwritten, OneWay, Follows
    <2>4. QED
        BY <2>2, <2>3 DEF TickKept, Working
<1>11. CASE Lookup(s, "emit", FinalEvent(s), "read", "emitAppend")
    <2>1. pc[s] = "emit" => ~ Recorded(q, FinalEvent(s))
        BY <1>1, RecordedHas DEF Unwritten
    <2>2. /\ pc[s] = "emit" /\ Moved /\ UNCHANGED journal /\ pc'[s] = "emitAppend"
        BY <1>2, <1>5, <1>11, <2>1
    <2>3. Straight(s, q)'
        BY <1>4, <2>2 DEF Unwritten, OneWay, Follows
    <2>4. QED
        BY <2>2, <2>3 DEF TickKept, Working
<1>12. CASE TryAppend(s, "emitAppend", FinalEvent(s), "read")
    <2> DEFINE tag == IF outcome[s] = "completed" THEN "completed" ELSE "failed"
    <2>1. pc[s] = "emitAppend" => ~ Recorded(q, FinalEvent(s))
        BY <1>1, RecordedHas DEF Unwritten
    <2>2. /\ pc[s] = "emitAppend" /\ Moved /\ pc'[s] = "read"
          /\ \A tags : Has(q, tags)' <=> Has(q, tags) \/ FinalEvent(s).tag \in tags
          /\ \A r \in Runs \ {q} : journal'[r] = journal[r]
        BY <1>1, <1>3, <1>5, <1>12, <2>1
    <2>3. \A tags : Has(q, tags)' <=> Has(q, tags) \/ tag \in tags
        BY <1>1, <2>2
    <2>4. Straight(s, q)'
        BY <2>2, <2>3 DEF Unwritten, OneWay, Follows
    <2>5. QED
        BY <2>2, <2>4 DEF TickKept, Working
<1>13. QED
    BY <1>6, <1>7, <1>8, <1>9, <1>10, <1>11, <1>12 DEF EmitRunStarted, Dispatch, EmitRunFinished

(* A tick that executes its turn records the end it has come to.            *)
LEMMA ExecutionStraight ==
    ASSUME Uneventful, TypeOK, TagsTell, NEW s \in Supervisors, NEW q \in Runs,
           held[s].run = q, Straight(s, q), Working(s), ExecuteTurn(s) \/ Adjudicate(s)
    PROVE  /\ Straight(s, q)' /\ Working(s)' /\ held'[s] = held[s]
           /\ \A t \in Supervisors \ {s} : TickKept(t)
           /\ UNCHANGED <<starter, message, proj>>
           /\ \A r \in Runs \ {q} : journal'[r] = journal[r]
<1> USE DEF Straight, BeforeEnd, BeforeRoot, BeforeLease, Opening, Executed, At, Goto
<1>1. UNCHANGED journal => \A tags : Has(q, tags)' <=> Has(q, tags)
    BY DEF Has
<1>2. ASSUME NEW e \in Events, AppendEvent(q, e)
      PROVE  /\ \A tags : Has(q, tags)' <=> Has(q, tags) \/ e.tag \in tags
             /\ \A r \in Runs \ {q} : journal'[r] = journal[r]
    <2>1. \A tags : Has(q, tags)' <=> Has(q, tags) \/ e.tag \in tags
        BY <1>2, AppendHas
    <2>2. QED
        BY <1>2, <2>1, AppendFacts
<1>3. CASE ExecuteTurn(s)
    <2> DEFINE root == Event("VerificationFailed", "root-failed", 0)
               child == Event("RoleWorkerFailed", "child-failed", 0)
    <2>1. /\ root \in Events /\ child \in Events
          /\ root.tag = "root-failed" /\ child.tag = "child-failed"
        <3>1. 0 \in Nat
            OBVIOUS
        <3>2. QED
            BY <3>1, FixedEventTypes DEF Event
    <2>2. /\ \/ outcome'[s] = "completed" /\ (UNCHANGED journal \/ AppendEvent(q, child))
             \/ outcome'[s] = "failed" /\ AppendEvent(q, root)
          /\ \A t \in Supervisors \ {s} : outcome'[t] = outcome[t]
        BY <1>3 DEF ExecuteTurn, Uneventful, TypeOK
    <2>3. /\ pc[s] = "dispatching" /\ pc'[s] = "adjudicate"
          /\ \A t \in Supervisors \ {s} : pc'[t] = pc[t]
          /\ UNCHANGED <<held, seen, starter, message, proj>>
        BY <1>3 DEF ExecuteTurn, TypeOK
    <2> HIDE DEF root, child
    <2>4. /\ ~ Has(q, {"root-failed", "failed"}) /\ ~ Has(q, {"completed"})
          /\ ~ Has(q, {"completed", "failed"})
          /\ ~ Has(q, {"start-failed", "supervisor-failed"})
        BY <2>3 DEF Unwritten, Has
    <2>5. CASE outcome'[s] = "completed" /\ UNCHANGED journal
        <3>1. Straight(s, q)'
            BY <1>1, <2>3, <2>5, <2>4 DEF Unwritten, OneWay, Follows
        <3>2. QED
            BY <2>2, <2>3, <2>5, <3>1 DEF TickKept, Working
    <2>6. CASE outcome'[s] = "completed" /\ AppendEvent(q, child)
        <3>1. /\ \A tags : Has(q, tags)' <=> Has(q, tags) \/ "child-failed" \in tags
              /\ \A r \in Runs \ {q} : journal'[r] = journal[r]
            BY <1>2, <2>1, <2>6
        <3>2. Straight(s, q)'
            BY <2>3, <2>6, <2>4, <3>1 DEF Unwritten, OneWay, Follows
        <3>3. QED
            BY <2>2, <2>3, <3>1, <3>2 DEF TickKept, Working
    <2>7. CASE outcome'[s] = "failed" /\ AppendEvent(q, root)
        <3>1. /\ \A tags : Has(q, tags)' <=> Has(q, tags) \/ "root-failed" \in tags
              /\ \A r \in Runs \ {q} : journal'[r] = journal[r]
            BY <1>2, <2>1, <2>7
        <3>2. Straight(s, q)'
            BY <2>3, <2>7, <2>4, <3>1 DEF Unwritten, OneWay, Follows
        <3>3. QED
            BY <2>2, <2>3, <3>1, <3>2 DEF TickKept, Working
    <2>8. QED
        BY <2>2, <2>5, <2>6, <2>7
<1>4. CASE Adjudicate(s)
    <2>1. ~ CancellationObserved(q)
        BY NeverCancelled
    <2>2. /\ pc[s] = "adjudicate" /\ pc'[s] = "emit"
          /\ \A t \in Supervisors \ {s} : pc'[t] = pc[t]
          /\ UNCHANGED <<held, outcome, seen, starter, journal, message, proj>>
        BY <1>4, <2>1 DEF Adjudicate, TypeOK
    <2>3. Straight(s, q)'
        BY <1>1, <2>2 DEF Unwritten, OneWay, Follows
    <2>4. QED
        BY <2>2, <2>3 DEF TickKept, Working
<1>5. QED
    BY <1>3, <1>4

(* What a batch of a straight journal ends, the outcome of the tick is.     *)
LEMMA BatchTellsOutcome ==
    ASSUME TypeOK, TagsTell, NEW s \in Supervisors, NEW q \in Runs, Straight(s, q),
           pc[s] = "apply", NEW hi \in Nat, hi = seen[s], hi <= Len(journal[q]),
           NEW current, current \notin TerminalStates
    PROVE  /\ 1 <= hi
           /\ StateAfter(current, SubSeq(journal[q], 1, hi)) = outcome[s]
<1> DEFINE batch == SubSeq(journal[q], 1, hi)
<1>1. PICK k \in 1..hi : journal[q][k].tag \in {"root-failed", "completed"}
    BY DEF Straight, OneWay
<1>2. journal[q] \in Seq(Events) /\ Len(journal[q]) \in Nat
    BY DEF TypeOK
<1>3. batch \in Seq(Events) /\ Len(batch) = hi
    BY <1>2
<1>4. \A i \in 1..hi : batch[i] = journal[q][i] /\ i \in 1..Len(journal[q])
    BY <1>2, <1>3
<1>5. ASSUME NEW i \in 1..Len(journal[q]), StateOf(journal[q][i].kind) \in TerminalStates
      PROVE  StateOf(journal[q][i].kind) = outcome[s]
    <2>1. Telling(journal[q][i])
        BY DEF TagsTell
    <2>2. /\ outcome[s] \in {"completed", "failed"}
          /\ outcome[s] = "completed" => ~ Has(q, {"root-failed", "failed"})
          /\ outcome[s] = "failed" => ~ Has(q, {"completed"})
          /\ ~ Has(q, {"start-failed", "supervisor-failed"})
        BY DEF Straight, OneWay, Unwritten, Executed
    <2>3. journal[q][i].tag \in Failing \cup {"completed"}
        BY <1>5, <2>1 DEF Telling
    <2>4. outcome[s] = "completed" => journal[q][i].tag = "completed"
        BY <2>2, <2>3 DEF Failing, Has
    <2>5. outcome[s] = "failed" => journal[q][i].tag \in Failing
        BY <2>2, <2>3 DEF Has
    <2>6. QED
        BY <2>1, <2>2, <2>4, <2>5 DEF Telling, Failing, StateOf
<1>6. StateOf(journal[q][k].kind) \in TerminalStates
    <2>1. Telling(journal[q][k])
        BY <1>4 DEF TagsTell
    <2>2. QED
        BY <1>1, <2>1 DEF Telling, Failing, StateOf, TerminalStates
<1> HIDE DEF batch
<1>7. \A i \in 1..Len(batch) :
          StateOf(batch[i].kind) \in TerminalStates => StateOf(batch[i].kind) = outcome[s]
    BY <1>3, <1>4, <1>5
<1>8. \E i \in 1..Len(batch) : StateOf(batch[i].kind) \in TerminalStates
    BY <1>3, <1>4, <1>6
<1>9. StateAfter(current, batch) = outcome[s]
    BY <1>3, <1>7, <1>8, BatchEnds
<1>10. QED
    BY <1>9 DEF batch

(* Before that, the batch ends nothing.                                     *)
LEMMA BatchTellsNothing ==
    ASSUME TypeOK, TagsTell, NEW s \in Supervisors, NEW q \in Runs, Straight(s, q),
           pc[s] = "recoverApply", NEW hi \in Nat, hi <= Len(journal[q]),
           NEW current, current \notin TerminalStates
    PROVE  StateAfter(current, SubSeq(journal[q], 1, hi)) \notin TerminalStates
<1> DEFINE batch == SubSeq(journal[q], 1, hi)
<1>1. journal[q] \in Seq(Events) /\ Len(journal[q]) \in Nat
    BY DEF TypeOK
<1>2. batch \in Seq(Events) /\ Len(batch) = hi
    BY <1>1
<1>3. \A i \in 1..hi : batch[i] = journal[q][i] /\ i \in 1..Len(journal[q])
    BY <1>1, <1>2
<1>4. ASSUME NEW i \in 1..Len(journal[q])
      PROVE  StateOf(journal[q][i].kind) \notin TerminalStates
    <2>1. Telling(journal[q][i])
        BY DEF TagsTell
    <2>2. /\ ~ Has(q, {"root-failed"}) /\ ~ Has(q, {"completed", "failed"})
          /\ ~ Has(q, {"start-failed", "supervisor-failed"})
        BY DEF Straight, Unwritten, BeforeEnd, BeforeRoot, BeforeLease, Opening
    <2>3. journal[q][i].tag \notin Failing \cup {"completed"}
        BY <2>2 DEF Failing, Has
    <2>4. QED
        BY <2>1, <2>3 DEF Telling
<1> HIDE DEF batch
<1>5. \A i \in 1..Len(batch) : StateOf(batch[i].kind) \notin TerminalStates
    BY <1>2, <1>3, <1>4
<1>6. StateAfter(current, batch) \notin TerminalStates
    BY <1>2, <1>5, QuietBatch
<1>7. QED
    BY <1>6 DEF batch

(* The read model follows the outcome.                                      *)
LEMMA ApplyStraight ==
    ASSUME TypeOK, BatchInJournal, SoleInv, TagsTell, NEW s \in Supervisors, NEW q \in Runs,
           held[s].run = q, Straight(s, q), Working(s), ApplyJournal(s)
    PROVE  /\ Straight(s, q)' /\ Working(s)' /\ held'[s] = held[s]
           /\ \A t \in Supervisors \ {s} : TickKept(t)
           /\ UNCHANGED <<starter, journal, message>>
           /\ \A r \in Runs \ {q} : proj'[r] = proj[r]
<1> USE DEF Straight, BeforeEnd, BeforeRoot, BeforeLease, Opening, Executed, At, Goto
<1>1. /\ \A tags : Has(q, tags)' <=> Has(q, tags)
      /\ Recorded(q, QueuedEvent)' <=> Recorded(q, QueuedEvent)
    BY DEF ApplyJournal, Has, Recorded
<1>2. PICK hi \in Nat : hi = seen[s] /\ hi <= Len(journal[q])
    BY DEF ApplyJournal, BatchInJournal, TypeOK
<1>3. 1 \in Nat \ {0} /\ Project(q, 1, hi, FALSE)
    <2>1. Project(q, 1, hi, FALSE)
        BY <1>2 DEF ApplyJournal
    <2>2. 1 \in Nat \ {0}
        OBVIOUS
    <2>3. QED
        BY <2>1, <2>2
<1>4. /\ \A r \in Runs \ {q} : proj'[r] = proj[r]
      /\ proj'[q].state \in {proj[q].state, "running"} \cup TerminalStates
      /\ 1 <= hi => proj'[q].state = StateAfter(proj[q].state, SubSeq(journal[q], 1, hi))
    BY <1>2, <1>3, ProjectMoves DEF SoleInv
<1>5. pc[s] \in {"recoverApply", "apply"} /\ proj[q].state = "running"
    BY DEF ApplyJournal, Follows
<1>6. /\ UNCHANGED <<held, outcome, seen, starter, journal, message>>
      /\ \A t \in Supervisors \ {s} : pc'[t] = pc[t]
      /\ pc[s] = "recoverApply" => pc'[s] = "recovered"
      /\ pc[s] = "apply" => pc'[s] = "message"
    BY DEF ApplyJournal, ContextKept, TypeOK, OneWay
<1>7. "running" \notin TerminalStates
    BY DEF TerminalStates
<1>8. CASE pc[s] = "recoverApply"
    <2>1. 1 <= hi => proj'[q].state \notin TerminalStates
        BY <1>2, <1>4, <1>5, <1>7, <1>8, BatchTellsNothing
    <2>2. ~ (1 <= hi) => proj'[q].state = "running"
        BY <1>2, <1>3, <1>5 DEF Project
    <2>3. proj'[q].state = "running"
        BY <1>4, <1>5, <2>1, <2>2
    <2>4. Straight(s, q)'
        BY <1>1, <1>6, <1>8, <2>3 DEF Unwritten, OneWay, Follows
    <2>5. QED
        BY <1>4, <1>6, <1>8, <2>4 DEF TickKept, Working
<1>9. CASE pc[s] = "apply"
    <2>1. proj'[q].state = outcome[s]
        BY <1>2, <1>4, <1>5, <1>7, <1>9, BatchTellsOutcome
    <2>2. Straight(s, q)'
        BY <1>1, <1>6, <1>9, <2>1 DEF Unwritten, OneWay, Follows
    <2>3. QED
        BY <1>4, <1>6, <1>9, <2>2 DEF TickKept, Working
<1>10. QED
    BY <1>5, <1>8, <1>9

(* The message follows the read model, and then the tick leaves.            *)
LEMMA MessageStraight ==
    ASSUME TypeOK, NEW s \in Supervisors, NEW q \in Runs,
           held[s].run = q, Straight(s, q), Working(s), FinishMessage(s)
    PROVE  /\ Straight(s, q)' /\ Working(s)' /\ held'[s] = held[s]
           /\ \A t \in Supervisors \ {s} : TickKept(t)
           /\ UNCHANGED <<starter, journal, proj>>
           /\ \A r \in Runs \ {q} : message'[r] = message[r]
<1> USE DEF Straight, BeforeEnd, BeforeRoot, BeforeLease, Opening, Executed, At, Goto
<1>1. /\ \A tags : Has(q, tags)' <=> Has(q, tags)
      /\ Recorded(q, QueuedEvent)' <=> Recorded(q, QueuedEvent)
    BY DEF FinishMessage, Has, Recorded
<1>2. /\ pc[s] = "message" /\ pc'[s] = "finish"
      /\ UNCHANGED <<held, outcome, seen, starter, journal, proj>>
      /\ \A t \in Supervisors \ {s} : pc'[t] = pc[t]
      /\ \A r \in Runs \ {q} : message'[r] = message[r]
    BY DEF FinishMessage, SetMessage, ContextKept, TypeOK
<1>3. message'[q] = MessageOf(outcome[s])
    BY DEF FinishMessage, SetMessage, MessageOf, TypeOK
<1>4. Straight(s, q)'
    BY <1>1, <1>2, <1>3 DEF Unwritten, OneWay, Follows
<1>5. QED
    BY <1>2, <1>4 DEF TickKept, Working

(* A tick that leaves its turn leaves message and read model in agreement.  *)
LEMMA LeaveSettled ==
    ASSUME TypeOK, Holding, NEW s \in Supervisors, NEW q \in Runs,
           held[s].run = q, Straight(s, q), Working(s), FinishLease(s)
    PROVE  /\ ~ Working(s)' /\ Settled(q)' /\ proj'[q].state \in TerminalStates
           /\ \A t \in Supervisors \ {s} : TickKept(t)
           /\ UNCHANGED <<starter, journal, message, proj>>
<1>1. HoldsLease(s)
    BY DEF Holding
<1>2. Leave(s) /\ UNCHANGED <<starter, journal, message, proj>> /\ pc[s] = "finish"
    BY <1>1 DEF FinishLease, At
<1>3. pc'[s] = "idle" /\ \A t \in Supervisors \ {s} : TickKept(t)
    BY <1>2 DEF Leave, TickKept, TypeOK
<1>4. /\ proj[q].state = outcome[s] /\ message[q] = MessageOf(outcome[s])
      /\ outcome[s] \in {"completed", "failed"}
    BY <1>2 DEF Straight, Follows, OneWay, Executed
<1>5. QED
    BY <1>2, <1>3, <1>4 DEF Settled, Working, TerminalStates

(* Every step of an execution stays on its way.                             *)
LEMMA ExecuteStraight ==
    ASSUME Uneventful, TypeOK, BatchInJournal, SoleInv, Holding, Starting, StraightInv,
           TagsTell', NEW s \in Supervisors, Execute(s)
    PROVE  StraightInv'
<1>1. Working(s)
    BY DEF Execute, ObserveRun, SkipMessage, ReadJournal, ApplyJournal, AdoptCandidate,
           StartHeartbeat, EmitRunStarted, Dispatch, ExecuteTurn, Adjudicate,
           EmitRunFinished, FinishMessage, FinishLease, FailMessage, FailAppend,
           FallbackFinish, Lookup, TryAppend, At, Working
<1>2. PICK q \in Runs : held[s].run = q
    BY HeldFields DEF TypeOK
<1>3. TagsTell /\ Straight(s, q)
    BY <1>1, <1>2 DEF StraightInv, RunStraight
<1>4. ~ (SkipMessage(s) \/ FailMessage(s) \/ FailAppend(s) \/ FallbackFinish(s))
    BY <1>3 DEF SkipMessage, FailMessage, FailAppend, FallbackFinish, TryAppend, At,
                Straight, BeforeEnd, BeforeRoot, BeforeLease, Opening, Executed
<1>5. CASE ObserveRun(s) \/ ReadJournal(s) \/ AdoptCandidate(s) \/ StartHeartbeat(s)
    BY <1>1, <1>2, <1>3, <1>5, ReadsStraight, TickAlone
<1>6. CASE EmitRunStarted(s) \/ Dispatch(s) \/ EmitRunFinished(s)
    BY <1>1, <1>2, <1>3, <1>6, WritesStraight, TickAlone
<1>7. CASE ExecuteTurn(s) \/ Adjudicate(s)
    BY <1>1, <1>2, <1>3, <1>7, ExecutionStraight, TickAlone
<1>8. CASE ApplyJournal(s)
    BY <1>1, <1>2, <1>3, <1>8, ApplyStraight, TickAlone
<1>9. CASE FinishMessage(s)
    BY <1>1, <1>2, <1>3, <1>9, MessageStraight, TickAlone
<1>10. CASE FinishLease(s)
    BY <1>1, <1>2, <1>3, <1>10, LeaveSettled, TickAlone
<1>11. QED
    BY <1>4, <1>5, <1>6, <1>7, <1>8, <1>9, <1>10 DEF Execute

(* A step that is elsewhere for every run keeps them all.                   *)
LEMMA AllElsewhere ==
    ASSUME TypeOK, BatchInJournal, StraightInv, TagsTell', \A r \in Runs : Elsewhere(r)
    PROVE  StraightInv'
<1>1. \A r \in Runs : RunStraight(r)'
    BY ElsewhereKeeps DEF StraightInv
<1>2. QED
    BY <1>1 DEF StraightInv

(* A step of a turn start.                                                  *)
LEMMA StarterAlone ==
    ASSUME TypeOK, BatchInJournal, Starting, StraightInv, TagsTell', NEW q \in Runs,
           starter[q].step # "done", UNCHANGED tickVars, RunInv(q)',
           \A r \in Runs \ {q} : /\ journal'[r] = journal[r] /\ message'[r] = message[r]
                                 /\ starter'[r] = starter[r] /\ proj'[r] = proj[r]
    PROVE  StraightInv'
<1>1. ASSUME NEW r \in Runs \ {q}
      PROVE  Elsewhere(r)
    BY DEF Elsewhere, Aside, StateKept, TickKept, Working
<1>2. Idle(q)'
    BY DEF Starting, Idle, Working
<1>3. RunStraight(q)'
    BY <1>2 DEF RunStraight, Idle
<1>4. QED
    BY <1>1, <1>3, OnlyRun

(* A turn start accepts the turn, queues its root item, or fails and says   *)
(* so.                                                                      *)
LEMMA StartStraight ==
    ASSUME TypeOK, BatchInJournal, SoleInv, Starting, StraightInv, TagsTell', NEW q \in Runs,
           TurnStart(q) \/ AcceptTurn(q) \/ StartFails(q) \/ StartFailureFails(q)
    PROVE  StraightInv'
<1> DEFINE Frame == /\ UNCHANGED tickVars
                    /\ \A r \in Runs \ {q} :
                           /\ journal'[r] = journal[r] /\ message'[r] = message[r]
                           /\ starter'[r] = starter[r] /\ proj'[r] = proj[r]
           step == starter'[q].step
<1>1. starter[q].step # "done"
    BY DEF TurnStart, AcceptTurn, StartFails, StartFailureFails, BootstrapTurn,
           BootstrapAppend, StartFailMessage, StartFailAppend, StartFailProject
<1>2. /\ Idle(q) /\ proj[q].state \notin TerminalStates /\ ~ Has(q, TickTags)
      /\ starter[q].step # "failProject" => ~ Has(q, {"start-failed"})
      /\ FailingStart(q)
    BY <1>1 DEF Starting, StraightInv, RunStraight, RunInv, Fresh
<1>3. "queued" \notin TerminalStates /\ "failed" \in TerminalStates
    BY DEF TerminalStates
<1>4. UNCHANGED journal => \A tags : Has(q, tags)' <=> Has(q, tags)
    BY DEF Has
<1>5. ASSUME Frame, UNCHANGED journal, proj'[q].state \notin TerminalStates,
             starter[q].step # "failProject", step # "failProject",
             step = "failAppend" => message'[q] = "failed"
      PROVE  StraightInv'
    <2>1. RunInv(q)'
        BY <1>2, <1>4, <1>5 DEF RunInv, Fresh, FailingStart, Settled
    <2>2. QED
        BY <1>1, <1>5, <2>1, StarterAlone
<1>6. CASE AcceptTurn(q)
    <2>1. /\ Frame /\ UNCHANGED journal /\ proj'[q].state = "queued"
          /\ starter[q].step = "absent" /\ step = "bootstrap"
        BY <1>6 DEF AcceptTurn, SetMessage, TypeOK, Starters
    <2>2. QED
        BY <1>3, <1>5, <2>1
<1>7. CASE BootstrapTurn(q) \/ StartFails(q)
    <2>1. /\ Frame /\ UNCHANGED <<journal, proj>>
          /\ starter[q].step \in {"bootstrap", "bootstrapAppend"}
          /\ step \in {"done", "bootstrapAppend", "failMessage"}
        BY <1>7 DEF BootstrapTurn, StartFails, TypeOK, Starters
    <2>2. QED
        BY <1>2, <1>5, <2>1
<1>8. CASE BootstrapAppend(q)
    <2>1. /\ UNCHANGED <<proj, message>> /\ UNCHANGED tickVars
          /\ starter[q].step = "bootstrapAppend" /\ step \in {"done", "failMessage"}
          /\ \A r \in Runs \ {q} : starter'[r] = starter[r]
          /\ AppendEvent(q, QueuedEvent) \/ UNCHANGED journal
        BY <1>8 DEF BootstrapAppend, TypeOK, Starters
    <2>2. CASE UNCHANGED journal
        BY <1>2, <1>5, <2>1, <2>2
    <2>3. CASE AppendEvent(q, QueuedEvent)
        <3>1. QueuedEvent \in Events /\ QueuedEvent.tag = "queued"
            BY FixedEventTypes DEF QueuedEvent, Event
        <3>2. /\ \A tags : Has(q, tags)' <=> Has(q, tags) \/ QueuedEvent.tag \in tags
              /\ \A r \in Runs \ {q} : journal'[r] = journal[r]
            BY <2>3, <3>1, AppendHas, AppendFacts
        <3>3. ~ Has(q, TickTags)' /\ ~ Has(q, {"start-failed"})'
            BY <1>2, <2>1, <3>1, <3>2 DEF TickTags
        <3>4. RunInv(q)'
            BY <1>2, <2>1, <3>3 DEF RunInv, Fresh, FailingStart, Settled
        <3>5. QED
            BY <1>1, <2>1, <3>2, <3>4, StarterAlone
    <2>4. QED
        BY <2>1, <2>2, <2>3
<1>9. CASE StartFailMessage(q)
    <2>1. /\ Frame /\ UNCHANGED <<journal, proj>> /\ message'[q] = "failed"
          /\ starter[q].step = "failMessage" /\ step = "failAppend"
        BY <1>9 DEF StartFailMessage, SetMessage, TypeOK, Starters
    <2>2. QED
        BY <1>2, <1>5, <2>1
<1>10. CASE StartFailAppend(q)
    <2> DEFINE e == Event("VerificationFailed", "start-failed", 0)
    <2>1. /\ UNCHANGED <<proj, message>> /\ UNCHANGED tickVars
          /\ starter[q].step = "failAppend" /\ step = "failProject"
          /\ starter'[q].seq = Len(journal[q]) + 1
          /\ \A r \in Runs \ {q} : starter'[r] = starter[r]
          /\ AppendEvent(q, e)
        BY <1>10 DEF StartFailAppend, TypeOK
    <2>2. e \in Events /\ e.tag = "start-failed"
        <3>1. 0 \in Nat
            OBVIOUS
        <3>2. QED
            BY <3>1, FixedEventTypes DEF Event
    <2> HIDE DEF e
    <2>3. /\ \A tags : Has(q, tags)' <=> Has(q, tags) \/ e.tag \in tags
          /\ \A r \in Runs \ {q} : journal'[r] = journal[r]
          /\ journal'[q][Len(journal[q]) + 1] = e
        BY <2>1, <2>2, AppendHas, AppendFacts
    <2>4. ~ Has(q, TickTags)'
        BY <1>2, <2>2, <2>3 DEF TickTags
    <2>5. RunInv(q)'
        BY <1>2, <2>1, <2>2, <2>3, <2>4 DEF RunInv, Fresh, FailingStart, Settled
    <2>6. QED
        BY <1>1, <2>1, <2>3, <2>5, StarterAlone
<1>11. CASE StartFailProject(q)
    <2>1. PICK n \in Nat \ {0} : n = starter[q].seq /\ n <= Len(journal[q]) /\ n <= n
        BY <1>11 DEF StartFailProject, BatchInJournal, TypeOK
    <2>2. /\ Project(q, n, n, FALSE) /\ UNCHANGED <<journal, message>> /\ UNCHANGED tickVars
          /\ starter[q].step = "failProject" /\ step = "done"
          /\ \A r \in Runs \ {q} : starter'[r] = starter[r]
        BY <1>11, <2>1 DEF StartFailProject, TypeOK, Starters
    <2>3. /\ \A r \in Runs \ {q} : proj'[r] = proj[r]
          /\ proj'[q].state = StateAfter(proj[q].state, SubSeq(journal[q], n, n))
        <3>1. n \in Nat
            BY <2>1
        <3>2. QED
            BY <2>1, <2>2, <3>1, ProjectMoves DEF SoleInv
    <2>4. n \in 1..Len(journal[q]) /\ journal[q] \in Seq(Events)
        BY <2>1 DEF TypeOK
    <2>5. StateOf(journal[q][n].kind) = "failed"
        <3>1. journal[q][n].tag = "start-failed"
            BY <1>2, <2>1, <2>2 DEF FailingStart
        <3>2. Telling(journal[q][n])
            BY <2>4 DEF StraightInv, TagsTell
        <3>3. QED
            BY <3>1, <3>2 DEF Telling, Failing, StateOf
    <2>6. proj'[q].state = "failed"
        <3> DEFINE batch == SubSeq(journal[q], n, n)
        <3>1. batch \in Seq(Events) /\ Len(batch) = 1 /\ batch[1] = journal[q][n]
            BY <2>4, OneEvent
        <3> HIDE DEF batch
        <3>2. proj[q].state \notin TerminalStates
            BY <1>2
        <3>3. /\ \A i \in 1..Len(batch) :
                     StateOf(batch[i].kind) \in TerminalStates => StateOf(batch[i].kind) = "failed"
              /\ \E i \in 1..Len(batch) : StateOf(batch[i].kind) \in TerminalStates
            <4>1. \A i \in 1..Len(batch) : StateOf(batch[i].kind) = "failed"
                BY <2>5, <3>1
            <4>2. 1 \in 1..Len(batch)
                BY <3>1
            <4>3. QED
                BY <1>3, <4>1, <4>2
        <3>4. StateAfter(proj[q].state, batch) = "failed"
            BY <3>1, <3>2, <3>3, BatchEnds
        <3>5. QED
            BY <2>3, <3>4 DEF batch
    <2>7. message'[q] = MessageOf("failed")
        BY <1>2, <2>2 DEF FailingStart, MessageOf
    <2>8. RunInv(q)'
        BY <1>3, <2>2, <2>6, <2>7 DEF RunInv, Fresh, FailingStart, Settled
    <2>9. QED
        BY <1>1, <2>2, <2>3, <2>8, StarterAlone
<1>12. CASE StartFailureFails(q) /\ starter[q].step = "failProject"
    <2>1. /\ Frame /\ UNCHANGED <<journal, message>> /\ step = "done"
          /\ proj'[q].state = "failed"
        BY <1>12 DEF StartFailureFails, TypeOK, Starters, Projections
    <2>2. message'[q] = MessageOf("failed")
        BY <1>2, <1>12, <2>1 DEF FailingStart, MessageOf
    <2>3. RunInv(q)'
        BY <1>3, <2>1, <2>2 DEF RunInv, Fresh, FailingStart, Settled
    <2>4. QED
        BY <1>1, <2>1, <2>3, StarterAlone
<1>13. CASE StartFailureFails(q) /\ starter[q].step # "failProject"
    <2>1. /\ Frame /\ UNCHANGED <<journal, proj>> /\ step = "done"
        BY <1>13 DEF StartFailureFails, TypeOK, Starters
    <2>2. QED
        BY <1>2, <1>5, <1>13, <2>1
<1>14. QED
    BY <1>6, <1>7, <1>8, <1>9, <1>10, <1>11, <1>12, <1>13 DEF TurnStart

(* A claim begins an execution of a turn nobody has executed yet.           *)
LEMMA ClaimStraight ==
    ASSUME Uneventful, TypeOK, BatchInJournal, SoleInv, StraightInv, TagsTell',
           NEW s \in Supervisors, NEW q \in Runs, ClaimTurn(s, q)
    PROVE  StraightInv'
<1>1. /\ proj[q].state = "queued" /\ starter[q].step = "done" /\ pc[s] = "claim"
      /\ pc'[s] = "observe" /\ held'[s].run = q /\ proj'[q].state = "running"
      /\ UNCHANGED <<journal, message, starter, seen, outcome>>
    BY TargetsAreClaimable DEF ClaimTurn, Claimable, Uneventful, At, Goto, TypeOK
<1>2. /\ \A t \in Supervisors \ {s} : TickKept(t)
      /\ \A r \in Runs \ {q} : proj'[r] = proj[r]
    BY <1>1 DEF ClaimTurn, Goto, TypeOK, TickKept
<1>3. "queued" \notin {"running"} \cup TerminalStates
    BY DEF TerminalStates
<1>4. Idle(q)
    BY <1>1, <1>3 DEF Idle, SoleInv, OnTurn
<1>5. ASSUME NEW r \in Runs \ {q}
      PROVE  Elsewhere(r)
    BY <1>1, <1>2 DEF Elsewhere, Aside, StateKept, TickKept, Working
<1>6. ~ Has(q, TickTags) /\ ~ Has(q, {"start-failed"})
    BY <1>1, <1>3, <1>4 DEF StraightInv, RunStraight, RunInv, Fresh
<1>7. /\ ~ Has(q, {"started"})' /\ ~ Has(q, {"leased"})' /\ ~ Has(q, {"root-failed"})'
      /\ ~ Has(q, {"completed", "failed"})' /\ ~ Has(q, {"start-failed", "supervisor-failed"})'
    BY <1>1, <1>6 DEF Has, TickTags
<1>8. Straight(s, q)'
    BY <1>1, <1>7 DEF Straight, Unwritten, OneWay, Follows, BeforeEnd, BeforeRoot,
                      BeforeLease, Opening, Executed
<1>9. RunInv(q)'
    <2>1. ~ Idle(q)'
        BY <1>1 DEF Idle, Working
    <2>2. QED
        BY <1>1, <2>1 DEF RunInv, Fresh, FailingStart, Settled
<1>10. ASSUME NEW t \in Supervisors \ {s}, Working(t)', held'[t].run = q
       PROVE  FALSE
    BY <1>2, <1>4, <1>10 DEF TickKept, Idle, Working
<1>11. RunStraight(q)'
    BY <1>8, <1>9, <1>10 DEF RunStraight
<1>12. QED
    BY <1>5, <1>11, OnlyRun

(* No step of a turn returns an error of its own, and nothing dies: a tick  *)
(* on its way is not in its failure arm.                                    *)
LEMMA NothingBreaks ==
    ASSUME Uneventful, TypeOK, ErrorInArm, Spent, StraightInv
    PROVE  /\ \A s \in Supervisors : ~ StepFails(s) /\ ~ Crash(s)
           /\ \A r \in Runs : ~ StartCrash(r)
           /\ \A c \in Clients : ~ RequestCrash(c) /\ ~ Subscribe(c)
<1>1. /\ {"crash", "error", "subscribe"} \subseteq BudgetKinds
      /\ \A k \in BudgetKinds : budget[k] \in Nat /\ Budget[k] \in Nat
    BY TurnSupervisorAssumption DEF BudgetKinds, TypeOK
<1>2. \A k \in {"crash", "error", "subscribe"} : budget[k] \in Nat /\ budget[k] <= 0
    BY <1>1 DEF Uneventful, Undisturbed, Spent
<1>3. \A k \in {"crash", "error", "subscribe"} : ~ Spend(k)
    BY <1>2 DEF Spend
<1>4. ASSUME NEW s \in Supervisors, StepFails(s)
      PROVE  FALSE
    <2>1. Working(s) /\ outcome[s] = "error"
        BY <1>3, <1>4 DEF StepFails
    <2>2. Straight(s, held[s].run)
        BY <2>1, HeldFields DEF StraightInv, RunStraight, TypeOK
    <2>3. pc[s] \in Executed
        BY <2>1, <2>2 DEF ErrorInArm, FailureArm, Straight, BeforeEnd, BeforeRoot,
                          BeforeLease, Opening, Executed
    <2>4. QED
        BY <2>1, <2>2, <2>3 DEF Straight, OneWay
<1>5. QED
    BY <1>3, <1>4 DEF Crash, StartCrash, RequestCrash, Subscribe

(* A lease that expires is nobody's: who works on a running turn renews it. *)
LEMMA RecoverStraight ==
    ASSUME TypeOK, BatchInJournal, SoleInv, StraightInv, TagsTell',
           NEW s \in Supervisors, RecoverExpired(s)
    PROVE  StraightInv'
<1>1. /\ pc[s] = "idle" /\ pc'[s] = "claim"
      /\ \A t \in Supervisors \ {s} : pc'[t] = pc[t]
      /\ UNCHANGED <<held, outcome, seen, starter, journal, message>>
    BY DEF RecoverExpired, At, Goto, TypeOK
<1>2. ASSUME NEW r \in Runs
      PROVE  StateKept(r)
    <2>1. CASE ~ Expired(r, clock)
        BY <2>1 DEF RecoverExpired, StateKept
    <2>2. CASE Expired(r, clock)
        <3>1. proj'[r].state = "queued" /\ proj[r].state = "running"
            BY <2>2, ProjectionFields DEF RecoverExpired, Expired, TypeOK, Projections
        <3>2. /\ lease[r].expires # NoExpiry /\ lease[r].expires <= clock
              /\ lease[r].expires \in Int /\ clock \in Int
            <4>1. lease[r] \in Leases /\ clock \in Nat
                BY DEF TypeOK
            <4>2. lease[r].expires \in Int /\ clock \in Int
                BY <4>1, LeaseFields
            <4>3. QED
                BY <2>2, <4>2 DEF Expired
        <3>3. ASSUME NEW t \in Supervisors, Working(t), held[t].run = r
              PROVE  FALSE
            <4>1. lease[r].expires > clock
                BY <3>1, <3>3 DEF SoleInv, OnTurn
            <4>2. QED
                BY <3>2, <4>1
        <3>4. QED
            BY <3>1, <3>3 DEF StateKept, Idle, TerminalStates
    <2>3. QED
        BY <2>1, <2>2
<1>3. ASSUME NEW r \in Runs
      PROVE  Elsewhere(r)
    <2>1. ~ Working(s) /\ ~ Working(s)' /\ \A t \in Supervisors \ {s} : TickKept(t)
        BY <1>1 DEF Working, TickKept
    <2>2. \A t \in Supervisors \ {s} : Working(t)' <=> Working(t)
        BY <1>1 DEF Working
    <2>3. QED
        BY <1>1, <1>2, <2>1, <2>2 DEF Elsewhere, Aside
<1>4. QED
    BY <1>3, AllElsewhere

(* A tick without work, a heartbeat, the clock: no run notices.             *)
LEMMA IdleStraight ==
    ASSUME TypeOK, BatchInJournal, StraightInv, TagsTell',
           \/ \E s \in Supervisors : ClaimNothing(s) \/ Heartbeat(s)
           \/ \E c \in Clients : RequestControl(c)
           \/ ClockTick \/ UNCHANGED vars
    PROVE  StraightInv'
<1>1. UNCHANGED <<proj, journal, message, starter>>
    BY DEF ClaimNothing, Heartbeat, RequestControl, ClockTick, vars
<1>2. CASE UNCHANGED <<pc, held, outcome, seen>>
    <2>1. \A r \in Runs : Elsewhere(r)
        BY <1>1, <1>2 DEF Elsewhere, Aside, StateKept, TickKept, Working
    <2>2. QED
        BY <2>1, AllElsewhere
<1>3. ASSUME NEW s \in Supervisors, ClaimNothing(s)
      PROVE  StraightInv'
    <2>1. ~ Working(s) /\ ~ Working(s)' /\ \A t \in Supervisors \ {s} : TickKept(t)
        BY <1>3 DEF ClaimNothing, Leave, At, Working, TickKept, TypeOK
    <2>2. \A t \in Supervisors \ {s} : Working(t)' <=> Working(t)
        BY <2>1 DEF Working, TickKept
    <2>3. \A r \in Runs : Elsewhere(r)
        BY <1>1, <2>1, <2>2 DEF Elsewhere, Aside, StateKept
    <2>4. QED
        BY <2>3, AllElsewhere
<1>4. QED
    BY <1>2, <1>3 DEF Heartbeat, RequestControl, ClockTick, vars

(* A client journals its control event, and projects it.                    *)
LEMMA ClientStraight ==
    ASSUME Uneventful, TypeOK, BatchInJournal, SoleInv, ControlsOnly, StraightInv, TagsTell',
           NEW c \in Clients, ClientStep(c)
    PROVE  StraightInv'
<1>1. UNCHANGED <<message, starter>> /\ UNCHANGED tickVars
    BY DEF ClientStep, AppendControl, ProjectRequest
<1>2. ASSUME NEW r \in Runs, Aside(r), StateKept(r)
      PROVE  Elsewhere(r)
    BY <1>1, <1>2 DEF Elsewhere, TickKept, Working
<1>3. CASE AppendControl(c)
    <2>1. PICK q \in Runs, e \in Events :
              /\ e.tag = "control" /\ UNCHANGED proj
              /\ UNCHANGED journal \/ AppendEvent(q, e)
        <3>1. /\ request[c].step = "append" /\ request[c].run \in Runs
              /\ request[c].kind \in ControlKinds /\ request[c].next \in Nat
            BY <1>3 DEF AppendControl, BatchInJournal, TypeOK, Requests
        <3>2. request[c].kind \in EventKinds
            BY <3>1, TurnSupervisorAssumption DEF EventKinds
        <3> DEFINE e == Event(request[c].kind, "control", request[c].next)
        <3>3. e \in Events /\ e.tag = "control"
            BY <3>1, <3>2 DEF Event, Events, Tags
        <3>4. UNCHANGED proj /\ (UNCHANGED journal \/ AppendEvent(request[c].run, e))
            BY <1>3 DEF AppendControl
        <3> HIDE DEF e
        <3>5. QED
            BY <3>1, <3>3, <3>4
    <2>2. ASSUME NEW r \in Runs
          PROVE  Elsewhere(r)
        <3>1. CASE UNCHANGED journal
            BY <1>1, <1>2, <2>1, <3>1 DEF Aside, StateKept
        <3>2. CASE AppendEvent(q, e) /\ r = q
            BY <1>1, <1>2, <2>1, <3>2 DEF Aside, StateKept
        <3>3. CASE AppendEvent(q, e) /\ r # q
            <4>1. journal'[r] = journal[r]
                BY <2>1, <3>3, AppendFacts
            <4>2. QED
                BY <1>1, <1>2, <2>1, <4>1 DEF Aside, StateKept
        <3>4. QED
            BY <2>1, <3>1, <3>2, <3>3
    <2>3. QED
        BY <2>2, AllElsewhere
<1>4. CASE ProjectRequest(c)
    <2>1. PICK q \in Runs, lo \in Nat \ {0}, hi \in Nat :
              /\ q = request[c].run /\ hi <= Len(journal[q])
              /\ Project(q, lo, hi, FALSE)
        <3>1. /\ request[c].step = "project" /\ request[c].run \in Runs
              /\ request[c].lo \in Nat /\ request[c].hi \in Nat
              /\ request[c].lo >= 1 /\ request[c].hi <= Len(journal[request[c].run])
              /\ request[c].rebuild = FALSE
            <4>1. request[c] \in Requests /\ request[c].step = "project"
                BY <1>4 DEF ProjectRequest, TypeOK
            <4>2. request[c].rebuild \in BOOLEAN /\ ~ request[c].rebuild
                BY <4>1 DEF Requests, SoleInv, NeverRebuilt
            <4>3. request[c].lo >= 1 /\ request[c].hi <= Len(journal[request[c].run])
                BY <4>1 DEF BatchInJournal
            <4>4. request[c].rebuild = FALSE
                BY Zenon, <4>2
            <4>5. QED
                BY <4>1, <4>3, <4>4 DEF Requests
        <3>2. Project(request[c].run, request[c].lo, request[c].hi, FALSE)
            BY <1>4, <3>1 DEF ProjectRequest
        <3>3. request[c].lo \in Nat \ {0}
            BY <3>1
        <3>4. QED
            BY <3>1, <3>2, <3>3
    <2>2. /\ \A r \in Runs : r # q => proj'[r] = proj[r]
          /\ proj'[q].state \in {proj[q].state, "running"} \cup TerminalStates
          /\ proj[q].state \in TerminalStates => proj'[q].state = proj[q].state
        BY <2>1, ProjectMoves DEF SoleInv
    <2>3. StateKept(q)
        <3>1. CASE proj[q].state \in TerminalStates
            BY <2>2, <3>1 DEF StateKept
        <3>2. CASE proj[q].state \notin TerminalStates
            <4>1. proj'[q].state \notin TerminalStates
                BY <1>4, <2>1, <3>2, ControlEndsNothing DEF Uneventful
            <4>2. ASSUME NEW s \in Supervisors, Working(s), held[s].run = q
                  PROVE  proj'[q].state = proj[q].state
                <5>1. proj[q].state = "running"
                    BY <3>2, <4>2 DEF SoleInv, OnTurn
                <5>2. QED
                    BY <2>2, <4>1, <5>1
            <4>3. QED
                BY <3>2, <4>1, <4>2 DEF StateKept, Idle
        <3>3. QED
            BY <3>1, <3>2
    <2>4. \A r \in Runs : Elsewhere(r)
        <3>1. UNCHANGED journal
            BY <1>4 DEF ProjectRequest
        <3>2. \A r \in Runs : Aside(r) /\ StateKept(r)
            BY <1>1, <2>2, <2>3, <3>1 DEF Aside, StateKept
        <3>3. QED
            BY <1>2, <3>2
    <2>5. QED
        BY <2>4, AllElsewhere
<1>5. QED
    BY <1>3, <1>4 DEF ClientStep

(* Every step keeps every turn on its way.                                  *)
LEMMA StraightStep ==
    ASSUME Uneventful, TypeInv, EvidenceInv, SoleInv, Holding, ControlsOnly, Starting,
           StraightInv, [Next]_vars
    PROVE  StraightInv'
<1> USE DEF TypeInv
<1>1. TagsTell'
    BY TellingStep DEF StraightInv
<1>2. /\ \A s \in Supervisors : ~ StepFails(s) /\ ~ Crash(s)
      /\ \A r \in Runs : ~ StartCrash(r)
      /\ \A c \in Clients : ~ RequestCrash(c) /\ ~ Subscribe(c)
    BY NothingBreaks DEF EvidenceInv
<1>3. ASSUME NEW r \in Runs,
             TurnStart(r) \/ AcceptTurn(r) \/ StartFails(r) \/ StartFailureFails(r)
      PROVE  StraightInv'
    BY <1>1, <1>3, StartStraight
<1>4. ASSUME NEW s \in Supervisors, RecoverExpired(s)
      PROVE  StraightInv'
    BY <1>1, <1>4, RecoverStraight
<1>5. ASSUME NEW s \in Supervisors, NEW r \in Runs, ClaimTurn(s, r)
      PROVE  StraightInv'
    BY <1>1, <1>5, ClaimStraight
<1>6. ASSUME NEW s \in Supervisors, Execute(s)
      PROVE  StraightInv'
    BY <1>1, <1>6, ExecuteStraight
<1>7. ASSUME NEW c \in Clients, ClientStep(c)
      PROVE  StraightInv'
    BY <1>1, <1>7, ClientStraight
<1>8. ASSUME \/ \E s \in Supervisors : ClaimNothing(s) \/ Heartbeat(s)
             \/ \E c \in Clients : RequestControl(c)
             \/ ClockTick \/ UNCHANGED vars
      PROVE  StraightInv'
    BY <1>1, <1>8, IdleStraight
<1>9. QED
    BY <1>2, <1>3, <1>4, <1>5, <1>6, <1>7, <1>8, Zenon DEF Next, Tick

(* Every behaviour without mishaps keeps every turn on its way.             *)
LEMMA StraightInvariance ==
    ASSUME Uneventful
    PROVE  Spec => [](Starting /\ ControlsOnly /\ StraightInv)
<1> DEFINE Both == Starting /\ ControlsOnly /\ StraightInv
<1>1. Init => Both
    <2> SUFFICES ASSUME Init PROVE Both
        OBVIOUS
    <2>1. /\ \A r \in Runs : /\ journal[r] = <<>> /\ proj[r].state = "absent"
                             /\ starter[r].step = "absent"
          /\ \A s \in Supervisors : pc[s] = "idle"
          /\ \A c \in Clients : request[c].step = "idle"
        BY DEF Init, NoRequest
    <2>2. \A s \in Supervisors : ~ Working(s)
        BY <2>1 DEF Working
    <2>3. \A r \in Runs : \A tags : ~ Has(r, tags)
        BY <2>1 DEF Has
    <2>4. TagsTell
        BY <2>1 DEF TagsTell
    <2>5. Starting /\ ControlsOnly
        BY <2>1, <2>2 DEF Starting, ControlsOnly, Idle, TerminalStates
    <2>6. StraightInv
        BY <2>1, <2>2, <2>3, <2>4 DEF StraightInv, RunStraight, RunInv, Fresh, FailingStart,
                                      Settled, TerminalStates
    <2>7. QED
        BY <2>5, <2>6
<1>2. TypeInv /\ EvidenceInv /\ SoleInv /\ Holding /\ Both /\ [Next]_vars => Both'
    <2> SUFFICES ASSUME TypeInv, EvidenceInv, SoleInv, Holding, Both, [Next]_vars
                 PROVE  Both'
        OBVIOUS
    <2>1. Undisturbed /\ "starts" \in Prompt /\ "RunCancelled" \notin ControlKinds
        BY DEF Uneventful
    <2>2. StraightInv'
        BY StraightStep
    <2>3. ControlsOnly'
        BY ControlsStep DEF TypeInv, SoleInv
    <2>4. Starting'
        BY <2>1, StartingStep DEF TypeInv
    <2>5. QED
        BY <2>2, <2>3, <2>4
<1>3. Undisturbed
    BY DEF Uneventful
<1>4. Spec => []SoleInv /\ []Holding
    BY <1>3, SoleInvariance, HoldingInvariance
<1> HIDE DEF Both
<1>5. Spec => []Both
    BY <1>1, <1>2, <1>4, TypeInvariance, EvidenceInvariance, PTL DEF Spec
<1>6. QED
    BY <1>5 DEF Both

(* For every number of turns, ticks and clients, where no thread dies and   *)
(* no step of an execution fails by itself, nobody cancels and no objective *)
(* child item fails after its root: once nobody works on a finished run,    *)
(* the assistant message tells the same end as the read model, also when    *)
(* the turn start itself fails at any point.                                *)
THEOREM SettledMessageAgreesHolds ==
    ASSUME Uneventful
    PROVE  Spec => []SettledMessageAgrees
<1>1. StraightInv => SettledMessageAgrees
    BY DEF StraightInv, RunStraight, RunInv, Settled, Idle, SettledMessageAgrees
<1>2. Starting /\ ControlsOnly /\ StraightInv => SettledMessageAgrees
    BY <1>1
<1>3. QED
    BY <1>2, StraightInvariance, PTL

------------------------------------------------------------------------------
(* The reducer is the fold the code runs, for every batch                   *)

(* A position of S that none precedes is the earliest of S.                 *)
LEMMA EarliestIs ==
    ASSUME NEW S \in SUBSET Nat, NEW i \in S, \A j \in S : i <= j
    PROVE  Earliest(S) = i
<1>1. \E k \in S : \A j \in S : k <= j
    OBVIOUS
<1>2. Earliest(S) \in S /\ \A j \in S : Earliest(S) <= j
    BY <1>1, Zenon DEF Earliest
<1>3. Earliest(S) \in Nat /\ i \in Nat /\ Earliest(S) <= i /\ i <= Earliest(S)
    BY <1>2
<1>4. QED
    BY <1>3

(* A position of S that none follows is the latest of S.                    *)
LEMMA LatestIs ==
    ASSUME NEW S \in SUBSET Nat, NEW i \in S, \A j \in S : i >= j
    PROVE  Latest(S) = i
<1>1. \E k \in S : \A j \in S : k >= j
    OBVIOUS
<1>2. Latest(S) \in S /\ \A j \in S : Latest(S) >= j
    BY <1>1, Zenon DEF Latest
<1>3. Latest(S) \in Nat /\ i \in Nat /\ Latest(S) >= i /\ i >= Latest(S)
    BY <1>2
<1>4. QED
    BY <1>3

(* One more event is one more position, where its state is asked for.       *)
LEMMA PositionsOfAppend ==
    ASSUME NEW events \in Seq(Events), NEW e \in Events, NEW states
    PROVE  Positions(Append(events, e), states) =
              Positions(events, states)
                \cup IF StateOf(e.kind) \in states THEN {Len(events) + 1} ELSE {}
<1> DEFINE longer == Append(events, e)
           n == Len(events)
<1>1. n \in Nat /\ Len(longer) = n + 1 /\ longer[n + 1] = e
    OBVIOUS
<1>2. \A i \in 1..n : longer[i] = events[i]
    OBVIOUS
<1>3. Positions(longer, states) = {i \in 1..(n + 1) : StateOf(longer[i].kind) \in states}
    BY <1>1, Zenon DEF Positions
<1>4. Positions(events, states) = {i \in 1..n : StateOf(events[i].kind) \in states}
    BY Zenon DEF Positions
<1> HIDE DEF longer, n
<1>5. 1..(n + 1) = (1..n) \cup {n + 1}
    BY <1>1
<1>6. QED
    BY <1>1, <1>2, <1>3, <1>4, <1>5 DEF longer, n

(* The reducer takes one event at a time: with another event the state is   *)
(* merged with that event's, and the terminal kind is that event's if it    *)
(* has one.                                                                 *)
LEMMA StateAfterAppend ==
    ASSUME NEW current \in RunStates, NEW events \in Seq(Events), NEW e \in Events
    PROVE  StateAfter(current, Append(events, e)) =
              Merge(StateAfter(current, events), StateOf(e.kind))
<1> DEFINE n == Len(events)
           longer == Append(events, e)
           last == StateOf(e.kind)
           ends == Positions(events, TerminalStates)
           moves == Positions(events, {"running", "paused"})
           newEnds == Positions(longer, TerminalStates)
           newMoves == Positions(longer, {"running", "paused"})
<1>1. n \in Nat /\ ends \in SUBSET (1..n) /\ moves \in SUBSET (1..n)
    BY DEF Positions
<1>2. /\ newEnds = ends \cup IF last \in TerminalStates THEN {n + 1} ELSE {}
      /\ newMoves = moves \cup IF last \in {"running", "paused"} THEN {n + 1} ELSE {}
    BY PositionsOfAppend
<1>3. /\ longer[n + 1] = e
      /\ \A i \in 1..n : longer[i] = events[i]
    OBVIOUS
<1>4. last \in {"none", "running", "paused"} \cup TerminalStates
    BY DEF StateOf, TerminalStates
<1>5. ends # {} => StateOf(events[Earliest(ends)].kind) \in TerminalStates
    <2>1. ends # {} => Earliest(ends) \in ends
        BY <1>1, EarliestExists
    <2>2. QED
        BY <2>1 DEF Positions
<1>6. moves # {} => StateOf(events[Latest(moves)].kind) \in {"running", "paused"}
    <2>1. moves # {} => Latest(moves) \in moves
        BY <1>1, LatestExists
    <2>2. QED
        BY <2>1 DEF Positions
<1>7. StateAfter(current, events) =
        IF current \in TerminalStates THEN current
        ELSE IF ends # {} THEN StateOf(events[Earliest(ends)].kind)
        ELSE IF moves # {} THEN StateOf(events[Latest(moves)].kind)
        ELSE current
    BY Zenon DEF StateAfter
<1>8. StateAfter(current, longer) =
        IF current \in TerminalStates THEN current
        ELSE IF newEnds # {} THEN StateOf(longer[Earliest(newEnds)].kind)
        ELSE IF newMoves # {} THEN StateOf(longer[Latest(newMoves)].kind)
        ELSE current
    BY Zenon DEF StateAfter
<1> HIDE DEF n, longer, ends, moves, newEnds, newMoves
<1>9. ends # {} => newEnds # {} /\ longer[Earliest(newEnds)] = events[Earliest(ends)]
    <2> SUFFICES ASSUME ends # {}
                 PROVE  newEnds # {} /\ longer[Earliest(newEnds)] = events[Earliest(ends)]
        OBVIOUS
    <2>1. PICK i \in ends : \A j \in ends : i <= j
        <3>1. ends \in SUBSET Nat
            BY <1>1
        <3>2. QED
            BY <3>1, MinimumExists
    <2>2. Earliest(ends) = i
        <3>1. ends \in SUBSET Nat
            BY <1>1
        <3>2. QED
            BY <2>1, <3>1, EarliestIs
    <2>3. i \in 1..n /\ newEnds \in SUBSET Nat /\ i \in newEnds
        BY <1>1, <1>2, <2>1
    <2>4. \A j \in newEnds : i <= j
        BY <1>1, <1>2, <2>1, <2>3
    <2>5. Earliest(newEnds) = i
        BY <2>3, <2>4, EarliestIs
    <2>6. QED
        BY <1>3, <2>2, <2>3, <2>5
<1>10. ends = {} /\ last \in TerminalStates =>
          newEnds # {} /\ longer[Earliest(newEnds)] = e
    <2> SUFFICES ASSUME ends = {}, last \in TerminalStates
                 PROVE  newEnds # {} /\ longer[Earliest(newEnds)] = e
        OBVIOUS
    <2>1. newEnds = {n + 1} /\ newEnds \in SUBSET Nat /\ n + 1 \in newEnds
        BY <1>1, <1>2
    <2>2. Earliest(newEnds) = n + 1
        BY <1>1, <2>1, EarliestIs
    <2>3. QED
        BY <1>3, <2>1, <2>2
<1>11. last \in {"running", "paused"} => newMoves # {} /\ longer[Latest(newMoves)] = e
    <2> SUFFICES ASSUME last \in {"running", "paused"}
                 PROVE  newMoves # {} /\ longer[Latest(newMoves)] = e
        OBVIOUS
    <2>1. newMoves \in SUBSET Nat /\ n + 1 \in newMoves
        BY <1>1, <1>2
    <2>2. \A j \in newMoves : n + 1 >= j
        BY <1>1, <1>2
    <2>3. Latest(newMoves) = n + 1
        BY <2>1, <2>2, LatestIs
    <2>4. QED
        BY <1>3, <2>1, <2>3
<1>12. last \notin TerminalStates => newEnds = ends
    BY <1>2
<1>13. last = "none" => newMoves = moves /\ (moves # {} => longer[Latest(newMoves)] = events[Latest(moves)])
    <2>1. moves # {} => Latest(moves) \in 1..n
        BY <1>1, LatestExists
    <2>2. QED
        BY <1>2, <1>3, <2>1
<1>14. QED
    BY <1>4, <1>5, <1>6, <1>7, <1>8, <1>9, <1>10, <1>11, <1>12, <1>13
       DEF Merge, TerminalStates, longer

LEMMA TerminalKindAppend ==
    ASSUME NEW events \in Seq(Events), NEW e \in Events
    PROVE  TerminalKind(Append(events, e)) =
              IF StateOf(e.kind) \in TerminalStates THEN StateOf(e.kind)
              ELSE TerminalKind(events)
<1> DEFINE n == Len(events)
           longer == Append(events, e)
           last == StateOf(e.kind)
           ends == Positions(events, TerminalStates)
           newEnds == Positions(longer, TerminalStates)
<1>1. n \in Nat /\ ends \in SUBSET (1..n)
    BY DEF Positions
<1>2. newEnds = ends \cup IF last \in TerminalStates THEN {n + 1} ELSE {}
    BY PositionsOfAppend
<1>3. /\ longer[n + 1] = e
      /\ \A i \in 1..n : longer[i] = events[i]
    OBVIOUS
<1>4. /\ TerminalKind(events) =
            IF ends = {} THEN "none" ELSE StateOf(events[Latest(ends)].kind)
      /\ TerminalKind(longer) =
            IF newEnds = {} THEN "none" ELSE StateOf(longer[Latest(newEnds)].kind)
    BY Zenon DEF TerminalKind
<1> HIDE DEF n, longer, ends, newEnds
<1>5. CASE last \in TerminalStates
    <2>1. newEnds \in SUBSET Nat /\ n + 1 \in newEnds /\ \A j \in newEnds : n + 1 >= j
        BY <1>1, <1>2, <1>5
    <2>2. Latest(newEnds) = n + 1
        BY <2>1, LatestIs
    <2>3. QED
        BY <1>3, <1>4, <1>5, <2>1, <2>2 DEF longer
<1>6. CASE last \notin TerminalStates
    <2>1. ends # {} => Latest(ends) \in 1..n
        BY <1>1, LatestExists
    <2>2. QED
        BY <1>2, <1>3, <1>4, <1>6, <2>1 DEF longer
<1>7. QED
    BY <1>5, <1>6

(* An empty batch changes nothing and ends nothing.                         *)
LEMMA EmptyBatch ==
    ASSUME NEW current
    PROVE  StateAfter(current, << >>) = current /\ TerminalKind(<< >>) = "none"
<1>1. \A states : Positions(<< >>, states) = {}
    BY DEF Positions
<1>2. QED
    BY <1>1, Zenon DEF StateAfter, TerminalKind

(* Two sequences of values that begin alike and go on alike, each value     *)
(* from the one before, are the same as far as they do: a difference would  *)
(* have a first place.                                                      *)
LEMMA SameFold ==
    ASSUME NEW length \in Nat, NEW f, NEW g, f[0] = g[0],
           \A n \in 1..length : f[n - 1] = g[n - 1] => f[n] = g[n]
    PROVE  \A n \in 0..length : f[n] = g[n]
<1> DEFINE Different == {n \in 0..length : f[n] # g[n]}
<1>1. SUFFICES ASSUME Different # {} PROVE FALSE
    OBVIOUS
<1>2. PICK n \in Different : \A m \in Different : n <= m
    <2>1. Different \in SUBSET Nat
        OBVIOUS
    <2> HIDE DEF Different
    <2>2. QED
        BY <1>1, <2>1, MinimumExists
<1>3. n \in 1..length /\ n - 1 \in 0..length
    BY <1>2
<1>4. n - 1 \notin Different
    BY <1>2, <1>3
<1>5. f[n - 1] = g[n - 1]
    BY <1>3, <1>4
<1>6. QED
    BY <1>2, <1>3, <1>5

(* A journal up to its n-th event is the journal up to the one before and   *)
(* that event.                                                              *)
LEMMA NextPrefix ==
    ASSUME NEW events \in Seq(Events), NEW n \in 1..Len(events)
    PROVE  /\ SubSeq(events, 1, n - 1) \in Seq(Events)
           /\ events[n] \in Events
           /\ SubSeq(events, 1, n) = Append(SubSeq(events, 1, n - 1), events[n])
OBVIOUS

LEMMA WholePrefix ==
    ASSUME NEW events \in Seq(Events)
    PROVE  /\ SubSeq(events, 1, Len(events)) = events
           /\ SubSeq(events, 1, 0) = << >>
           /\ Len(events) \in Nat
OBVIOUS

(* The reducer is the loop: what the code's fold over a batch yields is     *)
(* what the operators of RunProjection say, for every batch.                *)
LEMMA StateIsFold ==
    ASSUME NEW current \in RunStates, NEW events \in Seq(Events)
    PROVE  StateAfter(current, events) = FoldedState(current, events)
<1> DEFINE length == Len(events)
           Upto(n) == StateAfter(current, SubSeq(events, 1, n))
           Loop(f) == [n \in 0..length |->
                          IF n = 0 THEN current ELSE Merge(f[n - 1], StateOf(events[n].kind))]
           closed == [n \in 0..length |-> Upto(n)]
           state == CHOOSE f : f = Loop(f)
<1>1. length \in Nat
    OBVIOUS
<1>2. Upto(0) = current /\ Upto(length) = StateAfter(current, events)
    BY WholePrefix, EmptyBatch
<1>3. ASSUME NEW n \in 1..length
      PROVE  Upto(n) = Merge(Upto(n - 1), StateOf(events[n].kind))
    <2> DEFINE before == SubSeq(events, 1, n - 1)
    <2>1. /\ before \in Seq(Events) /\ events[n] \in Events
          /\ SubSeq(events, 1, n) = Append(before, events[n])
        BY <1>3, NextPrefix
    <2> HIDE DEF before
    <2>2. StateAfter(current, Append(before, events[n])) =
             Merge(StateAfter(current, before), StateOf(events[n].kind))
        BY <2>1, StateAfterAppend
    <2>3. QED
        BY <2>1, <2>2, Zenon DEF before
<1> HIDE DEF Upto, length
<1>4. closed = Loop(closed)
    <2>1. ASSUME NEW n \in 0..length
          PROVE  Upto(n) = IF n = 0 THEN current
                           ELSE Merge(closed[n - 1], StateOf(events[n].kind))
        BY <1>1, <1>2, <1>3, <2>1
    <2>2. QED
        BY <2>1
<1>5. state = Loop(state)
    <2> HIDE DEF closed, Loop
    <2>1. QED
        BY <1>4, Zenon
<1>6. FoldedState(current, events) = state[length]
    BY Zenon DEF FoldedState, length
<1> HIDE DEF state
<1>7. state[0] = closed[0]
    BY <1>1, <1>2, <1>5
<1>8. ASSUME NEW n \in 1..length, state[n - 1] = closed[n - 1]
      PROVE  state[n] = closed[n]
    <2>1. n \in 0..length /\ n # 0 /\ n - 1 \in 0..length
        BY <1>1
    <2>2. state[n] = Merge(state[n - 1], StateOf(events[n].kind))
        BY <1>5, <2>1
    <2>3. closed[n] = Upto(n) /\ closed[n - 1] = Upto(n - 1)
        BY <2>1
    <2>4. QED
        BY <1>3, <1>8, <2>2, <2>3
<1>9. state[length] = closed[length]
    <2> HIDE DEF closed
    <2>1. length \in 0..length
        BY <1>1
    <2>2. QED
        BY <1>1, <1>7, <1>8, <2>1, SameFold
<1>10. QED
    BY <1>1, <1>2, <1>6, <1>9

LEMMA KindIsFold ==
    ASSUME NEW events \in Seq(Events)
    PROVE  TerminalKind(events) = FoldedKind(events)
<1> DEFINE length == Len(events)
           Upto(n) == TerminalKind(SubSeq(events, 1, n))
           Loop(f) == [n \in 0..length |->
                          IF n = 0 THEN "none"
                          ELSE IF StateOf(events[n].kind) \in TerminalStates
                               THEN StateOf(events[n].kind) ELSE f[n - 1]]
           closed == [n \in 0..length |-> Upto(n)]
           kind == CHOOSE f : f = Loop(f)
<1>1. length \in Nat
    OBVIOUS
<1>2. Upto(0) = "none" /\ Upto(length) = TerminalKind(events)
    BY WholePrefix, EmptyBatch
<1>3. ASSUME NEW n \in 1..length
      PROVE  Upto(n) = IF StateOf(events[n].kind) \in TerminalStates
                       THEN StateOf(events[n].kind) ELSE Upto(n - 1)
    <2> DEFINE before == SubSeq(events, 1, n - 1)
    <2>1. /\ before \in Seq(Events) /\ events[n] \in Events
          /\ SubSeq(events, 1, n) = Append(before, events[n])
        BY <1>3, NextPrefix
    <2> HIDE DEF before
    <2>2. TerminalKind(Append(before, events[n])) =
             IF StateOf(events[n].kind) \in TerminalStates
             THEN StateOf(events[n].kind) ELSE TerminalKind(before)
        BY <2>1, TerminalKindAppend
    <2>3. QED
        BY <2>1, <2>2, Zenon DEF before
<1> HIDE DEF Upto, length
<1>4. closed = Loop(closed)
    <2>1. ASSUME NEW n \in 0..length
          PROVE  Upto(n) = IF n = 0 THEN "none"
                           ELSE IF StateOf(events[n].kind) \in TerminalStates
                                THEN StateOf(events[n].kind) ELSE closed[n - 1]
        BY <1>1, <1>2, <1>3, <2>1
    <2>2. QED
        BY <2>1
<1>5. kind = Loop(kind)
    <2> HIDE DEF closed, Loop
    <2>1. QED
        BY <1>4, Zenon
<1>6. FoldedKind(events) = kind[length]
    BY Zenon DEF FoldedKind, length
<1> HIDE DEF kind
<1>7. kind[0] = closed[0]
    BY <1>1, <1>2, <1>5
<1>8. ASSUME NEW n \in 1..length, kind[n - 1] = closed[n - 1]
      PROVE  kind[n] = closed[n]
    <2>1. n \in 0..length /\ n # 0 /\ n - 1 \in 0..length
        BY <1>1
    <2>2. kind[n] = IF StateOf(events[n].kind) \in TerminalStates
                    THEN StateOf(events[n].kind) ELSE kind[n - 1]
        BY <1>5, <2>1
    <2>3. closed[n] = Upto(n) /\ closed[n - 1] = Upto(n - 1)
        BY <2>1
    <2>4. QED
        BY <1>3, <1>8, <2>2, <2>3
<1>9. kind[length] = closed[length]
    <2> HIDE DEF closed
    <2>1. length \in 0..length
        BY <1>1
    <2>2. QED
        BY <1>1, <1>7, <1>8, <2>1, SameFold
<1>10. QED
    BY <1>1, <1>2, <1>6, <1>9

(* What a projection makes of a run's journal is what the code's loop over  *)
(* the journal makes of it (ProjectionIsFold).                              *)
THEOREM ProjectionIsFoldHolds == Spec => []ProjectionIsFold
<1>1. TypeOK => ProjectionIsFold
    <2>1. ASSUME TypeOK, NEW r \in Runs
          PROVE  journal[r] \in Seq(Events)
        BY <2>1, Zenon DEF TypeOK
    <2>2. QED
        BY <2>1, StateIsFold, KindIsFold, Zenon DEF ProjectionIsFold
<1>2. QED
    BY <1>1, Typing, PTL

LEMMA JoinedPrefix ==
    ASSUME NEW first \in Seq(Events), NEW second \in Seq(Events),
           NEW n \in 1..Len(second)
    PROVE  /\ first \o SubSeq(second, 1, n - 1) \in Seq(Events)
           /\ first \o SubSeq(second, 1, n) =
                 Append(first \o SubSeq(second, 1, n - 1), second[n])
<1> DEFINE before == SubSeq(second, 1, n - 1)
<1>1. /\ before \in Seq(Events) /\ second[n] \in Events
      /\ SubSeq(second, 1, n) = Append(before, second[n])
    BY NextPrefix
<1> HIDE DEF before
<1>2. first \o Append(before, second[n]) = Append(first \o before, second[n])
    BY <1>1
<1>3. QED
    BY <1>1, <1>2 DEF before

(* How the daemon cuts a journal into batches does not matter for the       *)
(* state: projecting one batch and then the next gives the state that       *)
(* projecting both at once does (the incremental and the rebuilding mode of *)
(* project_execution_events_into_timeline_with_mode).                       *)
THEOREM BatchesCompose ==
    ASSUME NEW current \in RunStates, NEW first \in Seq(Events), NEW second \in Seq(Events)
    PROVE  StateAfter(current, first \o second) =
              StateAfter(StateAfter(current, first), second)
<1> DEFINE length == Len(second)
           between == StateAfter(current, first)
           Whole(n) == StateAfter(current, first \o SubSeq(second, 1, n))
           Parts(n) == StateAfter(between, SubSeq(second, 1, n))
           whole == [n \in 0..length |-> Whole(n)]
           parts == [n \in 0..length |-> Parts(n)]
<1>1. length \in Nat
    OBVIOUS
<1>2. between \in RunStates
    BY StateAfterType
<1>3. /\ Whole(0) = between /\ Parts(0) = between
      /\ Whole(length) = StateAfter(current, first \o second)
      /\ Parts(length) = StateAfter(between, second)
    <2>1. first \o << >> = first
        OBVIOUS
    <2>2. QED
        BY <2>1, WholePrefix, EmptyBatch
<1>4. ASSUME NEW n \in 1..length
      PROVE  /\ Whole(n) = Merge(Whole(n - 1), StateOf(second[n].kind))
             /\ Parts(n) = Merge(Parts(n - 1), StateOf(second[n].kind))
    <2>1. Whole(n) = Merge(Whole(n - 1), StateOf(second[n].kind))
        <3> DEFINE before == first \o SubSeq(second, 1, n - 1)
        <3>1. /\ before \in Seq(Events) /\ second[n] \in Events
              /\ first \o SubSeq(second, 1, n) = Append(before, second[n])
            BY <1>4, NextPrefix, JoinedPrefix
        <3> HIDE DEF before
        <3>2. StateAfter(current, Append(before, second[n])) =
                 Merge(StateAfter(current, before), StateOf(second[n].kind))
            BY <3>1, StateAfterAppend
        <3>3. QED
            BY <3>1, <3>2, Zenon DEF before
    <2> HIDE DEF between
    <2>2. Parts(n) = Merge(Parts(n - 1), StateOf(second[n].kind))
        <3> DEFINE before == SubSeq(second, 1, n - 1)
        <3>1. /\ before \in Seq(Events) /\ second[n] \in Events
              /\ SubSeq(second, 1, n) = Append(before, second[n])
            BY <1>4, NextPrefix
        <3> HIDE DEF before
        <3>2. StateAfter(between, Append(before, second[n])) =
                 Merge(StateAfter(between, before), StateOf(second[n].kind))
            BY <1>2, <3>1, StateAfterAppend
        <3>3. QED
            BY <3>1, <3>2, Zenon DEF before
    <2>3. QED
        BY <2>1, <2>2
<1> HIDE DEF length, between, Whole, Parts
<1>5. whole[0] = parts[0]
    BY <1>1, <1>3
<1>6. ASSUME NEW n \in 1..length, whole[n - 1] = parts[n - 1]
      PROVE  whole[n] = parts[n]
    <2>1. n \in 0..length /\ n - 1 \in 0..length
        BY <1>1
    <2>2. Whole(n - 1) = Parts(n - 1)
        BY <1>6, <2>1
    <2>3. Whole(n) = Parts(n)
        BY <1>4, <2>2
    <2>4. QED
        BY <2>1, <2>3
<1>7. whole[length] = parts[length]
    <2> HIDE DEF whole, parts
    <2>1. length \in 0..length
        BY <1>1
    <2>2. QED
        BY <1>1, <1>5, <1>6, <2>1, SameFold
<1>8. Whole(length) = Parts(length)
    BY <1>1, <1>7
<1>9. QED
    BY <1>3, <1>8 DEF between

------------------------------------------------------------------------------
(* A rebuild gives what live has, where a journal is projected in order     *)

(* Where a batch ends a run, it ends it so from every active state.         *)
LEMMA SameEnd ==
    ASSUME NEW events \in Seq(Events), NEW current, NEW other,
           current \notin TerminalStates, other \notin TerminalStates,
           StateAfter(current, events) \in TerminalStates
    PROVE  StateAfter(other, events) = StateAfter(current, events)
<1> DEFINE ends == Positions(events, TerminalStates)
<1>1. ends # {}
    <2>1. ASSUME ends = {}
          PROVE  \A i \in 1..Len(events) : StateOf(events[i].kind) \notin TerminalStates
        BY <2>1 DEF Positions
    <2>2. QED
        BY <2>1, QuietBatch
<1>2. \A state \in {current, other} :
          StateAfter(state, events) = StateOf(events[Earliest(ends)].kind)
    BY <1>1, Zenon DEF StateAfter
<1>3. QED
    BY <1>2

(* A journal that a prefix of it ends is ended so.                          *)
LEMMA EndOfPrefix ==
    ASSUME NEW events \in Seq(Events), NEW current \in RunStates, NEW n \in 0..Len(events),
           StateAfter(current, SubSeq(events, 1, n)) \in TerminalStates
    PROVE  StateAfter(current, events) = StateAfter(current, SubSeq(events, 1, n))
<1> DEFINE first == SubSeq(events, 1, n)
           second == SubSeq(events, n + 1, Len(events))
<1>1. first \in Seq(Events) /\ second \in Seq(Events)
    OBVIOUS
<1>2. events = first \o second
    <2>1. n \in Nat /\ Len(events) \in Nat /\ n <= Len(events)
        OBVIOUS
    <2>2. /\ Len(first) = n /\ \A i \in 1..n : first[i] = events[i]
          /\ Len(second) = Len(events) - n
          /\ \A i \in 1..(Len(events) - n) : second[i] = events[n + i]
        BY <2>1
    <2> DEFINE joined == first \o second
    <2> HIDE DEF first, second
    <2>3. /\ joined \in Seq(Events) /\ Len(joined) = Len(events)
          /\ \A i \in 1..Len(events) :
                joined[i] = IF i <= n THEN first[i] ELSE second[i - n]
        BY <1>1, <2>1, <2>2, ConcatProperties
    <2> HIDE DEF joined
    <2>4. ASSUME NEW i \in 1..Len(events)
          PROVE  joined[i] = events[i]
        <3>1. CASE i <= n
            BY <2>1, <2>2, <2>3, <3>1
        <3>2. CASE ~ (i <= n)
            <4>1. i - n \in 1..(Len(events) - n) /\ n + (i - n) = i
                BY <2>1, <3>2
            <4>2. QED
                BY <2>2, <2>3, <3>2, <4>1
        <3>3. QED
            BY <3>1, <3>2
    <2>5. QED
        BY <2>3, <2>4, SeqEqual DEF joined
<1> HIDE DEF first, second
<1>3. StateAfter(current, events) = StateAfter(StateAfter(current, first), second)
    BY <1>1, <1>2, BatchesCompose
<1>4. \A state \in TerminalStates : StateAfter(state, second) = state
    BY Zenon DEF StateAfter
<1>5. QED
    BY <1>3, <1>4 DEF first

(* What keeps the journal in order: starts are over before ticks begin, no  *)
(* cancellation is projected ahead of it, and the failure arm does not fail.*)
InOrder ==
    /\ Undisturbed
    /\ "starts" \in Prompt
    /\ "RunCancelled" \notin ControlKinds
    /\ Budget["failureError"] = 0

(* While a turn is being started its journal knows no end but the failure   *)
(* of the start, and knows that before the failure is projected.            *)
FailsAlone(r) ==
    /\ starter[r].step # "done" =>
           \A i \in 1..Len(journal[r]) :
               StateOf(journal[r][i].kind) \in TerminalStates =>
                   StateOf(journal[r][i].kind) = "failed"
    /\ starter[r].step = "failProject" =>
           journal[r][starter[r].seq].kind = "VerificationFailed"
StartsFailAlone == \A r \in Runs : FailsAlone(r)

(* What is journaled while a turn is being started is no end of a tick.     *)
LEMMA StartWrites ==
    ASSUME "RunCancelled" \notin ControlKinds, NEW r \in Runs, Idle(r),
           NEW e \in Events, Writes(r, e), StateOf(e.kind) \in TerminalStates
    PROVE  StateOf(e.kind) = "failed"
<1>1. ASSUME NEW s \in Supervisors, held[s].run = r
      PROVE  /\ ~ EmitRunStarted(s) /\ ~ Dispatch(s) /\ ~ ExecuteTurn(s)
             /\ ~ EmitRunFinished(s) /\ ~ FailAppend(s)
    <2>1. pc[s] \in {"idle", "claim"}
        BY <1>1 DEF Idle, Working
    <2>2. QED
        BY <2>1 DEF EmitRunStarted, Dispatch, ExecuteTurn, EmitRunFinished, FailAppend,
                    TryAppend, Lookup, At
<1>2. \/ e = QueuedEvent
      \/ e.kind \in ControlKinds
      \/ e = Event("VerificationFailed", "start-failed", 0)
    BY <1>1 DEF Writes
<1>3. e.kind \in {"WorkItemQueued", "RunPaused", "RunResumed", "VerificationFailed"}
    BY <1>2, TurnSupervisorAssumption DEF QueuedEvent, Event
<1>4. QED
    BY <1>3 DEF StateOf, TerminalStates

(* A start comes to project its failure by appending it.                    *)
LEMMA StartReports ==
    ASSUME TypeOK, [Next]_vars, NEW r \in Runs, starter'[r].step = "failProject"
    PROVE  starter'[r] = starter[r] \/ (StartFailAppend(r) /\ starter'[r].seq = Len(journal[r]) + 1)
<1> DEFINE Reports == \/ starter'[r] = starter[r]
                      \/ StartFailAppend(r) /\ starter'[r].seq = Len(journal[r]) + 1
<1>1. ASSUME NEW q \in Runs,
             \/ TurnStart(q) \/ AcceptTurn(q) \/ StartFails(q) \/ StartFailureFails(q)
             \/ StartCrash(q)
      PROVE  Reports
    <2>1. CASE q = r
        <3>1. starter \in [Runs -> Starters]
            BY DEF TypeOK
        <3>2. ~ StartFailProject(r) /\ ~ StartFailureFails(r) /\ ~ StartCrash(r)
            BY <3>1 DEF StartFailProject, StartFailureFails, StartCrash, Starters
        <3>3. ~ AcceptTurn(r) /\ ~ StartFails(r) /\ ~ StartFailMessage(r)
            BY <3>1 DEF AcceptTurn, StartFails, StartFailMessage, Starters
        <3>4. ~ BootstrapTurn(r)
            BY <3>1 DEF BootstrapTurn, Starters
        <3>5. ~ BootstrapAppend(r)
            BY <3>1 DEF BootstrapAppend, Starters
        <3>6. StartFailAppend(r) => starter'[r].seq = Len(journal[r]) + 1
            BY <3>1 DEF StartFailAppend, Starters
        <3>7. QED
            BY <1>1, <2>1, <3>2, <3>3, <3>4, <3>5, <3>6, Zenon DEF TurnStart
    <2>2. CASE q # r
        BY <1>1, <2>2 DEF TurnStart, AcceptTurn, StartFails, StartFailureFails, StartCrash,
                BootstrapTurn, BootstrapAppend, StartFailMessage, StartFailAppend,
                StartFailProject, TypeOK
    <2>3. QED
        BY <2>1, <2>2
<1>2. UNCHANGED starter => Reports
    OBVIOUS
<1>3. ASSUME NEW s \in Supervisors, Tick(s) \/ Heartbeat(s) \/ StepFails(s) \/ Crash(s)
      PROVE  UNCHANGED starter
    BY <1>3 DEF Tick, Execute, Heartbeat, StepFails, Crash, RecoverExpired, ClaimTurn,
                ClaimNothing, ObserveRun, SkipMessage, ReadJournal, ApplyJournal,
                AdoptCandidate, StartHeartbeat, EmitRunStarted, Dispatch, ExecuteTurn,
                Adjudicate, EmitRunFinished, FinishMessage, FinishLease, FailMessage,
                FailAppend, FallbackFinish, Lookup, TryAppend
<1>4. ASSUME NEW c \in Clients,
             \/ ClientStep(c) \/ RequestControl(c) \/ Subscribe(c) \/ RequestCrash(c)
      PROVE  UNCHANGED starter
    BY <1>4 DEF ClientStep, AppendControl, ProjectRequest, RequestControl, Subscribe,
                RequestCrash
<1>5. ClockTick \/ UNCHANGED vars => UNCHANGED starter
    BY DEF ClockTick, vars
<1> HIDE DEF Reports
<1>6. Reports
    BY <1>1, <1>2, <1>3, <1>4, <1>5, Zenon DEF Next
<1>7. QED
    BY <1>6 DEF Reports

(* Every step keeps a start alone with its failure.                         *)
LEMMA FailsAloneStep ==
    ASSUME "RunCancelled" \notin ControlKinds, TypeOK, BatchInJournal, Starting,
           StartsFailAlone, [Next]_vars
    PROVE  StartsFailAlone'
<1> SUFFICES ASSUME NEW r \in Runs PROVE FailsAlone(r)'
    BY DEF StartsFailAlone
<1>1. FailsAlone(r)
    BY DEF StartsFailAlone
<1>2. ASSUME starter'[r].step # "done", NEW i \in 1..Len(journal'[r]),
             StateOf(journal'[r][i].kind) \in TerminalStates
      PROVE  StateOf(journal'[r][i].kind) = "failed"
    <2>1. starter[r].step # "done"
        BY <1>2, StarterDone
    <2>2. Idle(r)
        BY <2>1 DEF Starting
    <2>3. CASE i \in 1..Len(journal[r]) /\ journal'[r][i] = journal[r][i]
        BY <1>1, <1>2, <2>1, <2>3 DEF FailsAlone
    <2>4. ASSUME NEW e \in Events, Writes(r, e), journal'[r][i] = e
          PROVE  StateOf(journal'[r][i].kind) = "failed"
        BY <1>2, <2>2, <2>4, StartWrites
    <2>5. \/ i \in 1..Len(journal[r]) /\ journal'[r][i] = journal[r][i]
          \/ \E e \in Events : Writes(r, e) /\ journal'[r][i] = e
        <3>1. CASE UNCHANGED journal
            BY <1>2, <3>1
        <3>2. ASSUME NEW q \in Runs, NEW e \in Events, AppendEvent(q, e), Writes(q, e)
              PROVE  \/ i \in 1..Len(journal[r]) /\ journal'[r][i] = journal[r][i]
                     \/ \E f \in Events : Writes(r, f) /\ journal'[r][i] = f
            <4>1. \/ i \in 1..Len(journal[r]) /\ journal'[r][i] = journal[r][i]
                  \/ r = q /\ journal'[r][i] = e
                BY <1>2, <3>2, NewEvent
            <4>2. QED
                BY <3>2, <4>1, Zenon
        <3>3. QED
            BY <3>1, <3>2, JournalMoves
    <2>6. QED
        BY <2>3, <2>4, <2>5
<1>3. ASSUME starter'[r].step = "failProject"
      PROVE  journal'[r][starter'[r].seq].kind = "VerificationFailed"
    <2>1. CASE starter'[r] = starter[r]
        <3>1. starter[r].seq \in 1..Len(journal[r])
            BY <1>3, <2>1 DEF BatchInJournal
        <3>2. journal'[r][starter[r].seq] = journal[r][starter[r].seq]
            BY <3>1, JournalKept
        <3>3. QED
            BY <1>1, <1>3, <2>1, <3>2 DEF FailsAlone
    <2>2. CASE StartFailAppend(r) /\ starter'[r].seq = Len(journal[r]) + 1
        <3> DEFINE e == Event("VerificationFailed", "start-failed", 0)
        <3>1. AppendEvent(r, e) /\ e \in Events
            BY <2>2, FixedEventTypes DEF StartFailAppend
        <3>2. e.kind = "VerificationFailed"
            BY DEF Event
        <3> HIDE DEF e
        <3>3. journal'[r][Len(journal[r]) + 1] = e
            BY <3>1, AppendFacts
        <3>4. QED
            BY <2>2, <3>2, <3>3
    <2>3. QED
        BY <1>3, <2>1, <2>2, StartReports
<1>4. QED
    BY <1>2, <1>3 DEF FailsAlone

(* A journal in which a turn start is alone with its failure is rebuilt so. *)
LEMMA FailedStartRebuilds ==
    ASSUME TypeOK, BatchInJournal, Starting, StartsFailAlone,
           NEW r \in Runs, starter[r].step = "failProject"
    PROVE  StateAfter("queued", journal[r]) = "failed"
<1> DEFINE n == starter[r].seq
<1>1. n \in 1..Len(journal[r]) /\ journal[r][n].kind = "VerificationFailed"
    BY DEF BatchInJournal, StartsFailAlone, FailsAlone
<1>2. StateOf(journal[r][n].kind) \in TerminalStates
    BY <1>1 DEF StateOf, TerminalStates
<1>3. \A i \in 1..Len(journal[r]) :
          StateOf(journal[r][i].kind) \in TerminalStates => StateOf(journal[r][i].kind) = "failed"
    BY DEF StartsFailAlone, FailsAlone
<1>4. journal[r] \in Seq(Events) /\ "queued" \notin TerminalStates
    BY DEF TypeOK, TerminalStates
<1> HIDE DEF n
<1>5. \E i \in 1..Len(journal[r]) : StateOf(journal[r][i].kind) \in TerminalStates
    BY <1>1, <1>2
<1>6. QED
    BY <1>3, <1>4, <1>5, BatchEnds

(* Where a run's journal ends it, it still does after another event.        *)
LEMMA EndOutlives ==
    ASSUME TypeOK, BatchInJournal, [Next]_vars, NEW r \in Runs,
           StateAfter("queued", journal[r]) \in TerminalStates
    PROVE  StateAfter("queued", journal'[r]) = StateAfter("queued", journal[r])
<1>1. journal[r] \in Seq(Events) /\ "queued" \in RunStates
    BY DEF TypeOK, RunStates, ActiveStates
<1>2. ASSUME NEW q \in Runs, NEW e \in Events, AppendEvent(q, e)
      PROVE  journal'[r] = journal[r] \/ journal'[r] = Append(journal[r], e)
    BY <1>2 DEF AppendEvent, TypeOK
<1>3. ASSUME NEW e \in Events, journal'[r] = Append(journal[r], e)
      PROVE  StateAfter("queued", journal'[r]) = StateAfter("queued", journal[r])
    BY <1>1, <1>3, StateAfterAppend DEF Merge
<1>4. QED
    BY <1>2, <1>3, JournalMoves

(* What a tick projects of a journal it has read from the beginning.        *)
LEMMA ApplyRebuilds ==
    ASSUME TypeOK, BatchInJournal, NEW t \in Supervisors, NEW r \in Runs, held[t].run = r,
           ApplyJournal(t), proj[r].state \notin TerminalStates,
           proj'[r].state \in TerminalStates
    PROVE  StateAfter("queued", journal[r]) = proj'[r].state
<1> DEFINE n == seen[t]
           batch == SubSeq(journal[r], 1, n)
<1>1. /\ n \in Nat /\ n <= Len(journal[r])
      /\ journal[r] \in Seq(Events) /\ Len(journal[r]) \in Nat
    BY DEF ApplyJournal, BatchInJournal, TypeOK
<1>2. Project(r, 1, n, FALSE)
    BY DEF ApplyJournal
<1> HIDE DEF n
<1>3. ~ (1 > n)
    BY <1>2 DEF Project
<1>4. proj'[r].state = StateAfter(proj[r].state, batch)
    BY <1>2, <1>3 DEF Project, TypeOK
<1>5. batch \in Seq(Events) /\ n \in 0..Len(journal[r])
    BY <1>1
<1>6. "queued" \notin TerminalStates /\ "queued" \in RunStates
    BY DEF TerminalStates, RunStates, ActiveStates
<1> HIDE DEF batch
<1>7. StateAfter("queued", batch) = proj'[r].state
    BY <1>4, <1>5, <1>6, SameEnd
<1>8. StateAfter("queued", journal[r]) = StateAfter("queued", batch)
    BY <1>1, <1>5, <1>6, <1>7, EndOfPrefix DEF batch
<1>9. QED
    BY <1>7, <1>8

(* Every step keeps the live state and the rebuilt one together.            *)
LEMMA RebuildStep ==
    ASSUME InOrder, TypeInv, LeaseInv, EvidenceInv, SoleInv, Holding, StickyInv, Starting,
           StartsFailAlone, RebuildEqualsLive, [Next]_vars
    PROVE  RebuildEqualsLive'
<1> USE DEF TypeInv
<1> SUFFICES ASSUME NEW r \in Runs, proj'[r].state \in TerminalStates
             PROVE  StateAfter("queued", journal'[r]) = proj'[r].state
    BY DEF RebuildEqualsLive
<1>1. SUFFICES StateAfter("queued", journal[r]) = proj'[r].state
    BY EndOutlives
<1>2. CASE proj'[r].state = proj[r].state
    BY <1>2 DEF RebuildEqualsLive
<1>3. CASE proj'[r].state # proj[r].state
    <2>1. /\ proj'[r].state \notin {"queued", "running"}
          /\ \/ proj[r].state \notin TerminalStates /\ Projects(r)
             \/ proj'[r].state = "failed" /\ Overwrites(r)
        BY <1>3, StateMoves DEF TerminalStates
    <2>2. CASE StartFailProject(r) /\ proj[r].state \notin TerminalStates
        <3> DEFINE n == starter[r].seq
                   batch == SubSeq(journal[r], n, n)
        <3>1. starter[r].step = "failProject"
            BY <2>2 DEF StartFailProject
        <3>2. /\ n \in 1..Len(journal[r]) /\ journal[r][n].kind = "VerificationFailed"
              /\ journal[r] \in Seq(Events)
            BY <3>1 DEF BatchInJournal, StartsFailAlone, FailsAlone, TypeOK
        <3>3. Project(r, n, n, FALSE)
            BY <2>2 DEF StartFailProject
        <3> HIDE DEF n
        <3>4. proj'[r].state = StateAfter(proj[r].state, batch)
            BY <3>2, <3>3 DEF Project, TypeOK
        <3>5. /\ batch \in Seq(Events) /\ Len(batch) = 1
              /\ batch[1].kind = "VerificationFailed"
            BY <3>2, OneEvent
        <3> HIDE DEF batch
        <3>6. StateOf(batch[1].kind) = "failed" /\ "failed" \in TerminalStates
            BY <3>5 DEF StateOf, TerminalStates
        <3>7. StateAfter(proj[r].state, batch) = "failed"
            <4>1. \A i \in 1..Len(batch) : i = 1
                BY <3>5
            <4>2. \A i \in 1..Len(batch) : StateOf(batch[i].kind) = "failed"
                BY <3>6, <4>1
            <4>3. \E i \in 1..Len(batch) : StateOf(batch[i].kind) \in TerminalStates
                BY <3>5, <3>6
            <4> DEFINE state == proj[r].state
            <4>4. state \notin TerminalStates
                BY <2>2
            <4> HIDE DEF state
            <4>5. StateAfter(state, batch) = "failed"
                BY <3>5, <4>2, <4>3, <4>4, BatchEnds
            <4>6. QED
                BY <4>5 DEF state
        <3>8. QED
            BY <3>1, <3>4, <3>7, FailedStartRebuilds
    <2>3. CASE StartFailureFails(r) /\ starter[r].step = "failProject"
                 /\ proj'[r].state = "failed"
        BY <2>3, FailedStartRebuilds
    <2>4. ASSUME NEW t \in Supervisors, ApplyJournal(t), held[t].run = r,
                 proj[r].state \notin TerminalStates
          PROVE  StateAfter("queued", journal[r]) = proj'[r].state
        BY <2>4, ApplyRebuilds
    <2>5. ASSUME NEW t \in Supervisors, FallbackFinish(t)
          PROVE  FALSE
        BY <2>5 DEF FallbackFinish, At, StickyInv, NoFallback
    <2>6. ASSUME NEW c \in Clients, ProjectRequest(c), request[c].run = r,
                 proj[r].state \notin TerminalStates
          PROVE  FALSE
        BY <2>6, ControlEndsNothing DEF InOrder, StickyInv
    <2>7. QED
        BY <2>1, <2>2, <2>3, <2>4, <2>5, <2>6 DEF Projects, Overwrites
<1>4. QED
    BY <1>2, <1>3

(* Where starts are over before ticks begin, a start keeps to itself.       *)
LEMMA StartingInvariance ==
    ASSUME InOrder
    PROVE  Spec => [](Starting /\ StartsFailAlone)
<1> DEFINE Apart == Starting /\ StartsFailAlone
<1>1. Init => Apart
    <2> SUFFICES ASSUME Init PROVE Apart
        OBVIOUS
    <2>1. Starting
        BY DEF Init, Starting, Idle, Working, TerminalStates
    <2>2. StartsFailAlone
        BY DEF Init, StartsFailAlone, FailsAlone
    <2>3. QED
        BY <2>1, <2>2
<1>2. Undisturbed /\ ArmsHold
    BY DEF InOrder, ArmsHold
<1>3. TypeInv /\ SoleInv /\ StickyInv /\ Apart /\ [Next]_vars => Apart'
    BY StartingStep, FailsAloneStep DEF TypeInv, StickyInv, InOrder
<1> HIDE DEF Apart
<1>4. Spec => []Apart
    BY <1>1, <1>2, <1>3, TypeInvariance, SoleInvariance, StickyInvariance, PTL DEF Spec
<1>5. QED
    BY <1>4 DEF Apart

(* For every number of turns, ticks and clients, where ticks are on time    *)
(* and starts over before them, nobody pauses, cancels or rebuilds and the  *)
(* failure arm does not fail: a rebuild of a finished run from its journal  *)
(* gives the end the live projection has, whatever crashes, errors, failed  *)
(* starts and failed children came before.  The run early_tick shows that   *)
(* it does not where a tick may begin before the start of its turn is over. *)
THEOREM RebuildEqualsLiveHolds ==
    ASSUME InOrder
    PROVE  Spec => []RebuildEqualsLive
<1> DEFINE Around == /\ TypeInv /\ LeaseInv /\ EvidenceInv /\ SoleInv /\ Holding /\ StickyInv
                     /\ Starting /\ StartsFailAlone
<1>1. Undisturbed /\ ArmsHold
    BY DEF InOrder, ArmsHold
<1>2. Init => RebuildEqualsLive
    BY DEF Init, RebuildEqualsLive, TerminalStates
<1>3. Around /\ RebuildEqualsLive /\ [Next]_vars => RebuildEqualsLive'
    BY RebuildStep
<1>4. Spec => []Around
    BY <1>1, TypeInvariance, LeaseInvariance, EvidenceInvariance, SoleInvariance,
       HoldingInvariance, StickyInvariance, StartingInvariance, PTL
<1> HIDE DEF Around
<1>5. QED
    BY <1>2, <1>3, <1>4, PTL DEF Spec
==============================================================================
