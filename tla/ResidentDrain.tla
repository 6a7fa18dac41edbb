---------------------------- MODULE ResidentDrain -----------------------------
(***************************************************************************)
(* The request loop of the streaming daemon and the wakeups that make it   *)
(* execute accepted turns by itself (crates/opensks-daemon,                *)
(* run_stdio_stream and the resident supervisor).  One thread reads the    *)
(* client's lines and starts a thread for each; a thread whose request     *)
(* accepted a turn ends by draining the queue of turns, as the startup     *)
(* thread does.  They share four atomics: the number of requests in        *)
(* flight, two generation counters and the two flags that coalesce drains. *)
(*                                                                         *)
(* Every action is one atomic operation on a shared variable, or one       *)
(* supervisor tick; what a tick does inside is module TurnSupervisor.      *)
(***************************************************************************)
EXTENDS Integers, FiniteSets

CONSTANTS
    TurnStarts,         \* lines with a conversation turn start request
    ExplicitTicks,      \* lines with a conversation supervisor tick request
    Startup,            \* the startup drain thread
    HasStore,           \* the conversation store existed at startup
    Backlog,            \* turns queued by an earlier daemon
    MaxPending,         \* MAX_PENDING_STREAM_REQUESTS
    MaxDrainTicks       \* RESIDENT_SUPERVISOR_MAX_DRAIN_TICKS

Requests == TurnStarts \cup ExplicitTicks
Threads == Requests \cup {Startup}

ASSUME ResidentDrainAssumption ==
    /\ IsFiniteSet(Requests)
    /\ TurnStarts \cap ExplicitTicks = {}
    /\ Startup \notin Requests
    /\ HasStore \in BOOLEAN
    /\ Backlog \in Nat
    /\ HasStore \/ Backlog = 0
    /\ MaxPending \in Nat \ {0}
    /\ MaxDrainTicks \in Nat \ {0}

VARIABLES
    queued,             \* turns a tick can claim
    activeRequests,     \* active_requests
    tickGen,            \* explicit_supervisor_tick_generation
    claimGen,           \* explicit_supervisor_claim_generation
    active,             \* ResidentSupervisorDrainState.active
    requested,          \* ResidentSupervisorDrainState.requested
    pc,                 \* what each thread does next
    tickSeen,           \* explicit_tick_generation_at_dispatch
    claimSeen,          \* explicit_claim_generation_at_dispatch
    ticks               \* claims in the current pass of each drain

vars == <<queued, activeRequests, tickGen, claimGen, active, requested, pc,
          tickSeen, claimSeen, ticks>>

WithReader == {"admitted", "counted"}
InFlight == {"counted", "running", "claimed", "accepted", "answered"}
Draining == {"begin", "drain", "recheck", "leave"}
Ended == {"refused", "served", "suppressed", "gave up", "coalesced", "drained"}
Places == {"unread"} \cup WithReader \cup InFlight \cup Draining \cup Ended
          \cup {"debounce", "grace", "quiesce", "decide",
                "wakeup", "enter", "collect", "reenter"}

Goto(t, place) == pc' = [pc EXCEPT ![t] = place]

TypeOK ==
    /\ queued \in Nat
    /\ activeRequests \in Nat
    /\ tickGen \in Nat
    /\ claimGen \in Nat
    /\ active \in BOOLEAN
    /\ requested \in BOOLEAN
    /\ pc \in [Threads -> Places]
    /\ tickSeen \in [Requests -> Nat]
    /\ claimSeen \in [Requests -> Nat]
    /\ ticks \in [Threads -> 0..MaxDrainTicks]

Init ==
    /\ queued = Backlog
    /\ activeRequests = 0
    /\ tickGen = 0
    /\ claimGen = 0
    /\ active = FALSE
    /\ requested = FALSE
    /\ pc = [t \in Threads |->
               IF t # Startup THEN "unread"
               ELSE IF HasStore THEN "debounce" ELSE "served"]
    /\ tickSeen = [r \in Requests |-> 0]
    /\ claimSeen = [r \in Requests |-> 0]
    /\ ticks = [t \in Threads |-> 0]

------------------------------------------------------------------------------
(* The reader takes one line at a time.                                    *)

(* Mutant: the limit is off by one.                                        *)
ReadLineAtLimit(r) ==
    /\ pc[r] = "unread"
    /\ \A s \in Requests : pc[s] \notin WithReader
    /\ Goto(r, IF activeRequests > MaxPending THEN "refused" ELSE "admitted")
    /\ UNCHANGED <<queued, activeRequests, tickGen, claimGen, active, requested,
                   tickSeen, claimSeen, ticks>>

ReadLine(r) ==
    /\ pc[r] = "unread"
    /\ \A s \in Requests : pc[s] \notin WithReader
    /\ Goto(r, IF activeRequests >= MaxPending THEN "refused" ELSE "admitted")
    /\ UNCHANGED <<queued, activeRequests, tickGen, claimGen, active, requested,
                   tickSeen, claimSeen, ticks>>

(* Mutant: the request is not counted.                                     *)
CountRequestNot(r) ==
    /\ pc[r] = "admitted"
    /\ Goto(r, "counted")
    /\ UNCHANGED <<queued, activeRequests, tickGen, claimGen, active, requested,
                   tickSeen, claimSeen, ticks>>

CountRequest(r) ==
    /\ pc[r] = "admitted"
    /\ activeRequests' = activeRequests + 1
    /\ Goto(r, "counted")
    /\ UNCHANGED <<queued, tickGen, claimGen, active, requested, tickSeen,
                   claimSeen, ticks>>

(* The reader alone writes the tick generation, so its load, the load of   *)
(* the claim generation and its increment are one step.                    *)
Dispatch(r) ==
    /\ pc[r] = "counted"
    /\ tickSeen' = [tickSeen EXCEPT ![r] = tickGen]
    /\ claimSeen' = [claimSeen EXCEPT ![r] = claimGen]
    /\ tickGen' = IF r \in ExplicitTicks THEN tickGen + 1 ELSE tickGen
    /\ Goto(r, "running")
    /\ UNCHANGED <<queued, activeRequests, claimGen, active, requested, ticks>>

------------------------------------------------------------------------------
(* The thread of a request: request_lines, then the response.              *)

(* An idempotent retry is accepted without a new turn.                     *)
StartTurn(r) ==
    /\ r \in TurnStarts
    /\ pc[r] = "running"
    /\ \/ queued' = queued + 1 /\ Goto(r, "accepted")
       \/ queued' = queued /\ Goto(r, "accepted")
       \/ queued' = queued /\ Goto(r, "answered")
    /\ UNCHANGED <<activeRequests, tickGen, claimGen, active, requested,
                   tickSeen, claimSeen, ticks>>

(* It claims nothing when nothing is queued, when it names a run that is   *)
(* not, and when it fails.                                                 *)
ExplicitTick(r) ==
    /\ r \in ExplicitTicks
    /\ pc[r] = "running"
    /\ \/ queued > 0 /\ queued' = queued - 1 /\ Goto(r, "claimed")
       \/ queued' = queued /\ Goto(r, "answered")
    /\ UNCHANGED <<activeRequests, tickGen, claimGen, active, requested,
                   tickSeen, claimSeen, ticks>>

CountClaim(r) ==
    /\ pc[r] = "claimed"
    /\ claimGen' = claimGen + 1
    /\ Goto(r, "answered")
    /\ UNCHANGED <<queued, activeRequests, tickGen, active, requested, tickSeen,
                   claimSeen, ticks>>

Answer(r) ==
    /\ pc[r] \in {"accepted", "answered"}
    /\ activeRequests' = activeRequests - 1
    /\ Goto(r, IF pc[r] = "accepted" THEN "debounce" ELSE "served")
    /\ UNCHANGED <<queued, tickGen, claimGen, active, requested, tickSeen,
                   claimSeen, ticks>>

------------------------------------------------------------------------------
(* The wait before a drain: an explicit tick read since the request was    *)
(* dispatched is given the time to claim the turn itself.                  *)

Debounce(t) ==
    /\ pc[t] = "debounce"
    /\ Goto(t, IF t = Startup THEN "quiesce"
               ELSE IF tickGen # tickSeen[t] THEN "grace" ELSE "decide")
    /\ UNCHANGED <<queued, activeRequests, tickGen, claimGen, active, requested,
                   tickSeen, claimSeen, ticks>>

Grace(t) ==
    /\ pc[t] = "grace"
    /\ Goto(t, IF claimGen # claimSeen[t] THEN "suppressed" ELSE "quiesce")
    /\ UNCHANGED <<queued, activeRequests, tickGen, claimGen, active, requested,
                   tickSeen, claimSeen, ticks>>

(* wait_for_stream_request_quiescence gives up at its deadline, which may  *)
(* pass at any poll that still finds a request in flight.                  *)
Quiesce(t) ==
    /\ pc[t] = "quiesce"
    /\ \/ /\ activeRequests = 0
          /\ Goto(t, IF t = Startup THEN "wakeup" ELSE "decide")
       \/ /\ activeRequests > 0
          /\ Goto(t, "gave up")
    /\ UNCHANGED <<queued, activeRequests, tickGen, claimGen, active, requested,
                   tickSeen, claimSeen, ticks>>

Decide(t) ==
    /\ pc[t] = "decide"
    /\ Goto(t, IF claimGen # claimSeen[t] THEN "suppressed" ELSE "wakeup")
    /\ UNCHANGED <<queued, activeRequests, tickGen, claimGen, active, requested,
                   tickSeen, claimSeen, ticks>>

------------------------------------------------------------------------------
(* resident_supervisor_coalesced_drain_lines                               *)

(* Mutant: the bit is left to the thread that becomes the drainer.         *)
RequestDrainNot(t) ==
    /\ pc[t] = "wakeup"
    /\ Goto(t, "enter")
    /\ UNCHANGED <<queued, activeRequests, tickGen, claimGen, active, requested,
                   tickSeen, claimSeen, ticks>>

RequestDrain(t) ==
    /\ pc[t] = "wakeup"
    /\ requested' = TRUE
    /\ Goto(t, "enter")
    /\ UNCHANGED <<queued, activeRequests, tickGen, claimGen, active, tickSeen,
                   claimSeen, ticks>>

(* Mutant: a store in place of the exchange.                               *)
TakeOverAlways(t, from, otherwise) ==
    /\ pc[t] = from
    /\ active' = TRUE
    /\ Goto(t, "begin")
    /\ UNCHANGED <<queued, activeRequests, tickGen, claimGen, requested,
                   tickSeen, claimSeen, ticks>>

(* compare_exchange(false, true), first and after leaving                  *)
TakeOver(t, from, otherwise) ==
    /\ pc[t] = from
    /\ active' = TRUE
    /\ Goto(t, IF active THEN otherwise ELSE "begin")
    /\ UNCHANGED <<queued, activeRequests, tickGen, claimGen, requested,
                   tickSeen, claimSeen, ticks>>

Enter(t) == TakeOver(t, "enter", "coalesced")
Reenter(t) == TakeOver(t, "reenter", "drained")

(* Mutant: a pass leaves the bit it serves.                                *)
BeginPassKeepingBit(t) ==
    /\ pc[t] = "begin"
    /\ ticks' = [ticks EXCEPT ![t] = 0]
    /\ Goto(t, "drain")
    /\ UNCHANGED <<queued, activeRequests, tickGen, claimGen, active, requested,
                   tickSeen, claimSeen>>

BeginPass(t) ==
    /\ pc[t] = "begin"
    /\ requested' = FALSE
    /\ ticks' = [ticks EXCEPT ![t] = 0]
    /\ Goto(t, "drain")
    /\ UNCHANGED <<queued, activeRequests, tickGen, claimGen, active, tickSeen,
                   claimSeen>>

(* One resident tick of resident_supervisor_drain_lines.  The pass ends    *)
(* with the first tick that claims nothing and after MaxDrainTicks.  A     *)
(* tick that answers with an error cuts it short as the cap does.          *)
DrainTick(t) ==
    /\ pc[t] = "drain"
    /\ \/ /\ queued > 0
          /\ queued' = queued - 1
          /\ ticks' = [ticks EXCEPT ![t] = @ + 1]
          /\ Goto(t, IF ticks'[t] = MaxDrainTicks THEN "recheck" ELSE "drain")
       \/ /\ queued = 0
          /\ Goto(t, "recheck")
          /\ UNCHANGED <<queued, ticks>>
       \/ /\ ticks' = [ticks EXCEPT ![t] = MaxDrainTicks]
          /\ Goto(t, "recheck")
          /\ UNCHANGED queued
    /\ UNCHANGED <<activeRequests, tickGen, claimGen, active, requested,
                   tickSeen, claimSeen>>

Recheck(t) ==
    /\ pc[t] = "recheck"
    /\ Goto(t, IF requested THEN "begin" ELSE "leave")
    /\ UNCHANGED <<queued, activeRequests, tickGen, claimGen, active, requested,
                   tickSeen, claimSeen, ticks>>

(* Mutant: a drainer that has left does not look at the bit again.         *)
LeaveForGood(t) ==
    /\ pc[t] = "leave"
    /\ active' = FALSE
    /\ Goto(t, "drained")
    /\ UNCHANGED <<queued, activeRequests, tickGen, claimGen, requested,
                   tickSeen, claimSeen, ticks>>

Leave(t) ==
    /\ pc[t] = "leave"
    /\ active' = FALSE
    /\ Goto(t, "collect")
    /\ UNCHANGED <<queued, activeRequests, tickGen, claimGen, requested,
                   tickSeen, claimSeen, ticks>>

(* requested.swap(false)                                                   *)
Collect(t) ==
    /\ pc[t] = "collect"
    /\ requested' = FALSE
    /\ Goto(t, IF requested THEN "reenter" ELSE "drained")
    /\ UNCHANGED <<queued, activeRequests, tickGen, claimGen, active, tickSeen,
                   claimSeen, ticks>>

Reader(r) == ReadLine(r) \/ CountRequest(r) \/ Dispatch(r)
Serve(r) == StartTurn(r) \/ ExplicitTick(r) \/ CountClaim(r) \/ Answer(r)
Wait(t) == Debounce(t) \/ Grace(t) \/ Quiesce(t) \/ Decide(t)
Drain(t) ==
    \/ RequestDrain(t) \/ Enter(t) \/ BeginPass(t) \/ DrainTick(t)
    \/ Recheck(t) \/ Leave(t) \/ Collect(t) \/ Reenter(t)

Next ==
    \/ \E r \in Requests : Reader(r) \/ Serve(r)
    \/ \E t \in Threads : Wait(t) \/ Drain(t)

(* The operating system runs every thread that can run; the client need    *)
(* not send a line.                                                        *)
Fairness ==
    /\ \A r \in Requests : WF_vars(CountRequest(r) \/ Dispatch(r) \/ Serve(r))
    /\ \A t \in Threads : WF_vars(Wait(t) \/ Drain(t))

Spec == Init /\ [][Next]_vars
FairSpec == Spec /\ Fairness

------------------------------------------------------------------------------
(* No two threads drain at once, and the active flag says whether one      *)
(* does: it is never left set by a drain that ended, which would switch    *)
(* resident execution off until the daemon restarts.                       *)
OneDrainer ==
    /\ active <=> \E t \in Threads : pc[t] \in Draining
    /\ \A t, u \in Threads :
          pc[t] \in Draining /\ pc[u] \in Draining => t = u

(* A pending request bit always has a thread that will still act on it:    *)
(* the one that set it and is about to try to become the drainer, the      *)
(* drainer, or one that has left and is about to collect the bit.          *)
RequestHasTaker ==
    requested => \E t \in Threads : pc[t] \in Draining \cup {"enter", "collect"}

(* The counter behind backpressure counts the requests in flight, however  *)
(* their answers interleave with the reader's check, and respects its      *)
(* limit although check and increment are two steps.                       *)
AdmissionBounded ==
    /\ activeRequests = Cardinality({r \in Requests : pc[r] \in InFlight})
    /\ Cardinality({r \in Requests : pc[r] \in InFlight \cup {"admitted"}})
           <= MaxPending

Quiet == \A t \in Threads : pc[t] \in Ended \cup {"unread"}
Woken == {t \in Threads : pc[t] \in {"coalesced", "drained"}}

(* What each wakeup owes to the queue, apart from the documented ways out: *)
(* an explicit tick that claimed work, the quiescence deadline, the cap of *)
(* a pass and a failing tick.                                              *)
NoWayOut ==
    /\ \A t \in Threads : pc[t] \notin {"suppressed", "gave up"}
    /\ \A t \in Threads : ticks[t] < MaxDrainTicks

(* When everything has come to rest after at most two wakeups, no accepted *)
(* turn is left in the queue: the handshake of the two flags loses no      *)
(* request between two threads.                                            *)
PairNeverStrands ==
    Quiet /\ NoWayOut /\ Cardinality(Woken) <= 2 => queued = 0

(* The same for any number of wakeups, as the ledger says of overlapping   *)
(* resident wakeups: new work that arrives during an active pass sets a    *)
(* pending request bit for a follow-up drain pass.                         *)
NoTurnStranded == Quiet /\ NoWayOut => queued = 0

(* Everything comes to rest again and again: every line that was read is   *)
(* answered or refused and its thread ends, and the follow-up passes do    *)
(* not keep a drain going when no further wakeup arrives.                  *)
ComesToRest == []<>Quiet
==============================================================================
