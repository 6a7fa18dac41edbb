-------------------------- MODULE ResidentDrainProofs -------------------------
(***************************************************************************)
(* Theorems about ResidentDrain, for any number of request lines, any      *)
(* backlog and any limits.                                                 *)
(*                                                                         *)
(* The flags alone carry the first invariant: the active flag is set by    *)
(* the exchange that makes its thread the drainer and cleared by that      *)
(* thread, so it is set exactly while one drains.  The second needs the    *)
(* first: the exchange of a thread that set the pending bit fails only     *)
(* while there is a drainer, and no drainer ends without passing Collect.  *)
(*                                                                         *)
(* That two wakeups strand no turn needs more (PairInv): a queued turn has *)
(* somebody on the way to drain it, or the bit, or a thread about to reenter *)
(* that finds nobody in its place.  Three wakeups can break the last.      *)
(***************************************************************************)
EXTENDS ResidentDrain, FiniteSetTheorems, TLAPS

InFlightRequests == {r \in Requests : pc[r] \in InFlight}
AdmittedRequests == {r \in Requests : pc[r] \in InFlight \cup {"admitted"}}

(* A drain is at a tick only while its pass has ticks left.                *)
TicksLeft == \A t \in Threads : pc[t] = "drain" => ticks[t] < MaxDrainTicks

Inv ==
    /\ TypeOK
    /\ TicksLeft
    /\ AdmissionBounded
    /\ OneDrainer
    /\ RequestHasTaker

USE DEF Requests, Threads

LEMMA Limits ==
    /\ MaxPending \in Nat /\ MaxPending > 0
    /\ MaxDrainTicks \in Nat /\ MaxDrainTicks > 0
    /\ Backlog \in Nat
    /\ Startup \notin Requests
BY ResidentDrainAssumption

LEMMA Initially == Init => Inv
<1> SUFFICES ASSUME Init PROVE Inv
  OBVIOUS
<1> USE Limits DEF Init
<1>1. TypeOK
  <2>1. pc \in [Threads -> Places]
    BY DEF Places, Ended
  <2>2. ticks \in [Threads -> 0..MaxDrainTicks]
    OBVIOUS
  <2> QED
    BY <2>1, <2>2 DEF TypeOK
<1>2. TicksLeft
  BY DEF TicksLeft
<1>3. AdmissionBounded
  <2>1. InFlightRequests = {} /\ AdmittedRequests = {}
    BY DEF InFlightRequests, AdmittedRequests, InFlight
  <2> QED
    BY <2>1, FS_EmptySet DEF AdmissionBounded, InFlightRequests, AdmittedRequests
<1>4. OneDrainer
  BY DEF OneDrainer, Draining
<1>5. RequestHasTaker
  BY DEF RequestHasTaker
<1> QED
  BY <1>1, <1>2, <1>3, <1>4, <1>5 DEF Inv

------------------------------------------------------------------------------
(* The request counter                                                     *)

LEMMA Counting ==
    TypeOK => /\ IsFiniteSet(InFlightRequests)
              /\ IsFiniteSet(AdmittedRequests)
              /\ Cardinality(InFlightRequests) \in Nat
              /\ Cardinality(AdmittedRequests) \in Nat
<1>1. IsFiniteSet(InFlightRequests) /\ IsFiniteSet(AdmittedRequests)
  BY FS_Subset, ResidentDrainAssumption DEF InFlightRequests, AdmittedRequests
<1> QED
  BY <1>1, FS_CardinalityType

(* A step that moves one thread t, when the move does not count, does not  *)
(* change the two sets.                                                    *)
LEMMA SameCount ==
    ASSUME Inv, NEW t \in Threads, NEW place, Goto(t, place),
           pc[t] \in InFlight <=> place \in InFlight,
           pc[t] \in InFlight \cup {"admitted"}
               <=> place \in InFlight \cup {"admitted"},
           activeRequests' = activeRequests
    PROVE  AdmissionBounded'
<1>1. pc \in [Threads -> Places] /\ pc' = [pc EXCEPT ![t] = place]
  BY DEF Inv, TypeOK, Goto
<1>2. InFlightRequests' = InFlightRequests /\ AdmittedRequests' = AdmittedRequests
  BY <1>1 DEF InFlightRequests, AdmittedRequests
<1> QED
  BY <1>2 DEF Inv, AdmissionBounded, InFlightRequests, AdmittedRequests

(* The reader admits a line only below the limit and with no other line in *)
(* its hands.                                                              *)
LEMMA AdmitCounts ==
    ASSUME Inv, NEW r \in Requests, ReadLine(r), activeRequests < MaxPending
    PROVE  AdmissionBounded'
<1>0. ~(activeRequests >= MaxPending) /\ activeRequests \in Nat
  BY Limits DEF Inv, TypeOK
<1>1. pc \in [Threads -> Places] /\ pc' = [pc EXCEPT ![r] = "admitted"]
  BY <1>0, Zenon DEF Inv, TypeOK, ReadLine, Goto
<1>2. InFlightRequests' = InFlightRequests
  BY <1>1 DEF InFlightRequests, InFlight, ReadLine
<1>3. AdmittedRequests' = InFlightRequests \cup {r} /\ r \notin InFlightRequests
  BY <1>1 DEF InFlightRequests, AdmittedRequests, InFlight, WithReader, ReadLine
<1>4. Cardinality(AdmittedRequests') = Cardinality(InFlightRequests) + 1
  BY <1>3, Counting, FS_AddElement DEF Inv
<1>5. activeRequests = Cardinality(InFlightRequests) /\ activeRequests' = activeRequests
  BY DEF Inv, AdmissionBounded, InFlightRequests, ReadLine
<1>6. /\ activeRequests' = Cardinality(InFlightRequests')
      /\ Cardinality(AdmittedRequests') <= MaxPending
  BY <1>0, <1>2, <1>4, <1>5, Limits
<1> QED
  BY <1>6 DEF AdmissionBounded, InFlightRequests, AdmittedRequests

LEMMA CountCounts ==
    ASSUME Inv, NEW r \in Requests, CountRequest(r)
    PROVE  AdmissionBounded'
<1>1. pc \in [Threads -> Places] /\ pc' = [pc EXCEPT ![r] = "counted"]
  BY DEF Inv, TypeOK, CountRequest, Goto
<1>2. AdmittedRequests' = AdmittedRequests
  BY <1>1 DEF AdmittedRequests, InFlight, CountRequest
<1>3. InFlightRequests' = InFlightRequests \cup {r} /\ r \notin InFlightRequests
  BY <1>1 DEF InFlightRequests, InFlight, CountRequest
<1>4. Cardinality(InFlightRequests') = Cardinality(InFlightRequests) + 1
  BY <1>3, Counting, FS_AddElement DEF Inv
<1> QED
  BY <1>2, <1>4
  DEF Inv, AdmissionBounded, InFlightRequests, AdmittedRequests, CountRequest

(* The counter of a request that is answered is at least one.              *)
LEMMA AnswerCounts ==
    ASSUME Inv, NEW r \in Requests, Answer(r)
    PROVE  AdmissionBounded' /\ activeRequests' \in Nat
<1> DEFINE place == IF pc[r] = "accepted" THEN "debounce" ELSE "served"
<1>1. pc \in [Threads -> Places] /\ pc' = [pc EXCEPT ![r] = place]
  BY DEF Inv, TypeOK, Answer, Goto
<1>2. place \notin InFlight \cup {"admitted"}
  BY DEF InFlight
<1> HIDE DEF place
<1>3. /\ InFlightRequests' = InFlightRequests \ {r}
      /\ AdmittedRequests' = AdmittedRequests \ {r}
      /\ r \in InFlightRequests
      /\ r \in AdmittedRequests
  BY <1>1, <1>2 DEF InFlightRequests, AdmittedRequests, InFlight, Answer
<1>4. /\ Cardinality(InFlightRequests') = Cardinality(InFlightRequests) - 1
      /\ Cardinality(AdmittedRequests') = Cardinality(AdmittedRequests) - 1
      /\ IsFiniteSet(InFlightRequests')
  BY <1>3, Counting, FS_RemoveElement DEF Inv
<1>5. Cardinality(InFlightRequests') \in Nat
  BY <1>4, FS_CardinalityType
<1>6. /\ activeRequests = Cardinality(InFlightRequests)
      /\ Cardinality(AdmittedRequests) <= MaxPending
      /\ activeRequests' = activeRequests - 1
  BY DEF Inv, AdmissionBounded, InFlightRequests, AdmittedRequests, Answer
<1>7. Cardinality(AdmittedRequests') <= MaxPending
  BY <1>4, <1>6, Counting, ResidentDrainAssumption DEF Inv
<1> QED
  BY <1>4, <1>5, <1>6, <1>7 DEF AdmissionBounded, InFlightRequests, AdmittedRequests

------------------------------------------------------------------------------
(* The two flags.  A step that keeps them and moves no thread into or out  *)
(* of the places they speak of keeps both invariants.                      *)

Concerned == Draining \cup {"enter", "collect"}

LEMMA FlagsKept ==
    ASSUME Inv, NEW t \in Threads, NEW place, Goto(t, place),
           pc[t] \notin Concerned, place \notin Concerned,
           active' = active, requested' = requested
    PROVE  OneDrainer' /\ RequestHasTaker'
<1>1. pc \in [Threads -> Places] /\ pc' = [pc EXCEPT ![t] = place]
  BY DEF Inv, TypeOK, Goto
<1>2. \A u \in Threads : (pc'[u] \in Draining <=> pc[u] \in Draining)
                         /\ (pc'[u] \in Concerned <=> pc[u] \in Concerned)
  BY <1>1 DEF Concerned
<1> QED
  BY <1>2 DEF Inv, OneDrainer, RequestHasTaker, Concerned

(* The drainer goes from one place of its pass to another.                 *)
LEMMA DrainerKept ==
    ASSUME Inv, NEW t \in Threads, NEW place, Goto(t, place),
           pc[t] \in Draining, place \in Draining, active' = active
    PROVE  OneDrainer' /\ RequestHasTaker'
<1>1. pc \in [Threads -> Places] /\ pc' = [pc EXCEPT ![t] = place]
  BY DEF Inv, TypeOK, Goto
<1>2. \A u \in Threads : pc'[u] \in Draining <=> pc[u] \in Draining
  BY <1>1
<1>3. pc'[t] \in Draining
  BY <1>1
<1> QED
  BY <1>2, <1>3 DEF Inv, OneDrainer, RequestHasTaker

------------------------------------------------------------------------------
(* The steps of the reader and of the request threads                      *)

LEMMA ReaderStep ==
    ASSUME Inv, NEW r \in Requests, Reader(r)
    PROVE  Inv'
<1>1. CASE ReadLine(r)
  <2> DEFINE place == IF activeRequests >= MaxPending THEN "refused" ELSE "admitted"
  <2>1. pc[r] = "unread" /\ Goto(r, place)
    BY <1>1 DEF ReadLine
  <2>2. TypeOK' /\ TicksLeft'
    BY <1>1, <2>1 DEF Inv, TypeOK, TicksLeft, ReadLine, Goto, Places, WithReader, Ended
  <2>3. AdmissionBounded'
    <3>1. CASE activeRequests < MaxPending
      BY <1>1, <3>1, AdmitCounts
    <3>2. CASE ~(activeRequests < MaxPending)
      <4>1. Goto(r, "refused") /\ activeRequests' = activeRequests
        BY Limits, <1>1, <2>1, <3>2 DEF ReadLine, Inv, TypeOK
      <4> QED
        BY <2>1, <4>1, SameCount DEF InFlight
    <3> QED
      BY <3>1, <3>2
  <2>4. OneDrainer' /\ RequestHasTaker'
    BY <1>1, <2>1, FlagsKept DEF ReadLine, Concerned, Draining
  <2> QED
    BY <2>2, <2>3, <2>4 DEF Inv
<1>2. CASE CountRequest(r)
  <2>1. TypeOK' /\ TicksLeft'
    BY <1>2 DEF Inv, TypeOK, TicksLeft, CountRequest, Goto, Places, WithReader
  <2>2. OneDrainer' /\ RequestHasTaker'
    BY <1>2, FlagsKept DEF CountRequest, Concerned, Draining
  <2> QED
    BY <1>2, <2>1, <2>2, CountCounts DEF Inv
<1>3. CASE Dispatch(r)
  <2>1. TypeOK' /\ TicksLeft'
    BY <1>3 DEF Inv, TypeOK, TicksLeft, Dispatch, Goto, Places, InFlight
  <2>2. OneDrainer' /\ RequestHasTaker'
    BY <1>3, FlagsKept DEF Dispatch, Concerned, Draining
  <2>3. AdmissionBounded'
    BY <1>3, SameCount DEF Dispatch, InFlight
  <2> QED
    BY <2>1, <2>2, <2>3 DEF Inv
<1> QED
  BY <1>1, <1>2, <1>3 DEF Reader

LEMMA ServeStep ==
    ASSUME Inv, NEW r \in Requests, Serve(r)
    PROVE  Inv'
<1>1. CASE StartTurn(r) \/ ExplicitTick(r) \/ CountClaim(r)
  <2>1. PICK place \in {"accepted", "claimed", "answered"} :
            /\ Goto(r, place)
            /\ pc[r] \in {"running", "claimed"}
    BY <1>1 DEF StartTurn, ExplicitTick, CountClaim
  <2>2. UNCHANGED <<activeRequests, active, requested, ticks, tickGen, tickSeen, claimSeen>>
    BY <1>1 DEF StartTurn, ExplicitTick, CountClaim
  <2>3. queued' \in Nat /\ claimGen' \in Nat
    BY <1>1 DEF StartTurn, ExplicitTick, CountClaim, Inv, TypeOK
  <2>4. TypeOK' /\ TicksLeft'
    BY <2>1, <2>2, <2>3 DEF Inv, TypeOK, TicksLeft, Goto, Places, InFlight
  <2>5. OneDrainer' /\ RequestHasTaker'
    BY <2>1, <2>2, FlagsKept DEF Concerned, Draining
  <2>6. AdmissionBounded'
    BY <2>1, <2>2, SameCount DEF InFlight
  <2> QED
    BY <2>4, <2>5, <2>6 DEF Inv
<1>2. CASE Answer(r)
  <2> DEFINE place == IF pc[r] = "accepted" THEN "debounce" ELSE "served"
  <2>1. Goto(r, place) /\ pc[r] \in {"accepted", "answered"}
    BY <1>2 DEF Answer
  <2>2. AdmissionBounded' /\ activeRequests' \in Nat
    BY <1>2, AnswerCounts
  <2>3. TypeOK' /\ TicksLeft'
    BY <1>2, <2>1, <2>2 DEF Answer, Inv, TypeOK, TicksLeft, Goto, Places, Ended
  <2>4. OneDrainer' /\ RequestHasTaker'
    BY <1>2, <2>1, FlagsKept DEF Answer, Concerned, Draining
  <2> QED
    BY <2>2, <2>3, <2>4 DEF Inv
<1> QED
  BY <1>1, <1>2 DEF Serve

LEMMA WaitStep ==
    ASSUME Inv, NEW t \in Threads, Wait(t)
    PROVE  Inv'
<1>1. PICK place \in {"quiesce", "grace", "decide", "suppressed", "gave up", "wakeup"} :
          /\ Goto(t, place)
          /\ pc[t] \in {"debounce", "grace", "quiesce", "decide"}
  BY DEF Wait, Debounce, Grace, Quiesce, Decide
<1>2. UNCHANGED <<queued, activeRequests, tickGen, claimGen, active, requested,
                  tickSeen, claimSeen, ticks>>
  BY DEF Wait, Debounce, Grace, Quiesce, Decide
<1>3. TypeOK' /\ TicksLeft'
  BY <1>1, <1>2 DEF Inv, TypeOK, TicksLeft, Goto, Places, Ended
<1>4. OneDrainer' /\ RequestHasTaker'
  BY <1>1, <1>2, FlagsKept DEF Concerned, Draining
<1>5. AdmissionBounded'
  BY <1>1, <1>2, SameCount DEF InFlight
<1> QED
  BY <1>3, <1>4, <1>5 DEF Inv

------------------------------------------------------------------------------
(* The steps of a drain                                                    *)

(* What all of them leave alone, and where they take their thread.         *)
LEMMA DrainFrame ==
    ASSUME Inv, NEW t \in Threads, Drain(t)
    PROVE  TypeOK' /\ TicksLeft' /\ AdmissionBounded'
<1>1. PICK place \in Draining \cup {"enter", "collect", "reenter", "coalesced", "drained"} :
          /\ Goto(t, place)
          /\ pc[t] \in Draining \cup {"wakeup", "enter", "collect", "reenter"}
          /\ place = "drain" => ticks'[t] < MaxDrainTicks
  <2>1. CASE DrainTick(t)
    BY Limits, <2>1 DEF DrainTick, Draining, Inv, TypeOK, TicksLeft
  <2>2. CASE BeginPass(t)
    BY Limits, <2>2 DEF BeginPass, Draining, Inv, TypeOK
  <2>3. CASE \/ RequestDrain(t) \/ Enter(t) \/ Recheck(t)
             \/ Leave(t) \/ Collect(t) \/ Reenter(t)
    BY <2>3 DEF RequestDrain, Enter, Reenter, TakeOver, Recheck, Leave,
                Collect, Draining
  <2> QED
    BY <2>1, <2>2, <2>3 DEF Drain
<1>2. /\ UNCHANGED <<activeRequests, tickGen, claimGen, tickSeen, claimSeen>>
      /\ queued' \in Nat
      /\ active' \in BOOLEAN /\ requested' \in BOOLEAN
      /\ ticks' \in [Threads -> 0..MaxDrainTicks]
      /\ \A u \in Threads \ {t} : ticks'[u] = ticks[u]
  <2>1. CASE DrainTick(t)
    <3>1. ticks[t] \in Nat /\ ticks[t] < MaxDrainTicks /\ queued \in Nat
      BY <2>1 DEF DrainTick, Inv, TypeOK, TicksLeft
    <3>2. ticks \in [Threads -> 0..MaxDrainTicks]
      BY DEF Inv, TypeOK
    <3>3. /\ UNCHANGED <<activeRequests, tickGen, claimGen, tickSeen, claimSeen>>
          /\ active' \in BOOLEAN /\ requested' \in BOOLEAN
      BY <2>1 DEF DrainTick, Inv, TypeOK
    <3>4. PICK n \in 0..MaxDrainTicks :
              ticks' = [ticks EXCEPT ![t] = n] /\ queued' \in Nat
      <4>1. CASE queued > 0 /\ queued' = queued - 1 /\ ticks' = [ticks EXCEPT ![t] = @ + 1]
        <5>1. ticks[t] + 1 \in 0..MaxDrainTicks
          BY <3>1, Limits
        <5>2. ticks' = [ticks EXCEPT ![t] = ticks[t] + 1]
          BY <4>1, Zenon
        <5>3. queued' \in Nat
          BY <3>1, <4>1
        <5> QED
          BY <5>1, <5>2, <5>3, Zenon
      <4>2. CASE UNCHANGED <<queued, ticks>>
        <5>1. ticks' = [ticks EXCEPT ![t] = ticks[t]]
          BY <3>2, <4>2
        <5>2. ticks[t] \in 0..MaxDrainTicks /\ queued' \in Nat
          BY <3>1, <4>2, Limits
        <5> QED
          BY <5>1, <5>2, Zenon
      <4>3. CASE ticks' = [ticks EXCEPT ![t] = MaxDrainTicks] /\ UNCHANGED queued
        <5>1. MaxDrainTicks \in 0..MaxDrainTicks /\ queued' \in Nat
          BY <3>1, <4>3, Limits
        <5> QED
          BY <4>3, <5>1, Zenon
      <4> QED
        BY <2>1, <4>1, <4>2, <4>3, Zenon DEF DrainTick
    <3> QED
      BY <3>2, <3>3, <3>4
  <2>2. CASE BeginPass(t)
    <3>1. 0 \in 0..MaxDrainTicks
      BY Limits
    <3>2. /\ ticks \in [Threads -> 0..MaxDrainTicks]
          /\ ticks' = [ticks EXCEPT ![t] = 0]
      BY <2>2 DEF BeginPass, Inv, TypeOK
    <3>3. /\ UNCHANGED <<activeRequests, tickGen, claimGen, tickSeen, claimSeen>>
          /\ queued' \in Nat
          /\ active' \in BOOLEAN /\ requested' \in BOOLEAN
      BY <2>2 DEF BeginPass, Inv, TypeOK
    <3> QED
      BY <3>1, <3>2, <3>3
  <2>3. CASE \/ RequestDrain(t) \/ Enter(t) \/ Recheck(t)
             \/ Leave(t) \/ Collect(t) \/ Reenter(t)
    BY <2>3 DEF RequestDrain, Enter, Reenter, TakeOver, Recheck, Leave,
                Collect, Inv, TypeOK
  <2> QED
    BY <2>1, <2>2, <2>3 DEF Drain
<1>3. TypeOK'
  BY <1>1, <1>2 DEF Inv, TypeOK, Goto, Places, Ended
<1>4. TicksLeft'
  BY <1>1, <1>2 DEF Inv, TypeOK, TicksLeft, Goto
<1>5. AdmissionBounded'
  BY <1>1, <1>2, SameCount DEF InFlight, Draining
<1> QED
  BY <1>3, <1>4, <1>5

LEMMA DrainFlags ==
    ASSUME Inv, NEW t \in Threads, Drain(t)
    PROVE  OneDrainer' /\ RequestHasTaker'
<1>0. pc \in [Threads -> Places] /\ active \in BOOLEAN
  BY DEF Inv, TypeOK
<1>1. CASE RequestDrain(t)
  <2>1. pc' = [pc EXCEPT ![t] = "enter"] /\ pc[t] = "wakeup" /\ active' = active
    BY <1>1 DEF RequestDrain, Goto
  <2>2. \A u \in Threads : pc'[u] \in Draining <=> pc[u] \in Draining
    BY <1>0, <2>1 DEF Draining
  <2>3. pc'[t] = "enter"
    BY <1>0, <2>1
  <2> QED
    BY <2>1, <2>2, <2>3 DEF Inv, OneDrainer, RequestHasTaker
<1>2. ASSUME NEW from \in {"enter", "reenter"}, NEW otherwise \in {"coalesced", "drained"},
             TakeOver(t, from, otherwise)
      PROVE  OneDrainer' /\ RequestHasTaker'
  <2>1. pc[t] = from /\ active' = TRUE /\ from \notin Draining /\ otherwise \notin Draining
    BY <1>2 DEF TakeOver, Draining
  <2>2. CASE active
    (* somebody drains, and stays *)
    <3>1. PICK u \in Threads : pc[u] \in Draining
      BY <2>2 DEF Inv, OneDrainer
    <3>2. pc' = [pc EXCEPT ![t] = otherwise]
      BY <1>2, <2>2 DEF TakeOver, Goto
    <3>3. \A v \in Threads : pc'[v] \in Draining <=> pc[v] \in Draining
      BY <1>0, <2>1, <3>2
    <3> QED
      BY <2>1, <2>2, <3>1, <3>3 DEF Inv, OneDrainer, RequestHasTaker
  <2>3. CASE ~active
    (* nobody does, and t begins *)
    <3>1. \A u \in Threads : pc[u] \notin Draining
      BY <2>3 DEF Inv, OneDrainer
    <3>2. pc' = [pc EXCEPT ![t] = "begin"]
      BY <1>2, <2>3 DEF TakeOver, Goto
    <3>3. \A u \in Threads : pc'[u] \in Draining <=> u = t
      BY <1>0, <3>1, <3>2 DEF Draining
    <3> QED
      BY <2>1, <3>3 DEF OneDrainer, RequestHasTaker
  <2> QED
    BY <2>2, <2>3
<1>3. CASE Enter(t) \/ Reenter(t)
  BY <1>2, <1>3 DEF Enter, Reenter
<1>4. CASE BeginPass(t) \/ DrainTick(t) \/ Recheck(t)
  <2>1. PICK place \in Draining :
            Goto(t, place) /\ pc[t] \in Draining /\ active' = active
    BY <1>4 DEF BeginPass, DrainTick, Recheck, Draining
  <2> QED
    BY <2>1, DrainerKept
<1>5. CASE Leave(t)
  <2>1. /\ pc[t] = "leave" /\ active' = FALSE
        /\ pc' = [pc EXCEPT ![t] = "collect"]
    BY <1>5 DEF Leave, Goto
  <2>2. \A u \in Threads : pc'[u] \notin Draining
    BY <1>0, <2>1 DEF Draining, Inv, OneDrainer
  <2>3. pc'[t] = "collect"
    BY <1>0, <2>1
  <2> QED
    BY <2>1, <2>2, <2>3 DEF OneDrainer, RequestHasTaker
<1>6. CASE Collect(t)
  <2>1. PICK place \in {"reenter", "drained"} :
            /\ pc[t] = "collect" /\ pc' = [pc EXCEPT ![t] = place]
            /\ active' = active /\ requested' = FALSE
    BY <1>6 DEF Collect, Goto
  <2>2. \A u \in Threads : pc'[u] \in Draining <=> pc[u] \in Draining
    BY <1>0, <2>1 DEF Draining
  <2> QED
    BY <2>1, <2>2 DEF Inv, OneDrainer, RequestHasTaker
<1> QED
  BY <1>1, <1>3, <1>4, <1>5, <1>6 DEF Drain

------------------------------------------------------------------------------
LEMMA Inductive == Inv /\ [Next]_vars => Inv'
<1> SUFFICES ASSUME Inv, [Next]_vars PROVE Inv'
  OBVIOUS
<1>1. CASE UNCHANGED vars
  BY <1>1 DEF vars, Inv, TypeOK, TicksLeft, AdmissionBounded, OneDrainer, RequestHasTaker
<1>2. CASE Next
  <2>1. CASE \E r \in Requests : Reader(r)
    BY <2>1, ReaderStep
  <2>2. CASE \E r \in Requests : Serve(r)
    BY <2>2, ServeStep
  <2>3. CASE \E t \in Threads : Wait(t)
    BY <2>3, WaitStep
  <2>4. CASE \E t \in Threads : Drain(t)
    BY <2>4, DrainFrame, DrainFlags DEF Inv
  <2> QED
    BY <1>2, <2>1, <2>2, <2>3, <2>4 DEF Next
<1> QED
  BY <1>1, <1>2

THEOREM Invariance == Spec => []Inv
BY Initially, Inductive, PTL DEF Spec

(* The counters stay natural numbers and every thread is at a place of its *)
(* code: active_requests, a usize, never wraps below zero.                 *)
THEOREM Typing == Spec => []TypeOK
<1>1. Inv => TypeOK
  BY DEF Inv
<1> QED
  BY <1>1, Invariance, PTL

(* However many wakeups overlap, at most one thread drains, and the active *)
(* flag never outlives it.                                                 *)
THEOREM OneDrainerHolds == Spec => []OneDrainer
<1>1. Inv => OneDrainer
  BY DEF Inv
<1> QED
  BY <1>1, Invariance, PTL

(* However many wakeups overlap, a pending request bit always has a thread *)
(* that will act on it.                                                    *)
THEOREM RequestHasTakerHolds == Spec => []RequestHasTaker
<1>1. Inv => RequestHasTaker
  BY DEF Inv
<1> QED
  BY <1>1, Invariance, PTL

(* However requests are answered, the daemon has at most MaxPending of     *)
(* them in flight, and its counter is right.                               *)
THEOREM AdmissionBoundedHolds == Spec => []AdmissionBounded
<1>1. Inv => AdmissionBounded
  BY DEF Inv
<1> QED
  BY <1>1, Invariance, PTL

------------------------------------------------------------------------------
(* No turn is stranded by two wakeups.  A turn that waits is expected: a    *)
(* thread is on its way to wake the drainer or drains, the pending bit is   *)
(* set, or the thread that collected it is about to drain again and finds   *)
(* nobody else at it.  The last holds of two wakeups and not of three: the  *)
(* thread that set the bit is then the only other one, and drains nothing.  *)

Coming == {"accepted", "debounce", "grace", "quiesce", "decide", "wakeup", "begin", "drain"}
Roused == {t \in Threads : pc[t] \in Concerned \cup {"reenter", "coalesced", "drained"}}
AtMostTwo(S) == \A x, y, z \in S : x = y \/ y = z \/ x = z

Expected ==
    \/ \E t \in Threads : pc[t] \in Coming
    \/ requested
    \/ ~active /\ \E t \in Threads : pc[t] = "reenter"
SetterKnown == requested => \E t \in Threads : pc[t] \in {"enter", "begin", "coalesced"}
PairInv ==
    /\ SetterKnown
    /\ queued > 0 /\ NoWayOut /\ AtMostTwo(Roused) => Expected

(* A thread that moves without being roused takes nobody out of the roused, *)
(* and one that takes no way out leaves none open.                          *)
LEMMA RousedStay ==
    ASSUME Inv, NEW t \in Threads, NEW place, Goto(t, place),
           t \in Roused => place \in Concerned \cup {"reenter", "coalesced", "drained"}
    PROVE  /\ AtMostTwo(Roused)' => AtMostTwo(Roused)
           /\ pc'[t] = place /\ \A u \in Threads \ {t} : pc'[u] = pc[u]
<1>1. pc'[t] = place /\ \A u \in Threads \ {t} : pc'[u] = pc[u]
  BY DEF Inv, TypeOK, Goto
<1>2. \A x \in Roused : x \in Roused'
  BY <1>1 DEF Roused
<1> QED
  BY <1>1, <1>2 DEF AtMostTwo

LEMMA ServeExpects ==
    ASSUME Inv, PairInv, NEW r \in Requests, Reader(r) \/ Serve(r)
    PROVE  PairInv'
<1>1. PICK place \in {"refused", "admitted", "counted", "running", "accepted", "claimed",
                      "answered", "debounce", "served"} :
          /\ Goto(r, place)
          /\ pc[r] \in {"unread", "admitted", "counted", "running", "claimed", "accepted",
                        "answered"}
          /\ pc[r] = "accepted" => place = "debounce"
          /\ UNCHANGED <<active, requested, ticks>>
          /\ queued' > queued => place = "accepted"
  <2>1. queued \in Nat
    BY DEF Inv, TypeOK
  <2>2. CASE Reader(r)
    BY <2>1, <2>2 DEF Reader, ReadLine, CountRequest, Dispatch
  <2>3. CASE Serve(r)
    BY <2>1, <2>3 DEF Serve, StartTurn, ExplicitTick, CountClaim, Answer
  <2> QED
    BY <2>2, <2>3
<1>2. r \in Threads /\ r \notin Roused /\ queued \in Nat /\ queued' \in Nat
  <2>1. TypeOK'
    BY ReaderStep, ServeStep DEF Inv
  <2> QED
    BY <1>1, <2>1 DEF Roused, Concerned, Draining, Inv, TypeOK
<1>3. /\ AtMostTwo(Roused)' => AtMostTwo(Roused)
      /\ pc'[r] = place /\ \A u \in Threads \ {r} : pc'[u] = pc[u]
  BY <1>1, <1>2, RousedStay
<1>4. SetterKnown'
  BY <1>1, <1>3 DEF PairInv, SetterKnown
<1>5. NoWayOut' => NoWayOut
  BY <1>1, <1>2, <1>3 DEF NoWayOut
<1>6. CASE place = "accepted"
  BY <1>2, <1>3, <1>4, <1>6 DEF PairInv, Expected, Coming
<1>7. CASE place # "accepted"
  <2>1. queued' > 0 => queued > 0
    BY <1>1, <1>2, <1>7
  <2>2. Expected => Expected'
    BY <1>1, <1>3 DEF Expected, Coming
  <2> QED
    BY <1>3, <1>4, <1>5, <2>1, <2>2 DEF PairInv
<1> QED
  BY <1>6, <1>7

(* A wait ends at the wakeup, unless it takes a way out.                    *)
LEMMA WaitExpects ==
    ASSUME Inv, PairInv, NEW t \in Threads, Wait(t)
    PROVE  PairInv'
<1>1. PICK place \in {"quiesce", "grace", "decide", "suppressed", "gave up", "wakeup"} :
          /\ Goto(t, place)
          /\ pc[t] \in {"debounce", "grace", "quiesce", "decide"}
  BY DEF Wait, Debounce, Grace, Quiesce, Decide
<1>2. UNCHANGED <<queued, active, requested, ticks>>
  BY DEF Wait, Debounce, Grace, Quiesce, Decide
<1>3. /\ AtMostTwo(Roused)' => AtMostTwo(Roused)
      /\ pc'[t] = place /\ \A u \in Threads \ {t} : pc'[u] = pc[u]
  <2>1. t \notin Roused
    BY <1>1 DEF Roused, Concerned, Draining
  <2> QED
    BY <1>1, <2>1, RousedStay
<1>4. SetterKnown'
  BY <1>1, <1>2, <1>3 DEF PairInv, SetterKnown
<1>5. NoWayOut' => NoWayOut /\ place \in Coming
  BY <1>1, <1>2, <1>3 DEF NoWayOut, Coming
<1> QED
  BY <1>2, <1>3, <1>4, <1>5 DEF PairInv, Expected

(* The thread that collects the bit of another one finds nobody draining.   *)
LEMMA CollectorAlone ==
    ASSUME Inv, PairInv, NEW t \in Threads, pc[t] = "collect", requested,
           AtMostTwo(Roused)
    PROVE  ~active \/ \E u \in Threads : pc[u] = "begin"
<1>1. PICK u \in Threads : pc[u] \in {"enter", "begin", "coalesced"}
  BY DEF PairInv, SetterKnown
<1>2. ASSUME active, pc[u] # "begin"
      PROVE  FALSE
  <2>1. PICK v \in Threads : pc[v] \in Draining
    BY <1>2 DEF Inv, OneDrainer
  <2>2. {t, u, v} \subseteq Roused /\ t # u /\ u # v /\ t # v
    BY <1>1, <1>2, <2>1 DEF Roused, Concerned, Draining
  <2> QED
    BY <2>2 DEF AtMostTwo
<1> QED
  BY <1>1, <1>2 DEF Inv, TypeOK

LEMMA CappedOut ==
    ASSUME NEW t \in Threads, ticks'[t] = MaxDrainTicks
    PROVE  ~ NoWayOut'
<1> SUFFICES ASSUME NoWayOut' PROVE FALSE
  OBVIOUS
<1>1. ticks'[t] < MaxDrainTicks
  BY DEF NoWayOut
<1> QED
  BY <1>1, Limits

LEMMA DrainExpects ==
    ASSUME Inv, PairInv, NEW t \in Threads, Drain(t)
    PROVE  PairInv'
<1>1. /\ TypeOK /\ TypeOK'
      /\ queued' <= queued
      /\ queued \in Nat /\ queued' \in Nat
  <2>1. TypeOK /\ TypeOK'
    BY DrainFrame DEF Inv
  <2>2. queued' <= queued
    BY <2>1 DEF TypeOK, Drain, RequestDrain, Enter, Reenter, TakeOver, BeginPass, DrainTick,
                Recheck, Leave, Collect
  <2> QED
    BY <2>1, <2>2 DEF TypeOK
<1>2. PICK place \in Concerned \cup {"reenter", "coalesced", "drained"} : Goto(t, place)
  BY DEF Drain, RequestDrain, Enter, Reenter, TakeOver, BeginPass, DrainTick,
         Recheck, Leave, Collect, Concerned, Draining
<1>3. /\ AtMostTwo(Roused)' => AtMostTwo(Roused)
      /\ pc'[t] = place /\ \A u \in Threads \ {t} : pc'[u] = pc[u]
  BY <1>2, RousedStay
<1>4. CASE RequestDrain(t)
  BY <1>3, <1>4 DEF RequestDrain, Goto, PairInv, SetterKnown, Expected, TypeOK, Inv
<1>5. CASE BeginPass(t)
  <2>1. requested' = FALSE /\ pc'[t] = "drain"
    BY <1>1, <1>5 DEF BeginPass, Goto, TypeOK
  <2> QED
    BY <2>1 DEF PairInv, SetterKnown, Expected, Coming
<1>6. ASSUME ~ BeginPass(t), ~ DrainTick(t)
      PROVE  NoWayOut' => NoWayOut
  <2>1. ticks' = ticks /\ pc[t] \notin {"suppressed", "gave up"}
    BY <1>6 DEF Drain, RequestDrain, Enter, Reenter, TakeOver, Recheck, Leave, Collect
  <2> QED
    BY <1>3, <2>1 DEF NoWayOut
<1>7. CASE DrainTick(t)
  <2>1. pc[t] = "drain" /\ place \in {"drain", "recheck"} /\ UNCHANGED <<active, requested>>
    BY <1>1, <1>3, <1>7 DEF DrainTick, Goto, TypeOK
  <2>2. SetterKnown'
    BY <1>3, <2>1 DEF PairInv, SetterKnown
  <2>3. queued' > 0 /\ NoWayOut' => place = "drain"
    <3>1. CASE queued > 0 /\ ticks' = [ticks EXCEPT ![t] = @ + 1]
               /\ Goto(t, IF ticks'[t] = MaxDrainTicks THEN "recheck" ELSE "drain")
      <4>1. place = IF ticks'[t] = MaxDrainTicks THEN "recheck" ELSE "drain"
        BY <1>1, <1>3, <3>1 DEF Goto, TypeOK
      <4>2. ticks'[t] = MaxDrainTicks => ~ NoWayOut'
        BY CappedOut
      <4> QED
        BY <4>1, <4>2
    <3>2. CASE queued = 0
      BY <1>1, <3>2
    <3>3. CASE ticks' = [ticks EXCEPT ![t] = MaxDrainTicks]
      <4>1. ticks'[t] = MaxDrainTicks
        BY <1>1, <3>3 DEF TypeOK
      <4>2. ~ NoWayOut'
        BY <4>1, CappedOut
      <4> QED
        BY <4>2
    <3> QED
      BY <1>7, <3>1, <3>2, <3>3 DEF DrainTick
  <2> QED
    BY <1>3, <2>2, <2>3 DEF PairInv, Expected, Coming
<1>8. CASE Enter(t)
  <2>1. pc[t] = "enter" /\ place = (IF active THEN "coalesced" ELSE "begin")
        /\ UNCHANGED requested /\ active' = TRUE
    BY <1>1, <1>3, <1>8 DEF Enter, TakeOver, Goto, TypeOK
  <2>2. SetterKnown'
    BY <1>3, <2>1 DEF PairInv, SetterKnown
  <2>3. Expected => Expected'
    BY <1>3, <2>1 DEF Expected, Coming
  <2>4. ~ BeginPass(t) /\ ~ DrainTick(t)
    BY <2>1 DEF BeginPass, DrainTick
  <2> QED
    BY <1>1, <1>3, <1>6, <2>2, <2>3, <2>4 DEF PairInv
<1>9. CASE Reenter(t)
  <2>1. pc[t] = "reenter" /\ place = (IF active THEN "drained" ELSE "begin")
        /\ UNCHANGED requested /\ active' = TRUE
    BY <1>1, <1>3, <1>9 DEF Reenter, TakeOver, Goto, TypeOK
  <2>2. SetterKnown'
    BY <1>3, <2>1 DEF PairInv, SetterKnown
  <2>3. Expected => Expected'
    BY <1>3, <2>1 DEF Expected, Coming
  <2>4. ~ BeginPass(t) /\ ~ DrainTick(t)
    BY <2>1 DEF BeginPass, DrainTick
  <2> QED
    BY <1>1, <1>3, <1>6, <2>2, <2>3, <2>4 DEF PairInv
<1>10. CASE Recheck(t) \/ Leave(t)
  <2>1. /\ pc[t] \in {"recheck", "leave"} /\ UNCHANGED requested
        /\ active' => active
    BY <1>10 DEF Recheck, Leave
  <2>2. SetterKnown'
    BY <1>3, <2>1 DEF PairInv, SetterKnown
  <2>3. Expected => Expected'
    BY <1>3, <2>1 DEF Expected, Coming
  <2>4. ~ BeginPass(t) /\ ~ DrainTick(t)
    BY <2>1 DEF BeginPass, DrainTick
  <2> QED
    BY <1>1, <1>3, <1>6, <2>2, <2>3, <2>4 DEF PairInv
<1>11. CASE Collect(t)
  <2>1. /\ pc[t] = "collect" /\ requested' = FALSE /\ active' = active
        /\ place = IF requested THEN "reenter" ELSE "drained"
    BY <1>1, <1>3, <1>11 DEF Collect, Goto, TypeOK
  <2>2. SetterKnown'
    BY <2>1 DEF SetterKnown
  <2>3. Expected /\ AtMostTwo(Roused) => Expected'
    <3>1. CASE requested
      BY <1>3, <2>1, <3>1, CollectorAlone DEF Expected, Coming
    <3>2. CASE ~requested
      BY <1>3, <2>1, <3>2 DEF Expected, Coming
    <3> QED
      BY <3>1, <3>2
  <2>4. ~ BeginPass(t) /\ ~ DrainTick(t)
    BY <2>1 DEF BeginPass, DrainTick
  <2> QED
    BY <1>1, <1>3, <1>6, <2>2, <2>3, <2>4 DEF PairInv
<1> QED
  BY <1>4, <1>5, <1>7, <1>8, <1>9, <1>10, <1>11 DEF Drain

LEMMA PairInductive == Inv /\ PairInv /\ [Next]_vars => PairInv'
<1> SUFFICES ASSUME Inv, PairInv, [Next]_vars PROVE PairInv'
  OBVIOUS
<1>1. CASE UNCHANGED vars
  <2>1. UNCHANGED <<queued, active, requested, pc, ticks>>
    BY <1>1 DEF vars
  <2>2. Roused' = Roused
    BY <2>1 DEF Roused
  <2> QED
    BY <2>1, <2>2 DEF PairInv, SetterKnown, Expected, AtMostTwo, NoWayOut
<1>2. CASE Next
  BY <1>2, ServeExpects, WaitExpects, DrainExpects DEF Next
<1> QED
  BY <1>1, <1>2

(* Three different threads are more than two.                               *)
LEMMA TwoAtMost ==
    ASSUME NEW S, IsFiniteSet(S), Cardinality(S) <= 2
    PROVE  AtMostTwo(S)
<1> SUFFICES ASSUME NEW x \in S, NEW y \in S, NEW z \in S, x # y, y # z, x # z
             PROVE  FALSE
  BY DEF AtMostTwo
<1> DEFINE P == {x} \cup {y}
           T == P \cup {z}
<1>1. IsFiniteSet({x}) /\ Cardinality({x}) = 1
  BY FS_Singleton
<1>2. IsFiniteSet(P) /\ Cardinality(P) = Cardinality({x}) + 1
  <2>1. y \notin {x}
    OBVIOUS
  <2> QED
    BY <1>1, <2>1, FS_AddElement, Zenon
<1>3. Cardinality(T) = Cardinality(P) + 1
  <2>1. z \notin P
    OBVIOUS
  <2> QED
    BY <1>2, <2>1, FS_AddElement, Zenon
<1>4. Cardinality(T) <= Cardinality(S)
  <2>1. T \in SUBSET S
    OBVIOUS
  <2> QED
    BY <2>1, FS_Subset, Zenon
<1>5. Cardinality(S) \in Nat
  BY FS_CardinalityType
<1> QED
  BY <1>1, <1>2, <1>3, <1>4, <1>5

(* When everything has come to rest after at most two wakeups, every turn   *)
(* has been taken, however many requests, claims and passes there were.     *)
THEOREM PairNeverStrandsHolds == Spec => []PairNeverStrands
<1>1. Init => PairInv
  <2> SUFFICES ASSUME Init PROVE PairInv
    OBVIOUS
  <2>1. SetterKnown
    BY DEF Init, SetterKnown
  <2>2. queued > 0 => pc[Startup] = "debounce"
    BY ResidentDrainAssumption DEF Init
  <2> QED
    BY <2>1, <2>2 DEF PairInv, Expected, Coming
<1>2. Inv /\ PairInv => PairNeverStrands
  <2> SUFFICES ASSUME Inv, PairInv, Quiet, NoWayOut, Cardinality(Woken) <= 2
               PROVE  queued = 0
    BY DEF PairNeverStrands
  <2>1. Roused = Woken
    BY DEF Quiet, Roused, Woken, Concerned, Draining, Ended
  <2>2. IsFiniteSet(Woken)
    <3>1. IsFiniteSet(Threads)
      BY ResidentDrainAssumption, FS_AddElement
    <3> QED
      BY <3>1, FS_Subset DEF Woken
  <2>3. AtMostTwo(Roused)
    BY <2>1, <2>2, TwoAtMost
  <2>4. ~ Expected
    <3>1. ~ requested
      BY DEF Inv, RequestHasTaker, Quiet, Draining, Ended
    <3> QED
      BY <3>1 DEF Expected, Quiet, Coming, Ended
  <2> QED
    BY <2>3, <2>4 DEF PairInv, Inv, TypeOK
<1> QED
  BY <1>1, <1>2, Invariance, PairInductive, PTL DEF Spec
==============================================================================
