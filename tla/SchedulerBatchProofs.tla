------------------------- MODULE SchedulerBatchProofs -------------------------
(***************************************************************************)
(* Theorems about the batches of WorkScheduler, for any finite set of      *)
(* items with any conflicts, pools and limits: what the driver is given at *)
(* once is what the governor admits, and a call that met no error leaves   *)
(* none of it in flight.                                                   *)
(***************************************************************************)
EXTENDS WorkSchedulerProofs, WellFoundedInduction

------------------------------------------------------------------------------
(* What admission chooses *)

(* A batch the governor admits: as many items as it has workers for, no two *)
(* that write to the same paths, no pool beyond its limit.                  *)
Sound(B) ==
    /\ Cardinality(B) \in 1..Admitted
    /\ \A i, j \in B : i # j => <<i, j>> \notin Conflicting
    /\ \A p \in {Pool[i] : i \in Items} \ {NoPool} :
          Cardinality({i \in B : Pool[i] = p}) <= PerPool

(* An item runs under the driver's lease.                                   *)
Mine(i) == lease[i].holder = Driver
RunsForDriver(i) == state[i] = "Running" /\ Mine(i)

(* How far the next item to be leased is, by what is left of the path; the  *)
(* items after it wait, those before it run.                                *)
Leasing(i) ==
    \/ path = LeasePath /\ state[i] = "Ready"
    \/ path = Tail(LeasePath) /\ state[i] = "Leased" /\ Mine(i)
    \/ path = Tail(Tail(LeasePath)) /\ state[i] = "Dispatched" /\ Mine(i)
LeaseKnown ==
    /\ stage \in {"lease", "execute"} => Sound(batch)
    /\ stage = "lease" =>
          /\ todo # {}
          /\ \A i \in batch \ todo : RunsForDriver(i)
          /\ \A i \in todo : IF IsNext(i) THEN Leasing(i) ELSE state[i] = "Ready"
    /\ stage = "execute" => \A i \in batch : RunsForDriver(i)

(* The items the driver has in flight are those the call has not finished,  *)
(* as long as nothing went wrong; and what a result leads to ends an item.  *)
Busy == {i \in Items : state[i] \in InFlight /\ Mine(i)}
CallOf ==
    CASE stage \in {"idle", "select"}   -> {}
      [] stage \in {"lease", "execute"} -> batch
      [] OTHER                          -> todo
CallKnown ==
    errors = 0 =>
        /\ stage # "fail"
        /\ Busy \subseteq CallOf
        /\ stage = "report" =>
              /\ \A i \in todo : outcome[i] \in {"ok", "failed"}
              /\ path # <<>> => path[Len(path)] \in Terminal

Less == {p \in Nat \X Nat : p[1] < p[2]}

(* Among some numbers there is a least one.                                 *)
LEMMA LeastNumber ==
    ASSUME NEW N \in SUBSET Nat, N # {}
    PROVE  \E x \in N : \A y \in N : x <= y
<1>1. Less = OpToRel(<, Nat)
  BY Zenon DEF OpToRel, Less
<1>2. IsWellFoundedOn(Less, Nat)
  BY <1>1, NatLessThanWellFounded
<1>3. PICK x \in N : \A y \in N : <<y, x>> \notin Less
  BY <1>2, WFMin, Zenon
<1>4. \A m, n \in Nat : m < n => <<m, n>> \in Less
  BY Zenon DEF Less
<1>5. \A y \in N : y \in Nat /\ x \in Nat /\ ~ (y < x)
  BY <1>3, <1>4, Zenon
<1> QED
  BY <1>5

(* Among some items there is one whose number no other goes below.          *)
LEMMA LeastExists ==
    ASSUME NEW S \in SUBSET Items, S # {}, NEW f \in [Items -> Int]
    PROVE  \E i \in S : \A j \in S : f[i] <= f[j]
<1> DEFINE Below(i) == {j \in S : f[j] < f[i]}
           Sizes == {Cardinality(Below(i)) : i \in S}
<1>1. \A i \in S : Below(i) \in SUBSET Items /\ Cardinality(Below(i)) \in Nat
                   /\ IsFiniteSet(Below(i))
  BY Counted, Parameters, FS_Subset
<1>2. Sizes \in SUBSET Nat /\ Sizes # {}
  BY <1>1
<1>3. PICK n \in Sizes : \A m \in Sizes : n <= m
  <2> HIDE DEF Sizes
  <2> QED
    BY <1>2, LeastNumber
<1>4. PICK i \in S : n = Cardinality(Below(i))
  BY <1>3
<1>5. ASSUME NEW j \in S, ~ (f[i] <= f[j])
      PROVE  FALSE
  <2>1. f[j] < f[i] /\ f[j] \in Int /\ f[i] \in Int
    BY <1>5
  <2>2. Below(j) \subseteq Below(i) /\ j \in Below(i) /\ j \notin Below(j)
    BY <2>1
  <2>3. Below(j) # Below(i)
    BY <2>2
  <2>4. Cardinality(Below(j)) < Cardinality(Below(i))
    BY <1>1, <2>2, <2>3, FS_Subset
  <2>5. n <= Cardinality(Below(j))
    BY <1>3
  <2>6. QED
    BY <1>1, <1>4, <2>4, <2>5
<1>6. QED
  BY <1>5

(* So there is a first and a last one in the order of dispatch.             *)
LEMMA EndsExist ==
    ASSUME NEW S \in SUBSET Items, S # {}
    PROVE  /\ \E i \in S : \A j \in S : Rank[i] <= Rank[j]
           /\ \E i \in S : \A j \in S : Rank[j] <= Rank[i]
<1> DEFINE back == [i \in Items |-> 0 - Rank[i]]
<1>1. Rank \in [Items -> Int] /\ back \in [Items -> Int]
  BY WorkSchedulerAssumption
<1>2. PICK i \in S : \A j \in S : back[i] <= back[j]
  <2> HIDE DEF back
  <2> QED
    BY <1>1, LeastExists
<1>3. \A j \in S : Rank[j] <= Rank[i]
  <2>1. ASSUME NEW j \in S
        PROVE  Rank[j] <= Rank[i]
    <3>1. Rank[i] \in Int /\ Rank[j] \in Int /\ back[i] <= back[j]
      BY <1>1, <1>2
    <3>2. back[i] = 0 - Rank[i] /\ back[j] = 0 - Rank[j]
      OBVIOUS
    <3> HIDE DEF back
    <3> QED
      BY <3>1, <3>2
  <2> QED
    BY <2>1
<1> QED
  BY <1>1, <1>3, LeastExists

(* One more item than some.                                                 *)
LEMMA OneMore ==
    ASSUME NEW S \in SUBSET Items, NEW i \in Items, i \notin S
    PROVE  Cardinality(S \cup {i}) = Cardinality(S) + 1
BY Parameters, FS_Subset, FS_AddElement

(* What is admitted is sound: the first ready item always fits, and the     *)
(* last one that was chosen fitted beside all others.                       *)
LEMMA AdmittedIsSound ==
    ASSUME NEW R \in SUBSET Items, R # {}, NEW B \in SUBSET R, IsAdmittedBatch(B, R)
    PROVE  B # {} /\ Sound(B)
<1> DEFINE Before(i) == {j \in B : Rank[j] < Rank[i]}
<1>1. /\ Admitted \in Nat \ {0} /\ PerPool \in Nat \ {0} /\ Rank \in [Items -> Int]
      /\ \A i, j \in Items : Rank[i] = Rank[j] => i = j
      /\ \A i, j \in Items : <<i, j>> \in Conflicting => <<j, i>> \in Conflicting
  BY WorkSchedulerAssumption
<1>2. \A i \in R : i \in B <=> Fits(i, Before(i))
  BY DEF IsAdmittedBatch
<1>3. B # {}
  <2>1. PICK i \in R : \A j \in R : Rank[i] <= Rank[j]
    BY EndsExist
  <2>2. Before(i) = {}
    BY <1>1, <2>1
  <2>3. Cardinality({}) = 0
    BY FS_EmptySet
  <2>4. {j \in {} : Pool[j] = Pool[i]} = {}
    OBVIOUS
  <2>5. Fits(i, {})
    BY <1>1, <2>3, <2>4 DEF Fits
  <2>6. QED
    BY <1>2, <2>2, <2>5
<1>4. Cardinality(B) \in 1..Admitted
  <2>1. PICK i \in B : \A j \in B : Rank[j] <= Rank[i]
    BY <1>3, EndsExist
  <2>2. /\ B = Before(i) \cup {i} /\ i \notin Before(i)
        /\ i \in Items /\ Before(i) \in SUBSET Items
    BY <1>1, <2>1
  <2>3. Cardinality(Before(i)) < Admitted
    BY <1>2 DEF Fits
  <2>4. Cardinality(B) = Cardinality(Before(i)) + 1 /\ Cardinality(Before(i)) \in Nat
    BY <2>2, OneMore, Counted
  <2>5. QED
    BY <1>1, <2>3, <2>4
<1>5. ASSUME NEW i \in B, NEW j \in B, i # j
      PROVE  <<i, j>> \notin Conflicting
  <2>1. \A k, l \in B : Rank[l] < Rank[k] => <<k, l>> \notin Conflicting
    BY <1>2 DEF Fits
  <2>2. Rank[i] < Rank[j] \/ Rank[j] < Rank[i]
    BY <1>1, <1>5
  <2>3. QED
    BY <1>1, <2>1, <2>2
<1>6. ASSUME NEW p \in {Pool[i] : i \in Items} \ {NoPool}
      PROVE  Cardinality({i \in B : Pool[i] = p}) <= PerPool
  <2> DEFINE Q == {i \in B : Pool[i] = p}
  <2>1. CASE Q = {}
    BY <1>1, <2>1, FS_EmptySet
  <2>2. CASE Q # {}
    <3>1. PICK i \in Q : \A j \in Q : Rank[j] <= Rank[i]
      BY <2>2, EndsExist
    <3> DEFINE P == {j \in Before(i) : Pool[j] = Pool[i]}
    <3>2. /\ Q = P \cup {i} /\ i \notin P
          /\ i \in Items /\ P \in SUBSET Items
      BY <1>1, <3>1
    <3>3. Cardinality(P) < PerPool
      BY <1>2, <1>6 DEF Fits
    <3>4. Cardinality(Q) = Cardinality(P) + 1 /\ Cardinality(P) \in Nat
      BY <3>2, OneMore, Counted
    <3>5. QED
      BY <1>1, <3>3, <3>4
  <2>3. QED
    BY <2>1, <2>2
<1> QED
  BY <1>3, <1>4, <1>5, <1>6 DEF Sound

------------------------------------------------------------------------------
(* What the driver is given *)

(* The path an item takes to its worker, step by step.                      *)
LEMMA LeasePathSteps ==
    /\ Head(LeasePath) = "Leased" /\ Tail(LeasePath) # <<>>
    /\ Head(Tail(LeasePath)) = "Dispatched" /\ Tail(Tail(LeasePath)) # <<>>
    /\ Head(Tail(Tail(LeasePath))) = "Running" /\ Tail(Tail(Tail(LeasePath))) = <<>>
BY DEF LeasePath

(* A batch begins ready, and is what the governor admits.                   *)
LEMMA SelectBegins ==
    ASSUME Inv, SelectBatch
    PROVE  LeaseKnown'
<1>1. PICK B \in SUBSET ReadyItems :
         IsAdmittedBatch(B, ReadyItems) /\ batch' = B /\ todo' = B
  BY DEF SelectBatch
<1>2. /\ ReadyItems # {} /\ ReadyItems \in SUBSET Items
      /\ path' = LeasePath /\ stage' = "lease" /\ UNCHANGED itemVars
  BY DEF SelectBatch, ReadyItems
<1>3. B # {} /\ Sound(B)
  BY <1>1, <1>2, AdmittedIsSound
<1>4. \A i \in B : state'[i] = "Ready"
  BY <1>1, <1>2 DEF ReadyItems, itemVars
<1>5. Sound(batch)'
  BY <1>1, <1>3 DEF Sound
<1> QED
  BY <1>1, <1>2, <1>3, <1>4, <1>5 DEF LeaseKnown, Leasing

(* Leasing goes through the batch item by item and step by step.            *)
LEMMA LeaseGoesOn ==
    ASSUME Inv, LeaseKnown, NEW i \in todo, LeaseNext(i)
    PROVE  LeaseKnown'
<1>1. /\ i \in Items /\ i \in batch /\ batch \subseteq Items /\ todo \subseteq batch
      /\ state \in [Items -> WorkStates] /\ lease \in [Items -> Leases]
      /\ path # <<>> /\ stage = "lease" /\ IsNext(i) /\ TypeOK
  BY DEF Inv, TypeOK, DispatchKnown, LeaseNext
<1>2. /\ Sound(batch) /\ Leasing(i)
      /\ \A j \in batch \ todo : RunsForDriver(j)
      /\ \A j \in todo \ {i} : state[j] = "Ready"
  <2>1. \A j \in todo \ {i} : ~ IsNext(j)
    <3>1. \A j \in todo : IsNext(j) => Rank[i] = Rank[j]
      BY <1>1, WorkSchedulerAssumption DEF IsNext
    <3>2. QED
      BY <1>1, <3>1, WorkSchedulerAssumption
  <2>2. QED
    BY <1>1, <2>1 DEF LeaseKnown
<1>3. CASE Return
  BY <1>3 DEF Return, LeaseKnown
<1>4. ASSUME ~ Return
      PROVE  /\ UNCHANGED batch /\ NextOf(i, "execute", LeasePath)
             /\ state' = [state EXCEPT ![i] = Head(path)]
             /\ \A j \in Items \ {i} : lease'[j] = lease[j]
             /\ Head(path) = "Leased" => lease'[i].holder = Driver
             /\ Head(path) # "Leased" => lease'[i] = lease[i]
  <2>1. CASE /\ Head(path) = "Leased" /\ lease' = [lease EXCEPT ![i] = NewLease(Driver)]
             /\ Commit(i, "Leased", commits + 1, 0)
             /\ NextOf(i, "execute", LeasePath) /\ UNCHANGED <<batch, outcome, errors>>
    BY <1>1, <2>1 DEF Commit, NewLease
  <2>2. CASE /\ Head(path) # "Leased" /\ CommitNext(i)
             /\ NextOf(i, "execute", LeasePath)
             /\ UNCHANGED <<lease, batch, outcome, errors>>
    BY <1>1, <2>2 DEF CommitNext, Commit
  <2>3. QED
    BY <1>4, <2>1, <2>2, Zenon DEF LeaseNext
<1>5. ASSUME ~ Return
      PROVE  LeaseKnown'
  <2>1. /\ batch' = batch /\ state'[i] = Head(path)
        /\ \A j \in Items \ {i} : state'[j] = state[j] /\ lease'[j] = lease[j]
    BY <1>1, <1>4, <1>5
  <2>2. Sound(batch)'
    BY <1>2, <2>1 DEF Sound
  <2>3. \A j \in (batch \ todo) : RunsForDriver(j)'
    BY <1>1, <1>2, <2>1 DEF RunsForDriver, Mine
  <2>4. Mine(i)'
    BY <1>2, <1>4, <1>5, LeasePathSteps DEF Leasing, Mine
  <2>5. CASE Tail(path) # <<>>
    <3>1. path' = Tail(path) /\ UNCHANGED <<todo, stage>>
      BY <1>4, <1>5, <2>5 DEF NextOf
    <3>2. Leasing(i)'
      BY <1>2, <2>1, <2>4, <2>5, <3>1, LeasePathSteps DEF Leasing
    <3>3. \A j \in todo' : IF IsNext(j)' THEN Leasing(j)' ELSE state'[j] = "Ready"
      <4>1. \A j \in todo \ {i} : ~ IsNext(j)
        BY <1>1, WorkSchedulerAssumption DEF IsNext
      <4>2. \A j \in todo : IsNext(j)' <=> IsNext(j)
        BY <3>1 DEF IsNext
      <4>3. QED
        BY <1>1, <1>2, <2>1, <3>1, <3>2, <4>1, <4>2
    <3>4. QED
      BY <1>1, <2>1, <2>2, <2>3, <3>1, <3>3 DEF LeaseKnown
  <2>6. CASE Tail(path) = <<>>
    <3>1. /\ path' = LeasePath /\ todo' = todo \ {i}
          /\ stage' = IF todo = {i} THEN "execute" ELSE stage
      BY <1>4, <1>5, <2>6 DEF NextOf
    <3>2. RunsForDriver(i)'
      BY <1>2, <2>1, <2>4, <2>6, LeasePathSteps DEF Leasing, RunsForDriver, Mine
    <3>3. \A j \in batch \ todo' : RunsForDriver(j)'
      BY <2>3, <3>1, <3>2
    <3>4. \A j \in todo' : Leasing(j)' /\ state'[j] = "Ready"
      BY <1>1, <1>2, <2>1, <3>1 DEF Leasing
    <3>5. QED
      BY <1>1, <2>1, <2>2, <3>1, <3>3, <3>4 DEF LeaseKnown
  <2>7. QED
    BY <2>5, <2>6
<1> QED
  BY <1>3, <1>5

(* Every step keeps what is known of a batch until it is executed.          *)
LEMMA LeaseKnownStep ==
    ASSUME Inv, LeaseKnown, [Next]_vars
    PROVE  LeaseKnown'
<1>1. ASSUME stage' \notin {"lease", "execute"}
      PROVE  LeaseKnown'
  BY <1>1 DEF LeaseKnown
<1>2. CASE UNCHANGED <<state, lease, stage, batch, todo, path>>
  BY <1>2 DEF LeaseKnown, Sound, RunsForDriver, Mine, Leasing, IsNext
<1>3. CASE WorkerCall \/ DispatchCall \/ ControlEvent
  <2>1. stage' \in {"idle", "select"}
    BY <1>3 DEF WorkerCall, LeaseReadyItem, WorkerTransition, Heartbeat, ExpireStaleLeases,
                DispatchCall, DispatchCancelled, DispatchStarts, ControlEvent, Idle, callVars
  <2>2. QED
    BY <1>1, <2>1
<1>4. CASE DispatchEnds \/ ExecuteBatch
  <2>1. stage' \in {"idle", "report", "fail"}
    BY <1>4 DEF DispatchEnds, ExecuteBatch, Return
  <2>2. QED
    BY <1>1, <2>1
<1>5. ASSUME NEW i \in todo, ReportItem(i) \/ ReportNext(i) \/ FailNext(i)
      PROVE  LeaseKnown'
  <2>1. stage' \in {"report", "fail", "idle", "select"}
    BY <1>5 DEF ReportItem, ReportNext, FailNext, NextOf, Return
  <2>2. QED
    BY <1>1, <2>1
<1>6. CASE TimePasses \/ UNCHANGED vars
  BY <1>2, <1>6 DEF TimePasses, vars, itemVars, callVars
<1> QED
  BY <1>3, <1>4, <1>5, <1>6, SelectBegins, LeaseGoesOn, Zenon DEF Next, DispatchStep

(* The items the driver is given at once are running under its lease, write *)
(* to disjoint paths and respect the limits of the governor, whatever the   *)
(* conflicts and the pools of the run's items are.                          *)
THEOREM ExecutingIsSoundHolds == Spec => []ExecutingIsSound
<1>1. Init => LeaseKnown
  BY DEF Init, LeaseKnown
<1>2. Inv /\ LeaseKnown /\ [Next]_vars => LeaseKnown'
  BY LeaseKnownStep
<1>3. LeaseKnown => ExecutingIsSound
  BY DEF LeaseKnown, ExecutingIsSound, Sound, RunsForDriver, Mine
<1> QED
  BY <1>1, <1>2, <1>3, Invariance, PTL DEF Spec

------------------------------------------------------------------------------
(* What a call leaves behind *)

(* The calls of single workers and the start of a dispatch put nothing in   *)
(* flight under the driver's lease.                                         *)
LEMMA OthersHoldNothing ==
    ASSUME Inv, WorkerCall \/ DispatchCall \/ ControlEvent
    PROVE  /\ stage = "idle" /\ stage' \in {"idle", "select"}
           /\ errors' \in {errors, errors + 1}
           /\ Busy' \subseteq Busy
<1>1. /\ state \in [Items -> WorkStates] /\ lease \in [Items -> Leases]
      /\ tokens \subseteq Tokens /\ Driver \notin Workers
  BY WorkSchedulerAssumption DEF Inv, TypeOK
<1>2. ASSUME NEW w \in Workers, NEW i \in Items, LeaseReadyItem(w, i)
      PROVE  /\ stage = "idle" /\ stage' = "idle" /\ errors' \in {errors, errors + 1}
             /\ Busy' \subseteq Busy
  <2>1. /\ lease' = [lease EXCEPT ![i] = NewLease(w)]
        /\ \A j \in Items \ {i} : state'[j] = state[j]
    BY <1>1, <1>2 DEF LeaseReadyItem, Commit
  <2>2. lease'[i].holder = w /\ \A j \in Items \ {i} : lease'[j] = lease[j]
    BY <1>1, <2>1 DEF NewLease
  <2>3. Busy' \subseteq Busy
    BY <1>1, <2>1, <2>2 DEF Busy, Mine
  <2>4. QED
    BY <1>2, <2>3 DEF LeaseReadyItem, Idle, AppendFails, callVars
<1>3. ASSUME NEW t \in tokens, NEW to, WorkerTransition(t, to)
      PROVE  /\ stage = "idle" /\ stage' = "idle" /\ errors' = errors
             /\ Busy' \subseteq Busy
  <2>1. t.item \in Items /\ t.holder \in Workers
    BY <1>1 DEF Tokens
  <2>2. /\ lease' = lease /\ lease[t.item].holder # Driver
        /\ \A j \in Items \ {t.item} : state'[j] = state[j]
    BY <1>1, <1>3, <2>1 DEF WorkerTransition, FenceHolds, Commit
  <2>3. Busy' \subseteq Busy
    BY <2>2 DEF Busy, Mine
  <2>4. QED
    BY <1>3, <2>3 DEF WorkerTransition, Idle, callVars
<1>4. ASSUME NEW t \in tokens, NEW fenced, Heartbeat(t, fenced)
      PROVE  /\ stage = "idle" /\ stage' = "idle" /\ errors' = errors
             /\ Busy' \subseteq Busy
  <2>1. t.item \in Items
    BY <1>1 DEF Tokens
  <2>2. state' = state /\ lease' = [lease EXCEPT ![t.item].seen = clock]
    BY <1>4 DEF Heartbeat
  <2>3. \A j \in Items : lease'[j].holder = lease[j].holder
    BY <1>1, <2>1, <2>2 DEF Leases
  <2>4. Busy' \subseteq Busy
    BY <2>2, <2>3 DEF Busy, Mine
  <2>5. QED
    BY <1>4, <2>4 DEF Heartbeat, Idle, callVars
<1>5. CASE ExpireStaleLeases
  <2>1. PICK S \in SUBSET Items :
          /\ lease' = [i \in Items |-> IF i \in S THEN NoLease ELSE lease[i]]
          /\ state' = [i \in Items |-> IF i \in S THEN "Ready" ELSE state[i]]
    BY <1>5 DEF ExpireStaleLeases
  <2>2. Busy' \subseteq Busy
    BY <2>1 DEF Busy, Mine, InFlight
  <2>3. QED
    BY <1>5, <2>2 DEF ExpireStaleLeases, Idle, AppendFails, callVars
<1>6. CASE DispatchCancelled
  <2>1. PICK S \in SUBSET Items :
          state' = [i \in Items |-> IF i \in S THEN "Cancelled" ELSE state[i]]
    BY <1>6 DEF DispatchCancelled, Unfinished
  <2>2. lease' = lease
    BY <1>6 DEF DispatchCancelled
  <2>3. Busy' \subseteq Busy
    BY <2>1, <2>2 DEF Busy, Mine, InFlight
  <2>4. QED
    BY <1>6, <2>3 DEF DispatchCancelled, Idle, AppendFails
<1>7. CASE DispatchStarts \/ ControlEvent
  BY <1>7 DEF DispatchStarts, ControlEvent, Idle, itemVars, callVars, Busy, Mine
<1> QED
  BY <1>2, <1>3, <1>4, <1>5, <1>6, <1>7, Zenon DEF WorkerCall, DispatchCall

(* A batch puts in flight only what belongs to it, and its results end it.  *)
LEMMA RoundKeepsTheCall ==
    ASSUME Inv, CallKnown, DispatchEnds \/ SelectBatch \/ ExecuteBatch
    PROVE  CallKnown'
<1>1. errors \in Nat /\ batch \subseteq Items
  BY DEF Inv, TypeOK
<1>2. CASE DispatchEnds \/ SelectBatch
  <2>1. /\ stage = "select" /\ errors' = errors /\ Busy' = Busy
        /\ stage' \in {"idle", "lease"}
    BY <1>2 DEF DispatchEnds, SelectBatch, Return, itemVars, Busy, Mine
  <2>2. QED
    BY <2>1 DEF CallKnown, CallOf
<1>3. CASE ExecuteBatch
  <2>1. /\ stage = "execute" /\ todo' = batch /\ path' = <<>> /\ Busy' = Busy
        /\ stage' \in {"report", "fail"}
    BY <1>3 DEF ExecuteBatch, itemVars, Busy, Mine
  <2>2. \/ errors' = errors + 1
        \/ /\ errors' = errors /\ stage' = "report"
           /\ outcome' \in [Items -> {"ok", "failed"}]
    BY <1>3 DEF ExecuteBatch, AppendFails
  <2>3. QED
    BY <1>1, <2>1, <2>2 DEF CallKnown, CallOf
<1> QED
  BY <1>2, <1>3

LEMMA LeaseKeepsTheCall ==
    ASSUME Inv, CallKnown, NEW i \in todo, LeaseNext(i)
    PROVE  CallKnown'
<1>1. /\ errors \in Nat /\ todo \subseteq batch /\ path # <<>> /\ stage = "lease"
      /\ batch \subseteq Items /\ TypeOK
  BY DEF Inv, TypeOK, DispatchKnown, LeaseNext
<1>2. CASE Return /\ AppendFails
  BY <1>1, <1>2 DEF CallKnown, AppendFails
<1>3. ASSUME ~ (Return /\ AppendFails)
      PROVE  /\ UNCHANGED <<batch, errors>> /\ NextOf(i, "execute", LeasePath)
             /\ \A j \in Items \ {i} : state'[j] = state[j] /\ lease'[j] = lease[j]
  <2>1. UNCHANGED <<batch, errors>> /\ NextOf(i, "execute", LeasePath)
    BY <1>3, Zenon DEF LeaseNext
  <2>2. \A j \in Items \ {i} : state'[j] = state[j] /\ lease'[j] = lease[j]
    BY LeaseNextSteps
  <2>3. QED
    BY <2>1, <2>2
<1>4. ASSUME ~ (Return /\ AppendFails)
      PROVE  CallKnown'
  <2>1. Busy' \subseteq Busy \cup {i}
    BY <1>3, <1>4 DEF Busy, Mine
  <2>2. stage' \in {"lease", "execute"} /\ batch' = batch /\ errors' = errors
    BY <1>1, <1>3, <1>4 DEF NextOf
  <2>3. QED
    BY <1>1, <2>1, <2>2 DEF CallKnown, CallOf
<1> QED
  BY <1>2, <1>4

(* A result is a path to the end of its item.                               *)
LEMMA ResultsEnd ==
    ASSUME NEW o
    PROVE  /\ ReportPath(o) # <<>>
           /\ ReportPath(o)[Len(ReportPath(o))] \in Terminal
<1>1. CASE o = "failed"
  <2>1. ReportPath(o) = <<"Failed">>
    BY <1>1 DEF ReportPath
  <2>2. QED
    BY <2>1 DEF Terminal
<1>2. CASE o # "failed"
  <2>1. ReportPath(o) = <<"ResultReceived", "Verifying", "Applying", "Completed">>
    BY <1>2 DEF ReportPath
  <2>2. QED
    BY <2>1 DEF Terminal
<1> QED
  BY <1>1, <1>2

(* The last transition of a path is the same until the path is taken.       *)
LEMMA SameEnd ==
    ASSUME NEW p \in Seq(WorkStates), p # <<>>
    PROVE  /\ Tail(p) # <<>> => Tail(p)[Len(Tail(p))] = p[Len(p)]
           /\ Tail(p) = <<>> => Head(p) = p[Len(p)]
<1>1. /\ Len(p) \in Nat /\ Len(p) # 0 /\ Len(Tail(p)) = Len(p) - 1 /\ Head(p) = p[1]
      /\ \A n \in 1..(Len(p) - 1) : Tail(p)[n] = p[n + 1]
  OBVIOUS
<1>2. CASE Len(p) = 1
  <2>1. Len(Tail(p)) = 0
    BY <1>1, <1>2
  <2>2. Tail(p) = <<>>
    BY <2>1, PathTaken
  <2>3. QED
    BY <1>1, <1>2, <2>2
<1>3. CASE Len(p) # 1
  <2>1. Len(p) - 1 \in 1..(Len(p) - 1)
    BY <1>1, <1>3
  <2>2. Tail(p)[Len(p) - 1] = p[Len(p)]
    BY <1>1, <2>1
  <2>3. Tail(p) # <<>>
    <3>1. Len(Tail(p)) # 0 /\ Len(<<>>) = 0
      BY <1>1, <1>3
    <3>2. QED
      BY <3>1
  <2>4. QED
    BY <1>1, <2>2, <2>3
<1> QED
  BY <1>2, <1>3

LEMMA ReportKeepsTheCall ==
    ASSUME Inv, CallKnown, NEW i \in todo, ReportNext(i)
    PROVE  CallKnown'
<1>1. /\ errors \in Nat /\ todo \subseteq batch /\ path # <<>> /\ stage = "report"
      /\ path \in Seq(WorkStates) /\ batch \subseteq Items
      /\ state \in [Items -> WorkStates]
  BY DEF Inv, TypeOK, ReportNext
<1>2. CASE Return /\ AppendFails
  BY <1>1, <1>2 DEF CallKnown, AppendFails
<1>3. CASE /\ CommitNext(i) /\ NextOf(i, "select", <<>>)
           /\ UNCHANGED <<lease, batch, outcome, errors>>
  <2>1. /\ state' = [state EXCEPT ![i] = Head(path)]
        /\ lease' = lease /\ outcome' = outcome /\ errors' = errors
    BY <1>3 DEF CommitNext, Commit
  <2>2. CASE Tail(path) # <<>>
    <3>1. path' = Tail(path) /\ todo' = todo /\ stage' = stage
      BY <1>3, <2>2 DEF NextOf
    <3>2. Busy' \subseteq Busy \cup {i}
      BY <1>1, <2>1 DEF Busy, Mine
    <3>3. path'[Len(path')] = path[Len(path)]
      BY <1>1, <2>2, <3>1, SameEnd
    <3>4. QED
      BY <1>1, <2>1, <3>1, <3>2, <3>3 DEF CallKnown, CallOf
  <2>3. CASE Tail(path) = <<>>
    <3>1. /\ path' = <<>> /\ todo' = todo \ {i}
          /\ stage' = IF todo = {i} THEN "select" ELSE stage
      BY <1>3, <2>3 DEF NextOf
    <3>2. Head(path) = path[Len(path)]
      BY <1>1, <2>3, SameEnd
    <3>3. errors = 0 => Busy' \subseteq Busy \ {i}
      BY <1>1, <2>1, <3>2 DEF CallKnown, Busy, Mine, InFlight, Terminal
    <3>4. QED
      BY <1>1, <2>1, <3>1, <3>3 DEF CallKnown, CallOf
  <2>4. QED
    BY <2>2, <2>3
<1> QED
  BY <1>2, <1>3, Zenon DEF ReportNext

(* Every step keeps what is known of a call that met no error.              *)
LEMMA CallKnownStep ==
    ASSUME Inv, CallKnown, [Next]_vars
    PROVE  CallKnown'
<1>1. errors \in Nat
  BY DEF Inv, TypeOK
<1>2. CASE UNCHANGED <<itemVars, callVars, errors>>
  BY <1>2 DEF itemVars, callVars, CallKnown, CallOf, Busy, Mine
<1>3. CASE WorkerCall \/ DispatchCall \/ ControlEvent
  <2>1. /\ stage = "idle" /\ stage' \in {"idle", "select"}
        /\ errors' \in {errors, errors + 1} /\ Busy' \subseteq Busy
    BY <1>3, OthersHoldNothing
  <2>2. QED
    BY <1>1, <2>1 DEF CallKnown, CallOf
<1>4. ASSUME NEW i \in todo, ReportItem(i)
      PROVE  CallKnown'
  <2>1. stage = "report" /\ errors' = errors /\ Busy' = Busy
    BY <1>4 DEF ReportItem, itemVars, Busy, Mine
  <2>2. CASE errors # 0
    BY <2>1, <2>2 DEF CallKnown
  <2>3. CASE errors = 0
    <3>1. outcome[i] \in {"ok", "failed"}
      BY <2>1, <2>3 DEF CallKnown
    <3>2. path' = ReportPath(outcome[i]) /\ UNCHANGED <<stage, batch, todo, outcome>>
      BY <1>4, <3>1 DEF ReportItem
    <3>3. path'[Len(path')] \in Terminal
      BY <3>2, ResultsEnd
    <3>4. QED
      BY <2>1, <2>3, <3>2, <3>3 DEF CallKnown, CallOf
  <2>4. QED
    BY <2>2, <2>3
<1>5. ASSUME NEW i \in todo, FailNext(i)
      PROVE  CallKnown'
  <2>1. stage = "fail" /\ errors' \in {errors, errors + 1}
    BY <1>5 DEF FailNext, AppendFails
  <2>2. QED
    BY <1>1, <2>1 DEF CallKnown
<1>6. CASE TimePasses \/ UNCHANGED vars
  BY <1>2, <1>6 DEF TimePasses, vars
<1> QED
  BY <1>3, <1>4, <1>5, <1>6, RoundKeepsTheCall, LeaseKeepsTheCall, ReportKeepsTheCall,
     Zenon DEF Next, DispatchStep

(* A dispatch call that has met no error leaves no item of its own in       *)
(* flight when it ends, whatever is leased, expired and paused around it.   *)
THEOREM NothingLeftRunningHolds == Spec => []NothingLeftRunning
<1>1. Init => CallKnown
  BY DEF Init, CallKnown, CallOf, Busy, InFlight
<1>2. Inv /\ CallKnown /\ [Next]_vars => CallKnown'
  BY CallKnownStep
<1>3. CallKnown => NothingLeftRunning
  BY DEF CallKnown, CallOf, NothingLeftRunning, Busy, Mine
<1> QED
  BY <1>1, <1>2, <1>3, Invariance, PTL DEF Spec
==============================================================================
