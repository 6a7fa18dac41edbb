-------------------------- MODULE WorkSchedulerProofs -------------------------
(***************************************************************************)
(* Theorems about WorkScheduler, for any finite set of items with any      *)
(* dependencies, any limits, and any number of workers, leases, clock      *)
(* ticks and failing appends.                                              *)
(*                                                                         *)
(* The proofs go in two stages.  ItemStep lists what a step of any action  *)
(* may do to one item: that is where the actions are taken apart.  The     *)
(* journal, the fences and the dependencies are then followed item by item *)
(* from ItemStep, without the actions.                                     *)
(***************************************************************************)
EXTENDS WorkScheduler, FiniteSetTheorems, TLAPS

(* A lease an item is in flight under was the last one its journal grants. *)
LeaseGranted ==
    \A i \in Items : state[i] \in InFlight =>
        lease[i] # NoLease /\ CurrentAt(log[i], lease[i].id, Len(log[i]) + 1)

(* Tokens were granted by commits of the past.  A lease that a failing     *)
(* append left on a ready item has a number no token of that item has.     *)
TokensGranted ==
    \A t \in tokens :
        /\ t.id <= commits
        /\ state[t.item] = "Ready" /\ lease[t.item] # NoLease => lease[t.item].id # t.id

Begin == {"Leased", "Dispatched", "Running"}

(* Where a dispatch call is: while it leases, the items still to be leased *)
(* have what they depend on; those it leased are ready no more.            *)
DispatchKnown ==
    /\ \A n \in DOMAIN path : path[n] # "Ready"
    /\ stage = "lease" =>
          /\ path # <<>>
          /\ \A n \in DOMAIN path : path[n] \in Begin
          /\ \A i \in todo : \A d \in Deps[i] : state[d] = "Completed"
          /\ \A i \in batch \ todo : state[i] # "Ready"
    /\ stage \in {"execute", "report", "fail"} => \A i \in batch : state[i] # "Ready"

Inv ==
    /\ TypeOK
    /\ LogAgrees
    /\ FencesCurrent
    /\ DependentsWait
    /\ LeaseGranted
    /\ TokensGranted
    /\ DispatchKnown

------------------------------------------------------------------------------
(* Appending to the journal of an item                                     *)

LEMMA Appended ==
    ASSUME NEW l \in Seq(Entries), NEW e \in Entries
    PROVE  /\ Append(l, e) \in Seq(Entries)
           /\ Len(l) \in Nat /\ DOMAIN l = 1..Len(l)
           /\ DOMAIN Append(l, e) = 1..(Len(l) + 1)
           /\ Len(Append(l, e)) = Len(l) + 1
           /\ \A n \in DOMAIN l : Append(l, e)[n] = l[n]
           /\ Append(l, e)[Len(l) + 1] = e
           /\ Append(l, e) # <<>>
OBVIOUS

LEMMA EntryTyped ==
    ASSUME NEW kind \in {"transition", "heartbeat", "expired"},
           NEW to \in WorkStates, NEW id \in Nat, NEW fence \in Nat
    PROVE  /\ Entry(kind, to, id, fence) \in Entries
           /\ Entry(kind, to, id, fence).kind = kind
           /\ Entry(kind, to, id, fence).to = to
           /\ Entry(kind, to, id, fence).lease = id
           /\ Entry(kind, to, id, fence).fence = fence
BY DEF Entry, Entries

(* What was current before an append is so after it.                       *)
LEMMA CurrentStays ==
    ASSUME NEW l \in Seq(Entries), NEW e \in Entries, NEW id,
           NEW n \in 1..(Len(l) + 1), CurrentAt(l, id, n)
    PROVE  CurrentAt(Append(l, e), id, n)
<1> DEFINE L == Append(l, e)
<1>1. PICK g \in DOMAIN l :
         /\ g < n /\ IsGrant(l[g]) /\ l[g].lease = id
         /\ \A m \in DOMAIN l : g < m /\ m < n => ~EndsLease(l[m])
  BY DEF CurrentAt
<1>2. g \in DOMAIN L /\ L[g] = l[g]
  BY Appended
<1>3. ASSUME NEW m \in DOMAIN L, g < m, m < n PROVE ~EndsLease(L[m])
  <2>1. m \in DOMAIN l /\ L[m] = l[m]
    BY <1>3, Appended
  <2> HIDE DEF L
  <2> QED
    BY <1>1, <1>3, <2>1
<1> HIDE DEF L
<1>4. CurrentAt(L, id, n)
  BY <1>1, <1>2, <1>3 DEF CurrentAt
<1> QED
  BY <1>4 DEF L

(* A lease stays current over an entry that neither grants nor expires one. *)
LEMMA CurrentExtends ==
    ASSUME NEW l \in Seq(Entries), NEW e \in Entries, NEW id,
           CurrentAt(l, id, Len(l) + 1), ~EndsLease(e)
    PROVE  CurrentAt(Append(l, e), id, Len(Append(l, e)) + 1)
<1> DEFINE L == Append(l, e)
<1>1. PICK g \in DOMAIN l :
         /\ g < Len(l) + 1 /\ IsGrant(l[g]) /\ l[g].lease = id
         /\ \A m \in DOMAIN l : g < m /\ m < Len(l) + 1 => ~EndsLease(l[m])
  BY DEF CurrentAt
<1>2. g \in DOMAIN L /\ L[g] = l[g] /\ g < Len(L) + 1
  BY Appended
<1>3. ASSUME NEW m \in DOMAIN L, g < m PROVE ~EndsLease(L[m])
  <2>1. CASE m = Len(l) + 1
    <3>1. L[m] = e
      BY <2>1, Appended
    <3> HIDE DEF L
    <3> QED
      BY <3>1
  <2>2. CASE m # Len(l) + 1
    <3>1. m \in DOMAIN l /\ L[m] = l[m] /\ m < Len(l) + 1
      BY <2>2, Appended
    <3> HIDE DEF L
    <3> QED
      BY <1>1, <1>3, <3>1
  <2> QED
    BY <2>1, <2>2
<1> HIDE DEF L
<1>4. CurrentAt(L, id, Len(L) + 1)
  BY <1>1, <1>2, <1>3 DEF CurrentAt
<1> QED
  BY <1>4 DEF L

(* The lease an entry grants is current after it.                          *)
LEMMA CurrentGranted ==
    ASSUME NEW l \in Seq(Entries), NEW e \in Entries, IsGrant(e)
    PROVE  CurrentAt(Append(l, e), e.lease, Len(Append(l, e)) + 1)
<1> DEFINE L == Append(l, e)
           g == Len(l) + 1
<1>1. g \in DOMAIN L /\ L[g] = e /\ g < Len(L) + 1
  BY Appended
<1>2. \A m \in DOMAIN L : ~(g < m)
  BY Appended
<1> HIDE DEF L, g
<1>3. CurrentAt(L, e.lease, Len(L) + 1)
  BY <1>1, <1>2 DEF CurrentAt
<1> QED
  BY <1>3 DEF L

Fenced(l) == \A n \in DOMAIN l : l[n].fence # 0 => CurrentAt(l, l[n].fence, n)

LEMMA FencedStays ==
    ASSUME NEW l \in Seq(Entries), NEW e \in Entries, Fenced(l),
           e.fence # 0 => CurrentAt(l, e.fence, Len(l) + 1)
    PROVE  Fenced(Append(l, e))
<1> DEFINE L == Append(l, e)
<1>1. ASSUME NEW n \in DOMAIN L, L[n].fence # 0
      PROVE  CurrentAt(L, L[n].fence, n)
  <2>1. CASE n = Len(l) + 1
    <3>1. L[n] = e /\ Len(l) + 1 \in 1..(Len(l) + 1)
      BY <2>1, Appended
    <3>2. CurrentAt(l, e.fence, Len(l) + 1)
      BY <1>1, <3>1
    <3>3. CurrentAt(L, e.fence, Len(l) + 1)
      BY <3>1, <3>2, CurrentStays
    <3> QED
      BY <2>1, <3>1, <3>3
  <2>2. CASE n # Len(l) + 1
    <3>1. n \in DOMAIN l /\ L[n] = l[n] /\ n \in 1..(Len(l) + 1)
      BY <2>2, Appended
    <3>2. CurrentAt(l, l[n].fence, n)
      BY <1>1, <3>1 DEF Fenced
    <3>3. CurrentAt(L, l[n].fence, n)
      BY <3>1, <3>2, CurrentStays
    <3> QED
      BY <3>1, <3>3
  <2> QED
    BY <2>1, <2>2
<1> HIDE DEF L
<1>2. Fenced(L)
  BY <1>1 DEF Fenced
<1> QED
  BY <1>2 DEF L
------------------------------------------------------------------------------
(* What a step may do to one item                                          *)

Untouched(i) ==
    /\ state'[i] = state[i]
    /\ log'[i] = log[i]
    /\ lease'[i] = lease[i] \/ state[i] = "Ready"

Grants(i) ==
    /\ state[i] = "Ready"
    /\ \A d \in Deps[i] : state[d] = "Completed"
    /\ state'[i] = "Leased"
    /\ lease'[i] # NoLease
    /\ log'[i] = Append(log[i], Entry("transition", "Leased", lease'[i].id, 0))

Beats(i) ==
    /\ state'[i] = state[i]
    /\ lease'[i] # NoLease
    /\ lease'[i].id = lease[i].id
    /\ log'[i] = Append(log[i], Entry("heartbeat", state[i], lease[i].id, 0))

Moves(i) ==
    /\ state[i] \in InFlight
    /\ state'[i] \in WorkStates \ {"Ready", "Leased"}
    /\ lease'[i] = lease[i]
    /\ log'[i] = Append(log[i], Entry("transition", state'[i], lease[i].id, lease[i].id))

Expires(i) ==
    /\ state[i] \notin Terminal
    /\ state'[i] = "Ready"
    /\ log'[i] = Append(log[i], Entry("expired", "Ready", lease[i].id, 0))

Cancels(i) ==
    /\ state[i] \notin Terminal
    /\ state'[i] = "Cancelled"
    /\ log'[i] = Append(log[i], Entry("transition", "Cancelled", lease[i].id, 0))

ItemStep(i) ==
    Untouched(i) \/ Grants(i) \/ Beats(i) \/ Moves(i) \/ Expires(i) \/ Cancels(i)

LEMMA Parameters ==
    /\ IsFiniteSet(Items)
    /\ \A i \in Items : Deps[i] \subseteq Items
    /\ Driver \notin Workers
BY WorkSchedulerAssumption

LEMMA Committed ==
    ASSUME TypeOK, NEW i \in Items, NEW to \in WorkStates, NEW id \in Nat,
           NEW fence \in Nat, Commit(i, to, id, fence)
    PROVE  /\ state' \in [Items -> WorkStates]
           /\ log' \in [Items -> Seq(Entries)]
           /\ commits' \in Nat /\ commits' = commits + 1
           /\ state'[i] = to
           /\ log'[i] = Append(log[i], Entry("transition", to, id, fence))
           /\ \A j \in Items \ {i} : state'[j] = state[j] /\ log'[j] = log[j]
<1> DEFINE e == Entry("transition", to, id, fence)
<1>1. state \in [Items -> WorkStates] /\ log \in [Items -> Seq(Entries)] /\ commits \in Nat
  BY DEF TypeOK
<1>2. e \in Entries
  BY EntryTyped
<1>3. /\ log' = [log EXCEPT ![i] = Append(log[i], e)]
      /\ state' = [state EXCEPT ![i] = to]
      /\ commits' = commits + 1
  BY DEF Commit
<1>4. Append(log[i], e) \in Seq(Entries)
  BY <1>1, <1>2, Appended
<1> HIDE DEF e
<1>5. log' \in [Items -> Seq(Entries)] /\ log'[i] = Append(log[i], e)
  BY <1>1, <1>3, <1>4
<1> QED
  BY <1>1, <1>3, <1>5 DEF e

LEMMA Counted ==
    ASSUME NEW S \in SUBSET Items
    PROVE  Cardinality(S) \in Nat
BY Parameters, FS_Subset, FS_CardinalityType

LEMMA NewLeaseTyped ==
    ASSUME TypeOK, NEW holder \in Holders
    PROVE  /\ NewLease(holder) \in Leases
           /\ NewLease(holder) # NoLease
           /\ NewLease(holder).id = commits + 1
           /\ NewLease(holder).holder = holder
<1>1. commits \in Nat /\ clock \in Nat
  BY DEF TypeOK
<1> QED
  BY <1>1 DEF NewLease, NoLease, Leases

(* What ValidTransition lets an item that is not in flight do.             *)
LEMMA ValidFrom ==
    ASSUME NEW from \in WorkStates, NEW to, ValidTransition(from, to)
    PROVE  /\ from \notin Terminal
           /\ from = "Ready" => to \in {"Leased", "Failed", "Cancelled"}
           /\ to = "Leased" => from = "Ready"
           /\ from # "Ready" => from \in InFlight
BY DEF ValidTransition, WorkStates, InFlight, Terminal

(* A transition under the lease of an item in flight                       *)
LEMMA FencedCommit ==
    ASSUME TypeOK, NEW i \in Items, NEW to \in WorkStates \ {"Ready"}, state[i] # "Ready",
           ValidTransition(state[i], to), Commit(i, to, lease[i].id, lease[i].id),
           UNCHANGED lease
    PROVE  /\ \A j \in Items : ItemStep(j)
           /\ state'[i] # "Ready"
           /\ \A j \in Items \ {i} : state'[j] = state[j]
<1>1. state[i] \in WorkStates /\ lease[i] \in Leases
  BY DEF TypeOK
<1>2. lease[i].id \in Nat
  BY <1>1 DEF Leases
<1>3. /\ state'[i] = to
      /\ log'[i] = Append(log[i], Entry("transition", to, lease[i].id, lease[i].id))
      /\ \A j \in Items \ {i} : state'[j] = state[j] /\ log'[j] = log[j]
  BY <1>2, Committed
<1>4. state[i] \in InFlight /\ to # "Leased"
  BY <1>1, ValidFrom
<1>5. Moves(i)
  BY <1>3, <1>4 DEF Moves
<1>6. \A j \in Items \ {i} : Untouched(j)
  BY <1>3 DEF Untouched
<1> QED
  BY <1>3, <1>5, <1>6 DEF ItemStep

(* The transitions that are left of the next item's path                   *)
LEMMA Paths ==
    /\ LeasePath \in Seq(WorkStates) /\ LeasePath # <<>>
    /\ \A n \in DOMAIN LeasePath : LeasePath[n] \in Begin
    /\ \A o : ReportPath(o) \in Seq(WorkStates)
              /\ \A n \in DOMAIN ReportPath(o) : ReportPath(o)[n] # "Ready"
<1>1. /\ LeasePath \in Seq(WorkStates) /\ LeasePath # <<>>
      /\ \A n \in DOMAIN LeasePath : LeasePath[n] \in Begin
  BY DEF LeasePath, Begin, WorkStates, InFlight
<1>2. ASSUME NEW o
      PROVE  /\ ReportPath(o) \in Seq(WorkStates)
             /\ \A n \in DOMAIN ReportPath(o) : ReportPath(o)[n] # "Ready"
  <2>1. CASE o = "failed"
    <3>1. ReportPath(o) = <<"Failed">>
      BY <2>1 DEF ReportPath
    <3> QED
      BY <3>1 DEF WorkStates, Terminal
  <2>2. CASE o # "failed"
    <3>1. ReportPath(o) = <<"ResultReceived", "Verifying", "Applying", "Completed">>
      BY <2>2 DEF ReportPath
    <3> QED
      BY <3>1 DEF WorkStates, InFlight, Terminal
  <2> QED
    BY <2>1, <2>2
<1> QED
  BY <1>1, <1>2

LEMMA PathTaken ==
    ASSUME NEW p \in Seq(WorkStates), p # <<>>
    PROVE  /\ Head(p) \in WorkStates /\ Tail(p) \in Seq(WorkStates)
           /\ Head(p) = p[1] /\ 1 \in DOMAIN p
           /\ \A n \in DOMAIN Tail(p) : n + 1 \in DOMAIN p /\ Tail(p)[n] = p[n + 1]
OBVIOUS

(* The next item has taken a transition: it has others before it, or it    *)
(* leaves todo and the path starts again.                                  *)
LEMMA NextOfTyped ==
    ASSUME TypeOK, NEW i \in todo, path # <<>>, NEW whenDone \in Stages,
           NEW restart \in Seq(WorkStates), NextOf(i, whenDone, restart), UNCHANGED batch
    PROVE  /\ path' \in Seq(WorkStates) /\ todo' \subseteq batch' /\ stage' \in Stages
           /\ \/ path' = Tail(path) /\ path' # <<>> /\ todo' = todo /\ stage' = stage
              \/ /\ path' = restart /\ todo' = todo \ {i}
                 /\ stage' = IF todo = {i} THEN whenDone ELSE stage
<1>1. path \in Seq(WorkStates) /\ todo \subseteq batch /\ stage \in Stages
  BY DEF TypeOK
<1>2. Tail(path) \in Seq(WorkStates)
  BY <1>1, PathTaken
<1> QED
  BY <1>1, <1>2 DEF NextOf

LEMMA LeaseNextSteps ==
    ASSUME Inv, NEW i \in todo, LeaseNext(i)
    PROVE  /\ \A j \in Items : ItemStep(j)
           /\ Return \/ state'[i] # "Ready"
           /\ \A j \in Items \ {i} : state'[j] = state[j] /\ lease'[j] = lease[j]
<1>1. i \in Items /\ state[i] \in WorkStates /\ lease \in [Items -> Leases]
  BY DEF Inv, TypeOK
<1>2. path \in Seq(WorkStates) /\ path # <<>> /\ path[1] \in Begin /\ Head(path) = path[1]
  <2>1. path \in Seq(WorkStates) /\ path # <<>>
    BY DEF Inv, TypeOK, DispatchKnown, LeaseNext
  <2>2. \A n \in DOMAIN path : path[n] \in Begin
    BY DEF Inv, DispatchKnown, LeaseNext
  <2> QED
    BY <2>1, <2>2, PathTaken
<1>3. \A d \in Deps[i] : state[d] = "Completed"
  BY DEF Inv, DispatchKnown, LeaseNext
<1>4. Driver \in Holders
  BY DEF Holders
<1>5. CASE /\ ValidTransition(state[i], "Leased")
           /\ lease' = [lease EXCEPT ![i] = NewLease(Driver)]
           /\ Commit(i, "Leased", commits + 1, 0)
  <2>1. state[i] = "Ready"
    BY <1>1, <1>5, ValidFrom
  <2>2. /\ lease'[i] = NewLease(Driver) /\ lease'[i] # NoLease /\ lease'[i].id = commits + 1
        /\ \A j \in Items \ {i} : lease'[j] = lease[j]
    BY <1>1, <1>4, <1>5, NewLeaseTyped DEF Inv
  <2>3. commits + 1 \in Nat /\ "Leased" \in WorkStates
    BY DEF Inv, TypeOK, WorkStates, InFlight
  <2>4. /\ state'[i] = "Leased"
        /\ log'[i] = Append(log[i], Entry("transition", "Leased", commits + 1, 0))
        /\ \A j \in Items \ {i} : state'[j] = state[j] /\ log'[j] = log[j]
    BY <1>1, <1>5, <2>3, Committed DEF Inv
  <2>5. Grants(i)
    BY <1>3, <2>1, <2>2, <2>4 DEF Grants
  <2>6. \A j \in Items \ {i} : Untouched(j)
    BY <2>2, <2>4 DEF Untouched
  <2> QED
    BY <2>2, <2>4, <2>5, <2>6 DEF ItemStep
<1>6. CASE Head(path) # "Leased" /\ CommitNext(i) /\ UNCHANGED lease
  <2>1. Head(path) \in WorkStates \ {"Ready"} /\ Head(path) \notin {"Leased", "Failed", "Cancelled"}
    BY <1>2, <1>6 DEF Begin, WorkStates, InFlight
  <2>2. state[i] # "Ready"
    BY <1>1, <1>6, <2>1, ValidFrom DEF CommitNext
  <2> QED
    BY <1>1, <1>6, <2>1, <2>2, FencedCommit DEF CommitNext, Inv
<1>7. CASE /\ ValidTransition(state[i], Head(path))
           /\ lease' = IF Head(path) = "Leased"
                       THEN [lease EXCEPT ![i] = NewLease(Driver)] ELSE lease
           /\ Return
           /\ UNCHANGED <<state, commits, log>>
  <2>1. \A j \in Items \ {i} : lease'[j] = lease[j]
    BY <1>1, <1>7
  <2>2. lease'[i] = lease[i] \/ state[i] = "Ready"
    BY <1>1, <1>7, ValidFrom
  <2> QED
    BY <1>7, <2>1, <2>2 DEF ItemStep, Untouched
<1> QED
  BY <1>5, <1>6, <1>7 DEF LeaseNext

LEMMA ReportNextSteps ==
    ASSUME Inv, NEW i \in todo, ReportNext(i)
    PROVE  /\ \A j \in Items : ItemStep(j)
           /\ \A j \in batch : state'[j] # "Ready"
<1>1. i \in Items /\ batch \subseteq Items /\ path \in Seq(WorkStates) /\ path # <<>>
  BY DEF Inv, TypeOK, ReportNext
<1>2. \A j \in batch : state[j] # "Ready"
  BY DEF Inv, DispatchKnown, ReportNext
<1>3. i \in batch /\ TypeOK /\ lease' = lease
  BY DEF Inv, TypeOK, ReportNext
<1>4. CASE CommitNext(i)
  <2>1. Head(path) \in WorkStates \ {"Ready"}
    <3>1. \A n \in DOMAIN path : path[n] # "Ready"
      BY DEF Inv, DispatchKnown
    <3> QED
      BY <1>1, <3>1, PathTaken
  <2>2. /\ \A j \in Items : ItemStep(j)
        /\ state'[i] # "Ready"
        /\ \A j \in Items \ {i} : state'[j] = state[j]
    BY <1>1, <1>2, <1>3, <1>4, <2>1, FencedCommit DEF CommitNext
  <2> QED
    BY <1>1, <1>2, <2>2
<1>5. CASE UNCHANGED <<state, commits, log>>
  BY <1>2, <1>3, <1>5 DEF ItemStep, Untouched
<1> QED
  BY <1>4, <1>5 DEF ReportNext

LEMMA FailNextSteps ==
    ASSUME Inv, NEW i \in todo, FailNext(i)
    PROVE  /\ \A j \in Items : ItemStep(j)
           /\ \A j \in batch : state'[j] # "Ready"
<1>1. i \in Items /\ i \in batch /\ batch \subseteq Items /\ TypeOK /\ lease' = lease
  BY DEF Inv, TypeOK, FailNext
<1>2. \A j \in batch : state[j] # "Ready"
  BY DEF Inv, DispatchKnown, FailNext
<1>3. CASE /\ ValidTransition(state[i], "Failed")
           /\ Commit(i, "Failed", lease[i].id, lease[i].id)
  <2>1. "Failed" \in WorkStates \ {"Ready"}
    BY DEF WorkStates, Terminal
  <2>2. /\ \A j \in Items : ItemStep(j)
        /\ state'[i] # "Ready"
        /\ \A j \in Items \ {i} : state'[j] = state[j]
    BY <1>1, <1>2, <1>3, <2>1, FencedCommit
  <2> QED
    BY <1>1, <1>2, <2>2
<1>4. CASE UNCHANGED <<state, commits, log>>
  BY <1>1, <1>2, <1>4 DEF ItemStep, Untouched
<1> QED
  BY <1>3, <1>4 DEF FailNext

LEMMA LeaseReadyItemSteps ==
    ASSUME Inv, NEW w \in Workers, NEW i \in Items, LeaseReadyItem(w, i)
    PROVE  \A j \in Items : ItemStep(j)
<1>1. w \in Holders /\ lease \in [Items -> Leases] /\ TypeOK
  BY DEF Inv, TypeOK, Holders
<1>2. state[i] = "Ready" /\ \A d \in Deps[i] : state[d] = "Completed"
  BY DEF LeaseReadyItem, ReadyItems
<1>3. lease' = [lease EXCEPT ![i] = NewLease(w)]
  BY DEF LeaseReadyItem
<1>4. /\ lease'[i] # NoLease /\ lease'[i].id = commits + 1
      /\ \A j \in Items \ {i} : lease'[j] = lease[j]
  BY <1>1, <1>3, NewLeaseTyped
<1>5. CASE Commit(i, "Leased", commits + 1, 0)
  <2>1. commits + 1 \in Nat /\ "Leased" \in WorkStates
    BY <1>1 DEF TypeOK, WorkStates, InFlight
  <2>2. /\ state'[i] = "Leased"
        /\ log'[i] = Append(log[i], Entry("transition", "Leased", commits + 1, 0))
        /\ \A j \in Items \ {i} : state'[j] = state[j] /\ log'[j] = log[j]
    BY <1>1, <1>5, <2>1, Committed
  <2>3. Grants(i)
    BY <1>2, <1>4, <2>2 DEF Grants
  <2>4. \A j \in Items \ {i} : Untouched(j)
    BY <1>4, <2>2 DEF Untouched
  <2> QED
    BY <2>3, <2>4 DEF ItemStep
<1>6. CASE UNCHANGED <<state, commits, log, tokens>>
  BY <1>2, <1>4, <1>6 DEF ItemStep, Untouched
<1> QED
  BY <1>5, <1>6 DEF LeaseReadyItem

(* A worker's token is of a lease that stands only if its item is in       *)
(* flight: the fence of a ready item holds for no token.                   *)
LEMMA WorkerTransitionSteps ==
    ASSUME Inv, NEW t \in tokens, NEW to \in {"Running", "Completed", "Failed"},
           WorkerTransition(t, to)
    PROVE  \A j \in Items : ItemStep(j)
<1>1. t \in Tokens /\ TypeOK
  BY DEF Inv, TypeOK
<1>2. t.item \in Items
  BY <1>1 DEF Tokens
<1>3. /\ lease[t.item] # NoLease /\ lease[t.item].id = t.id
      /\ ValidTransition(state[t.item], to)
      /\ Commit(t.item, to, lease[t.item].id, lease[t.item].id)
      /\ UNCHANGED lease
  BY DEF WorkerTransition, FenceHolds
<1>4. state[t.item] # "Ready"
  BY <1>3 DEF Inv, TokensGranted
<1>5. to \in WorkStates \ {"Ready"}
  BY DEF WorkStates, InFlight, Terminal
<1> QED
  BY <1>1, <1>2, <1>3, <1>4, <1>5, FencedCommit

LEMMA HeartbeatSteps ==
    ASSUME Inv, NEW t \in tokens, NEW fenced \in BOOLEAN, Heartbeat(t, fenced)
    PROVE  /\ \A j \in Items : ItemStep(j) /\ lease'[j].id = lease[j].id
           /\ \A j \in Items : lease'[j] # NoLease => lease[j] # NoLease
           /\ lease' \in [Items -> Leases]
           /\ log' \in [Items -> Seq(Entries)]
<1> DEFINE i == t.item
           e == Entry("heartbeat", state[i], lease[i].id, 0)
<1>1. t \in Tokens /\ lease \in [Items -> Leases] /\ log \in [Items -> Seq(Entries)]
      /\ state \in [Items -> WorkStates] /\ clock \in Nat
  BY DEF Inv, TypeOK
<1>2. i \in Items /\ t.holder \in Workers
  BY <1>1 DEF Tokens
<1>3. lease[i] # NoLease /\ lease[i].holder = t.holder
  BY DEF Heartbeat
<1>4. lease' = [lease EXCEPT ![i].seen = clock] /\ state' = state
  BY DEF Heartbeat
<1>5. log' = [log EXCEPT ![i] = Append(log[i], e)]
  BY DEF Heartbeat
<1>6. lease[i] \in Leases /\ lease[i].id \in Nat
  BY <1>1, <1>2 DEF Leases
<1>7. /\ lease'[i] = [lease[i] EXCEPT !.seen = clock]
      /\ \A j \in Items \ {i} : lease'[j] = lease[j]
  BY <1>1, <1>2, <1>4
<1>8. /\ lease'[i] \in Leases /\ lease'[i].id = lease[i].id
      /\ lease'[i].holder = lease[i].holder
  BY <1>1, <1>6, <1>7 DEF Leases
<1>9. lease' \in [Items -> Leases]
  BY <1>1, <1>2, <1>4, <1>7, <1>8
<1>10. lease'[i] # NoLease
  BY <1>2, <1>3, <1>8, Parameters DEF NoLease
<1>11. e \in Entries
  BY <1>1, <1>2, <1>6, EntryTyped
<1>12. Append(log[i], e) \in Seq(Entries)
  BY <1>1, <1>2, <1>11, Appended
<1> HIDE DEF i
<1>13. /\ log' \in [Items -> Seq(Entries)]
       /\ log'[i] = Append(log[i], e)
       /\ \A j \in Items \ {i} : log'[j] = log[j]
  <2> HIDE DEF e
  <2> QED
    BY <1>1, <1>2, <1>5, <1>12
<1>14. Beats(i)
  BY <1>4, <1>8, <1>10, <1>13 DEF Beats
<1>15. \A j \in Items \ {i} : Untouched(j)
  BY <1>4, <1>7, <1>13 DEF Untouched
<1>16. \A j \in Items : ItemStep(j)
  BY <1>14, <1>15 DEF ItemStep
<1>17. \A j \in Items : lease'[j].id = lease[j].id
  BY <1>7, <1>8
<1>18. \A j \in Items : lease'[j] # NoLease => lease[j] # NoLease
  BY <1>3, <1>7
<1> QED
  BY <1>9, <1>13, <1>16, <1>17, <1>18

(* A sweep: every item is as it was, or its lease is taken back.           *)
LEMMA ExpireSteps ==
    ASSUME Inv, ExpireStaleLeases
    PROVE  /\ \A j \in Items : ItemStep(j)
           /\ \A j \in Items : lease'[j] = lease[j] \/ lease'[j] = NoLease
           /\ state' \in [Items -> WorkStates] /\ lease' \in [Items -> Leases]
           /\ log' \in [Items -> Seq(Entries)]
           /\ commits' \in Nat /\ commits <= commits'
           /\ \A j \in Items : state'[j] = state[j] \/ lease'[j] = NoLease
<1>1. TypeOK
  BY DEF Inv
<1>2. PICK S \in SUBSET {i \in Items : Stale(i)} :
        /\ lease' = [i \in Items |-> IF i \in S THEN NoLease ELSE lease[i]]
        /\ state' = [i \in Items |-> IF i \in S THEN "Ready" ELSE state[i]]
        /\ log' = [i \in Items |->
                     IF i \in S
                     THEN Append(log[i], Entry("expired", "Ready", lease[i].id, 0))
                     ELSE log[i]]
        /\ commits' = commits + Cardinality(S)
  BY DEF ExpireStaleLeases
<1>3. commits' \in Nat /\ commits <= commits'
  <2>1. Cardinality(S) \in Nat /\ commits \in Nat
    BY <1>1, Counted DEF TypeOK
  <2> QED
    BY <1>2, <2>1
<1>4. NoLease \in Leases /\ "Ready" \in WorkStates
  BY DEF NoLease, Leases, Holders, WorkStates
<1>5. ASSUME NEW j \in Items
      PROVE  /\ ItemStep(j)
             /\ lease'[j] = lease[j] \/ lease'[j] = NoLease
             /\ state'[j] = state[j] \/ lease'[j] = NoLease
             /\ log'[j] \in Seq(Entries)
  <2>1. log[j] \in Seq(Entries) /\ lease[j].id \in Nat
    BY <1>1 DEF TypeOK, Leases
  <2>2. CASE j \in S
    <3>1. /\ state'[j] = "Ready" /\ lease'[j] = NoLease
          /\ log'[j] = Append(log[j], Entry("expired", "Ready", lease[j].id, 0))
      BY <1>2, <2>2
    <3>2. state[j] \notin Terminal
      BY <1>2, <2>2 DEF Stale
    <3>3. log'[j] \in Seq(Entries)
      BY <1>4, <2>1, <3>1, EntryTyped, Appended
    <3> QED
      BY <3>1, <3>2, <3>3 DEF ItemStep, Expires
  <2>3. CASE j \notin S
    <3>1. state'[j] = state[j] /\ lease'[j] = lease[j] /\ log'[j] = log[j]
      BY <1>2, <2>3
    <3> QED
      BY <2>1, <3>1 DEF ItemStep, Untouched
  <2> QED
    BY <2>2, <2>3
<1>6. state' \in [Items -> WorkStates] /\ lease' \in [Items -> Leases]
  BY <1>1, <1>2, <1>4 DEF TypeOK
<1>7. log' \in [Items -> Seq(Entries)]
  <2>1. log' = [j \in Items |-> log'[j]]
    BY <1>2
  <2> QED
    BY <1>5, <2>1
<1> QED
  BY <1>3, <1>5, <1>6, <1>7

LEMMA CancelSteps ==
    ASSUME Inv, DispatchCancelled
    PROVE  /\ \A j \in Items : ItemStep(j)
           /\ state' \in [Items -> WorkStates]
           /\ log' \in [Items -> Seq(Entries)]
           /\ commits' \in Nat /\ commits <= commits'
           /\ \A j \in Items : state'[j] = "Ready" => state[j] = "Ready"
<1>1. TypeOK /\ lease' = lease
  BY DEF Inv, DispatchCancelled
<1>2. PICK S \in SUBSET Unfinished :
        /\ state' = [i \in Items |-> IF i \in S THEN "Cancelled" ELSE state[i]]
        /\ log' = [i \in Items |->
                     IF i \in S
                     THEN Append(log[i], Entry("transition", "Cancelled", lease[i].id, 0))
                     ELSE log[i]]
        /\ commits' = commits + Cardinality(S)
  BY DEF DispatchCancelled
<1>3. S \subseteq Items /\ \A i \in S : state[i] \notin Terminal
  BY <1>2 DEF Unfinished
<1>4. commits' \in Nat /\ commits <= commits'
  <2>1. Cardinality(S) \in Nat /\ commits \in Nat
    BY <1>1, <1>3, Counted DEF TypeOK
  <2> QED
    BY <1>2, <2>1
<1>5. "Cancelled" \in WorkStates
  BY DEF WorkStates, Terminal
<1>6. ASSUME NEW j \in Items
      PROVE  /\ ItemStep(j)
             /\ state'[j] = "Ready" => state[j] = "Ready"
             /\ log'[j] \in Seq(Entries)
  <2>1. log[j] \in Seq(Entries) /\ lease[j].id \in Nat
    BY <1>1 DEF TypeOK, Leases
  <2>2. CASE j \in S
    <3>1. /\ state'[j] = "Cancelled"
          /\ log'[j] = Append(log[j], Entry("transition", "Cancelled", lease[j].id, 0))
      BY <1>2, <2>2
    <3>2. log'[j] \in Seq(Entries)
      BY <1>5, <2>1, <3>1, EntryTyped, Appended
    <3> QED
      BY <1>3, <2>2, <3>1, <3>2 DEF ItemStep, Cancels
  <2>3. CASE j \notin S
    <3>1. state'[j] = state[j] /\ log'[j] = log[j]
      BY <1>2, <2>3
    <3> QED
      BY <1>1, <2>1, <3>1 DEF ItemStep, Untouched
  <2> QED
    BY <2>2, <2>3
<1>7. state' \in [Items -> WorkStates]
  BY <1>1, <1>2, <1>5 DEF TypeOK
<1>8. log' \in [Items -> Seq(Entries)]
  <2>1. log' = [j \in Items |-> log'[j]]
    BY <1>2
  <2> QED
    BY <1>6, <2>1
<1> QED
  BY <1>4, <1>6, <1>7, <1>8

LEMMA EachItemSteps ==
    ASSUME Inv, [Next]_vars
    PROVE  \A j \in Items : ItemStep(j)
<1> DEFINE Goal == \A j \in Items : ItemStep(j)
<1>1. ASSUME UNCHANGED itemVars PROVE Goal
  BY <1>1 DEF ItemStep, Untouched, itemVars
<1>2. CASE WorkerCall
  <2>1. ASSUME NEW w \in Workers, NEW i \in Items, LeaseReadyItem(w, i) PROVE Goal
    BY <2>1, LeaseReadyItemSteps
  <2>2. ASSUME NEW t \in tokens, NEW to \in {"Running", "Completed", "Failed"},
               WorkerTransition(t, to)
        PROVE  Goal
    BY <2>2, WorkerTransitionSteps
  <2>3. ASSUME NEW t \in tokens, NEW fenced \in BOOLEAN, Heartbeat(t, fenced) PROVE Goal
    BY <2>3, HeartbeatSteps
  <2>4. ASSUME ExpireStaleLeases PROVE Goal
    BY <2>4, ExpireSteps
  <2> QED
    BY <1>2, <2>1, <2>2, <2>3, <2>4 DEF WorkerCall
<1>3. CASE DispatchCall
  <2>1. ASSUME DispatchCancelled PROVE Goal
    BY <2>1, CancelSteps
  <2>2. ASSUME DispatchStarts PROVE Goal
    BY <1>1, <2>2 DEF DispatchStarts
  <2> QED
    BY <1>3, <2>1, <2>2 DEF DispatchCall
<1>4. CASE DispatchStep
  <2>1. ASSUME DispatchEnds \/ SelectBatch \/ ExecuteBatch PROVE Goal
    BY <1>1, <2>1 DEF DispatchEnds, SelectBatch, ExecuteBatch
  <2>2. ASSUME NEW i \in todo, LeaseNext(i) PROVE Goal
    BY <2>2, LeaseNextSteps
  <2>3. ASSUME NEW i \in todo, ReportItem(i) PROVE Goal
    BY <1>1, <2>3 DEF ReportItem
  <2>4. ASSUME NEW i \in todo, ReportNext(i) PROVE Goal
    BY <2>4, ReportNextSteps
  <2>5. ASSUME NEW i \in todo, FailNext(i) PROVE Goal
    BY <2>5, FailNextSteps
  <2> QED
    BY <1>4, <2>1, <2>2, <2>3, <2>4, <2>5 DEF DispatchStep
<1>5. CASE ControlEvent \/ TimePasses \/ UNCHANGED vars
  BY <1>1, <1>5 DEF ControlEvent, TimePasses, vars
<1> QED
  BY <1>2, <1>3, <1>4, <1>5 DEF Next

------------------------------------------------------------------------------
(* The journal, the fences and the dependencies, item by item              *)

(* The journal of an item says what the item is.                           *)
Agrees(l, s) ==
    /\ s = IF l = <<>> THEN "Ready" ELSE Last(l).to
    /\ (\E n \in DOMAIN l : l[n].kind = "transition" /\ l[n].to = "Completed")
         <=> s = "Completed"

LEMMA LogAgreesByItem == LogAgrees <=> \A i \in Items : Agrees(log[i], state[i])
<1>1. RecoveredCompleted \subseteq Items
  BY DEF RecoveredCompleted
<1>2. \A i \in Items :
        i \in RecoveredCompleted <=>
          \E n \in DOMAIN log[i] : log[i][n].kind = "transition" /\ log[i][n].to = "Completed"
  BY DEF RecoveredCompleted
<1> QED
  BY <1>1, <1>2 DEF LogAgrees, Agrees, RecoveredState

(* An entry that names the new state, of an item that has not completed    *)
(* before or does not leave that state, keeps them in agreement.           *)
LEMMA AgreesAppended ==
    ASSUME NEW l \in Seq(Entries), NEW e \in Entries, NEW s, Agrees(l, s),
           \/ s # "Completed" /\ (e.to = "Completed" => e.kind = "transition")
           \/ e.to = s /\ e.kind # "transition"
    PROVE  Agrees(Append(l, e), e.to)
<1> DEFINE L == Append(l, e)
           Completes(x) == x.kind = "transition" /\ x.to = "Completed"
<1>1. L # <<>> /\ Last(L) = e
  BY Appended DEF Last
<1>2. (\E n \in DOMAIN L : Completes(L[n])) <=> (Completes(e) \/ \E n \in DOMAIN l : Completes(l[n]))
  <2>1. ASSUME NEW n \in DOMAIN L, Completes(L[n])
        PROVE  Completes(e) \/ \E m \in DOMAIN l : Completes(l[m])
    <3>1. n = Len(l) + 1 \/ (n \in DOMAIN l /\ L[n] = l[n])
      BY Appended
    <3>2. L[Len(l) + 1] = e
      BY Appended
    <3> HIDE DEF L, Completes
    <3> QED
      BY <2>1, <3>1, <3>2
  <2>2. ASSUME Completes(e) PROVE \E n \in DOMAIN L : Completes(L[n])
    <3>1. Len(l) + 1 \in DOMAIN L /\ L[Len(l) + 1] = e
      BY Appended
    <3> HIDE DEF L, Completes
    <3> QED
      BY <2>2, <3>1
  <2>3. ASSUME NEW n \in DOMAIN l, Completes(l[n]) PROVE \E m \in DOMAIN L : Completes(L[m])
    <3>1. n \in DOMAIN L /\ L[n] = l[n]
      BY Appended
    <3> HIDE DEF L, Completes
    <3> QED
      BY <2>3, <3>1
  <2> HIDE DEF L, Completes
  <2> QED
    BY <2>1, <2>2, <2>3
<1>3. (\E n \in DOMAIN l : Completes(l[n])) <=> s = "Completed"
  BY DEF Agrees
<1>4. Completes(e) <=> (e.kind = "transition" /\ e.to = "Completed")
  OBVIOUS
<1>5. (\E n \in DOMAIN L : Completes(L[n])) <=> e.to = "Completed"
  <2> HIDE DEF L, Completes
  <2> QED
    BY <1>2, <1>3, <1>4
<1> HIDE DEF L
<1>6. Agrees(L, e.to)
  BY <1>1, <1>5 DEF Agrees
<1> QED
  BY <1>6 DEF L

(* One step of one item keeps its journal in agreement, its fences current *)
(* and its lease granted; ended it stays, and completed or in flight it    *)
(* was already, or what it depends on is complete.                         *)
LEMMA ItemKept ==
    ASSUME Inv, TypeOK', NEW i \in Items, ItemStep(i)
    PROVE  /\ Agrees(log'[i], state'[i])
           /\ Fenced(log'[i])
           /\ state'[i] \in InFlight =>
                 lease'[i] # NoLease /\ CurrentAt(log'[i], lease'[i].id, Len(log'[i]) + 1)
           /\ state[i] \in Terminal => state'[i] = state[i]
           /\ state'[i] \in InFlight \cup {"Completed"} =>
                 state[i] \in InFlight \/ state[i] = "Completed"
                 \/ \A d \in Deps[i] : state[d] = "Completed"
<1> DEFINE l == log[i]
           id == lease[i].id
<1>1. /\ l \in Seq(Entries) /\ state[i] \in WorkStates /\ state'[i] \in WorkStates
      /\ id \in Nat /\ lease'[i].id \in Nat
  <2>1. state \in [Items -> WorkStates] /\ lease \in [Items -> Leases] /\ log \in [Items -> Seq(Entries)]
    BY DEF Inv, TypeOK
  <2>2. state' \in [Items -> WorkStates] /\ lease' \in [Items -> Leases]
    BY DEF TypeOK
  <2> QED
    BY <2>1, <2>2 DEF Leases
<1>2. Agrees(l, state[i])
  BY LogAgreesByItem DEF Inv
<1>3. Fenced(l)
  BY DEF Inv, FencesCurrent, Fenced
<1>4. state[i] \in InFlight => lease[i] # NoLease /\ CurrentAt(l, id, Len(l) + 1)
  BY DEF Inv, LeaseGranted
<1>5. "Ready" \in WorkStates /\ "Leased" \in WorkStates /\ "Cancelled" \in WorkStates
  BY DEF WorkStates, InFlight, Terminal
<1> HIDE DEF l, id
<1>6. CASE Untouched(i)
  <2>1. state'[i] = state[i] /\ log'[i] = l /\ (state[i] \in InFlight => lease'[i] = lease[i])
    BY <1>6 DEF Untouched, InFlight, l
  <2> QED
    BY <1>2, <1>3, <1>4, <2>1 DEF id
<1>7. CASE Grants(i)
  <2> DEFINE e == Entry("transition", "Leased", lease'[i].id, 0)
  <2>1. /\ e \in Entries /\ e.kind = "transition" /\ e.to = "Leased"
        /\ e.lease = lease'[i].id /\ e.fence = 0
    BY <1>1, <1>5 DEF Entry, Entries
  <2>2. /\ state[i] = "Ready" /\ state'[i] = "Leased" /\ log'[i] = Append(l, e)
        /\ lease'[i] # NoLease /\ \A d \in Deps[i] : state[d] = "Completed"
    BY <1>7 DEF Grants, l
  <2> HIDE DEF e
  <2>3. Agrees(log'[i], state'[i])
    BY <1>1, <1>2, <2>1, <2>2, AgreesAppended
  <2>4. Fenced(log'[i])
    BY <1>1, <1>3, <2>1, <2>2, FencedStays
  <2>5. CurrentAt(log'[i], lease'[i].id, Len(log'[i]) + 1)
    BY <1>1, <2>1, <2>2, CurrentGranted DEF IsGrant
  <2> QED
    BY <2>2, <2>3, <2>4, <2>5 DEF Terminal
<1>8. CASE Beats(i)
  <2> DEFINE e == Entry("heartbeat", state[i], id, 0)
  <2>1. e \in Entries /\ e.kind = "heartbeat" /\ e.to = state[i] /\ e.fence = 0
    BY <1>1 DEF Entry, Entries
  <2>2. /\ state'[i] = state[i] /\ log'[i] = Append(l, e)
        /\ lease'[i] # NoLease /\ lease'[i].id = id
    BY <1>8 DEF Beats, l, id
  <2> HIDE DEF e
  <2>3. Agrees(log'[i], state'[i])
    BY <1>1, <1>2, <2>1, <2>2, AgreesAppended
  <2>4. Fenced(log'[i])
    BY <1>1, <1>3, <2>1, <2>2, FencedStays
  <2>5. ~EndsLease(e)
    BY <2>1 DEF EndsLease, IsGrant
  <2>6. state[i] \in InFlight => CurrentAt(log'[i], lease'[i].id, Len(log'[i]) + 1)
    BY <1>1, <1>4, <2>1, <2>2, <2>5, CurrentExtends
  <2> QED
    BY <2>2, <2>3, <2>4, <2>6
<1>9. CASE Moves(i)
  <2> DEFINE e == Entry("transition", state'[i], id, id)
  <2>1. /\ e \in Entries /\ e.kind = "transition" /\ e.to = state'[i] /\ e.fence = id
    BY <1>1 DEF Entry, Entries
  <2>2. /\ state[i] \in InFlight /\ state'[i] # "Leased" /\ lease'[i] = lease[i]
        /\ log'[i] = Append(l, e)
    BY <1>9 DEF Moves, l, id
  <2> HIDE DEF e
  <2>3. state[i] \notin Terminal /\ state[i] # "Completed"
    BY <2>2 DEF InFlight, Terminal
  <2>4. Agrees(log'[i], state'[i])
    BY <1>1, <1>2, <2>1, <2>2, <2>3, AgreesAppended
  <2>5. Fenced(log'[i])
    BY <1>1, <1>3, <1>4, <2>1, <2>2, FencedStays
  <2>6. ~EndsLease(e)
    BY <2>1, <2>2 DEF EndsLease, IsGrant
  <2>7. CurrentAt(log'[i], id, Len(log'[i]) + 1)
    BY <1>1, <1>4, <2>1, <2>2, <2>6, CurrentExtends
  <2> QED
    BY <1>4, <2>2, <2>3, <2>4, <2>5, <2>7 DEF id
<1>10. CASE Expires(i)
  <2> DEFINE e == Entry("expired", "Ready", id, 0)
  <2>1. e \in Entries /\ e.kind = "expired" /\ e.to = "Ready" /\ e.fence = 0
    BY <1>1, <1>5 DEF Entry, Entries
  <2>2. state[i] \notin Terminal /\ state'[i] = "Ready" /\ log'[i] = Append(l, e)
    BY <1>10 DEF Expires, l, id
  <2> HIDE DEF e
  <2>3. Agrees(log'[i], state'[i])
    BY <1>1, <1>2, <2>1, <2>2, AgreesAppended DEF Terminal
  <2>4. Fenced(log'[i])
    BY <1>1, <1>3, <2>1, <2>2, FencedStays
  <2> QED
    BY <2>2, <2>3, <2>4 DEF InFlight
<1>11. CASE Cancels(i)
  <2> DEFINE e == Entry("transition", "Cancelled", id, 0)
  <2>1. e \in Entries /\ e.kind = "transition" /\ e.to = "Cancelled" /\ e.fence = 0
    BY <1>1, <1>5 DEF Entry, Entries
  <2>2. state[i] \notin Terminal /\ state'[i] = "Cancelled" /\ log'[i] = Append(l, e)
    BY <1>11 DEF Cancels, l, id
  <2> HIDE DEF e
  <2>3. Agrees(log'[i], state'[i])
    BY <1>1, <1>2, <2>1, <2>2, AgreesAppended DEF Terminal
  <2>4. Fenced(log'[i])
    BY <1>1, <1>3, <2>1, <2>2, FencedStays
  <2> QED
    BY <2>2, <2>3, <2>4 DEF InFlight
<1> QED
  BY <1>6, <1>7, <1>8, <1>9, <1>10, <1>11 DEF ItemStep

------------------------------------------------------------------------------
(* Typing, and where tokens and the dispatch call are                      *)

(* The tokens stay apart from the leases of ready items when no token is   *)
(* granted: a lease that such an item gets has a number of the future.     *)
LEMMA TokensKept ==
    ASSUME Inv, UNCHANGED tokens, commits' \in Nat, commits <= commits',
           \A j \in Items : state'[j] = "Ready" /\ lease'[j] # NoLease =>
               \/ state[j] = "Ready" /\ lease[j] # NoLease /\ lease'[j].id = lease[j].id
               \/ lease'[j].id = commits + 1
    PROVE  TokensGranted'
<1>1. commits \in Nat /\ \A t \in tokens : t.item \in Items /\ t.id \in Nat
  BY DEF Inv, TypeOK, Tokens
<1>2. ASSUME NEW t \in tokens
      PROVE  /\ t.id <= commits'
             /\ state'[t.item] = "Ready" /\ lease'[t.item] # NoLease => lease'[t.item].id # t.id
  <2>1. /\ t.id <= commits
        /\ state[t.item] = "Ready" /\ lease[t.item] # NoLease => lease[t.item].id # t.id
    BY DEF Inv, TokensGranted
  <2>2. t.id <= commits' /\ t.id # commits + 1
    BY <1>1, <2>1
  <2> QED
    BY <1>1, <2>1, <2>2
<1> QED
  BY <1>2 DEF TokensGranted

LEMMA LeaseReadyItemKeeps ==
    ASSUME Inv, NEW w \in Workers, NEW i \in Items, LeaseReadyItem(w, i)
    PROVE  TypeOK' /\ TokensGranted'
<1>1. w \in Holders /\ lease \in [Items -> Leases] /\ TypeOK /\ commits \in Nat
  BY DEF Inv, TypeOK, Holders
<1>2. lease' = [lease EXCEPT ![i] = NewLease(w)] /\ UNCHANGED <<control, clock, callVars>>
  BY DEF LeaseReadyItem
<1>3. lease' \in [Items -> Leases] /\ lease'[i].id = commits + 1
      /\ \A j \in Items \ {i} : lease'[j] = lease[j]
  BY <1>1, <1>2, NewLeaseTyped
<1>4. tokens \subseteq Tokens
      /\ \A t \in tokens : t.item \in Items /\ t.id \in Nat /\ t.id <= commits
  BY DEF Inv, TypeOK, TokensGranted, Tokens
<1>5. CASE /\ Commit(i, "Leased", commits + 1, 0)
           /\ tokens' = tokens \cup {[holder |-> w, item |-> i, id |-> commits + 1]}
           /\ UNCHANGED errors
  <2>1. commits + 1 \in Nat \ {0} /\ "Leased" \in WorkStates
    BY <1>1 DEF WorkStates, InFlight
  <2>2. /\ state' \in [Items -> WorkStates] /\ log' \in [Items -> Seq(Entries)]
        /\ commits' \in Nat /\ commits' = commits + 1 /\ state'[i] = "Leased"
        /\ \A j \in Items \ {i} : state'[j] = state[j]
    BY <1>1, <1>5, <2>1, Committed
  <2>3. [holder |-> w, item |-> i, id |-> commits + 1] \in Tokens
    BY <2>1 DEF Tokens
  <2>4. TypeOK'
    BY <1>1, <1>2, <1>3, <1>4, <1>5, <2>2, <2>3 DEF TypeOK, callVars
  <2>5. ASSUME NEW t \in tokens'
        PROVE  /\ t.id <= commits'
               /\ state'[t.item] = "Ready" /\ lease'[t.item] # NoLease => lease'[t.item].id # t.id
    <3>1. CASE t \in tokens /\ t.item # i
      <4>1. /\ state[t.item] = "Ready" /\ lease[t.item] # NoLease => lease[t.item].id # t.id
        BY <3>1 DEF Inv, TokensGranted
      <4>2. state'[t.item] = state[t.item] /\ lease'[t.item] = lease[t.item]
        BY <1>3, <1>4, <2>2, <3>1
      <4>3. t.id <= commits'
        BY <1>1, <1>4, <2>2, <3>1
      <4> QED
        BY <4>1, <4>2, <4>3
    <3>2. CASE t \in tokens /\ t.item = i
      BY <1>1, <1>4, <2>2, <3>2
    <3>3. CASE t = [holder |-> w, item |-> i, id |-> commits + 1]
      BY <1>1, <2>2, <3>3
    <3> QED
      BY <1>5, <3>1, <3>2, <3>3
  <2> QED
    BY <2>4, <2>5 DEF TokensGranted
<1>6. CASE AppendFails /\ UNCHANGED <<state, commits, log, tokens>>
  <2>1. errors' \in Nat
    BY <1>1, <1>6 DEF AppendFails, TypeOK
  <2>2. TypeOK'
    BY <1>1, <1>2, <1>3, <1>6, <2>1 DEF TypeOK, callVars
  <2>3. ASSUME NEW t \in tokens
        PROVE  state[t.item] = "Ready" /\ lease'[t.item] # NoLease => lease'[t.item].id # t.id
    <3>1. CASE t.item = i
      BY <1>1, <1>3, <1>4, <3>1
    <3>2. CASE t.item # i
      BY <1>3, <1>4, <3>2 DEF Inv, TokensGranted
    <3> QED
      BY <3>1, <3>2
  <2> QED
    BY <1>4, <1>6, <2>2, <2>3 DEF TokensGranted
<1> QED
  BY <1>5, <1>6 DEF LeaseReadyItem

LEMMA WorkerTransitionKeeps ==
    ASSUME Inv, NEW t \in tokens, NEW to \in {"Running", "Completed", "Failed"},
           WorkerTransition(t, to)
    PROVE  TypeOK' /\ TokensGranted'
<1>1. TypeOK /\ t.item \in Items /\ t.id \in Nat /\ commits \in Nat
  BY DEF Inv, TypeOK, Tokens
<1>2. Commit(t.item, to, t.id, t.id)
      /\ UNCHANGED <<lease, control, tokens, clock, callVars, errors>>
  BY DEF WorkerTransition
<1>3. to \in WorkStates /\ to # "Ready"
  BY DEF WorkStates, InFlight, Terminal
<1>4. /\ state' \in [Items -> WorkStates] /\ log' \in [Items -> Seq(Entries)]
      /\ commits' \in Nat /\ commits' = commits + 1 /\ state'[t.item] = to
      /\ \A j \in Items \ {t.item} : state'[j] = state[j]
  BY <1>1, <1>2, <1>3, Committed
<1>5. TypeOK'
  BY <1>1, <1>2, <1>4 DEF TypeOK, callVars
<1>6. \A j \in Items : state'[j] = "Ready" => state[j] = "Ready"
  BY <1>3, <1>4
<1>7. commits <= commits'
  BY <1>1, <1>4
<1> QED
  BY <1>2, <1>4, <1>5, <1>6, <1>7, TokensKept

LEMMA HeartbeatKeeps ==
    ASSUME Inv, NEW t \in tokens, NEW fenced \in BOOLEAN, Heartbeat(t, fenced)
    PROVE  TypeOK' /\ TokensGranted'
<1>1. TypeOK /\ commits \in Nat
  BY DEF Inv, TypeOK
<1>2. commits' = commits + 1 /\ UNCHANGED <<state, control, tokens, clock, callVars, errors>>
  BY DEF Heartbeat
<1>3. /\ lease' \in [Items -> Leases] /\ log' \in [Items -> Seq(Entries)]
      /\ \A j \in Items : lease'[j].id = lease[j].id
      /\ \A j \in Items : lease'[j] # NoLease => lease[j] # NoLease
  BY HeartbeatSteps
<1>4. commits' \in Nat /\ commits <= commits'
  BY <1>1, <1>2
<1>5. TypeOK'
  BY <1>1, <1>2, <1>3, <1>4 DEF TypeOK, callVars
<1> QED
  BY <1>2, <1>3, <1>4, <1>5, TokensKept

LEMMA ExpireKeeps ==
    ASSUME Inv, ExpireStaleLeases
    PROVE  TypeOK' /\ TokensGranted'
<1>1. TypeOK
  BY DEF Inv
<1>2. UNCHANGED <<control, tokens, clock, callVars>> /\ errors' \in Nat
  BY <1>1 DEF ExpireStaleLeases, AppendFails, TypeOK
<1>3. /\ state' \in [Items -> WorkStates] /\ lease' \in [Items -> Leases]
      /\ log' \in [Items -> Seq(Entries)] /\ commits' \in Nat /\ commits <= commits'
      /\ \A j \in Items : lease'[j] = lease[j] \/ lease'[j] = NoLease
      /\ \A j \in Items : state'[j] = state[j] \/ lease'[j] = NoLease
  BY ExpireSteps
<1>4. TypeOK'
  BY <1>1, <1>2, <1>3 DEF TypeOK, callVars
<1> QED
  BY <1>2, <1>3, <1>4, TokensKept

LEMMA CancelKeeps ==
    ASSUME Inv, DispatchCancelled
    PROVE  TypeOK' /\ TokensGranted'
<1>1. TypeOK
  BY DEF Inv
<1>2. UNCHANGED <<lease, control, tokens, clock, stage, batch, todo, path, outcome>>
      /\ errors' \in Nat
  BY <1>1 DEF DispatchCancelled, AppendFails, TypeOK
<1>3. /\ state' \in [Items -> WorkStates] /\ log' \in [Items -> Seq(Entries)]
      /\ commits' \in Nat /\ commits <= commits'
      /\ \A j \in Items : state'[j] = "Ready" => state[j] = "Ready"
  BY CancelSteps
<1>4. TypeOK'
  BY <1>1, <1>2, <1>3 DEF TypeOK
<1> QED
  BY <1>2, <1>3, <1>4, TokensKept

(* The variables of the dispatch call                                      *)
CallTyped ==
    /\ stage \in Stages
    /\ batch \subseteq Items
    /\ todo \subseteq batch
    /\ path \in Seq(WorkStates)
    /\ outcome \in [Items -> Outcomes]

LEMMA ReturnKeeps ==
    ASSUME Return
    PROVE  CallTyped' /\ DispatchKnown'
BY DEF Return, CallTyped, DispatchKnown, Stages, Outcomes

(* Actions that leave the items as they are                                *)
LEMMA QuietKeeps ==
    ASSUME Inv, UNCHANGED itemVars, UNCHANGED tokens, CallTyped',
           control' \in [cancelled : BOOLEAN, paused : BOOLEAN],
           clock' \in Nat, errors' \in Nat
    PROVE  TypeOK' /\ TokensGranted'
<1>1. TypeOK' /\ commits \in Nat
  BY DEF Inv, TypeOK, CallTyped, itemVars
<1>2. TokensGranted'
  BY DEF Inv, TokensGranted, itemVars
<1> QED
  BY <1>1, <1>2

LEMMA SelectBatchKeeps ==
    ASSUME Inv, SelectBatch
    PROVE  TypeOK' /\ TokensGranted' /\ DispatchKnown'
<1>1. PICK B \in SUBSET ReadyItems : batch' = B /\ todo' = B
  BY DEF SelectBatch
<1>2. /\ path' = LeasePath /\ stage' = "lease"
      /\ UNCHANGED <<itemVars, control, tokens, clock, outcome, errors>>
  BY DEF SelectBatch
<1>3. CallTyped'
  BY <1>1, <1>2, Paths DEF Inv, TypeOK, CallTyped, ReadyItems, Stages
<1>4. TypeOK' /\ TokensGranted'
  BY <1>2, <1>3, QuietKeeps DEF Inv, TypeOK
<1>5. DispatchKnown'
  <2>1. \A i \in todo' : \A d \in Deps[i] : state'[d] = "Completed"
    BY <1>1, <1>2 DEF ReadyItems, itemVars
  <2>2. path' # <<>> /\ \A n \in DOMAIN path' : path'[n] \in Begin
    BY <1>2, Paths
  <2>3. \A n \in DOMAIN path' : path'[n] # "Ready"
    BY <2>2 DEF Begin
  <2> QED
    BY <1>1, <1>2, <2>1, <2>2, <2>3 DEF DispatchKnown
<1> QED
  BY <1>4, <1>5

LEMMA ExecuteBatchKeeps ==
    ASSUME Inv, ExecuteBatch
    PROVE  TypeOK' /\ TokensGranted' /\ DispatchKnown'
<1>1. /\ todo' = batch /\ path' = <<>> /\ stage' \in {"report", "fail"}
      /\ UNCHANGED <<itemVars, control, tokens, clock, batch>>
  BY DEF ExecuteBatch
<1>2. outcome \in [Items -> Outcomes] /\ errors \in Nat
  BY DEF Inv, TypeOK
<1>3. errors' \in Nat
  <2>1. UNCHANGED errors \/ AppendFails
    BY Zenon DEF ExecuteBatch
  <2> QED
    BY <1>2, <2>1 DEF AppendFails
<1>4. outcome' \in [Items -> Outcomes]
  <2>1. CASE outcome' \in [Items -> {"ok", "failed"}]
    BY <2>1 DEF Outcomes
  <2>2. CASE \E i \in batch, o \in {"missing", "other holder"} :
                outcome' = [j \in Items |-> IF j = i THEN o ELSE "ok"]
    BY <2>2 DEF Outcomes
  <2>3. CASE UNCHANGED outcome
    BY <1>2, <2>3
  <2> QED
    BY <2>1, <2>2, <2>3 DEF ExecuteBatch
<1>5. CallTyped'
  BY <1>1, <1>4 DEF Inv, TypeOK, CallTyped, Stages
<1>6. TypeOK' /\ TokensGranted'
  BY <1>1, <1>3, <1>5, QuietKeeps DEF Inv, TypeOK
<1>7. DispatchKnown'
  <2>1. \A i \in batch : state[i] # "Ready"
    BY DEF Inv, DispatchKnown, ExecuteBatch
  <2> QED
    BY <1>1, <2>1 DEF DispatchKnown, itemVars
<1> QED
  BY <1>6, <1>7

LEMMA ReportItemKeeps ==
    ASSUME Inv, NEW i \in todo, ReportItem(i)
    PROVE  TypeOK' /\ TokensGranted' /\ DispatchKnown'
<1>1. UNCHANGED <<itemVars, control, tokens, clock, errors>> /\ stage = "report"
  BY DEF ReportItem
<1>2. \A j \in batch : state[j] # "Ready"
  BY <1>1 DEF Inv, DispatchKnown
<1>3. CallTyped' /\ DispatchKnown'
  <2>1. CASE path' = ReportPath(outcome[i]) /\ UNCHANGED <<stage, batch, todo, outcome>>
    <3>1. CallTyped'
      BY <2>1, Paths DEF Inv, TypeOK, CallTyped
    <3>2. DispatchKnown'
      BY <1>1, <1>2, <2>1, Paths DEF DispatchKnown, itemVars
    <3> QED
      BY <3>1, <3>2
  <2>2. CASE stage' = "fail" /\ UNCHANGED <<batch, todo, path, outcome>>
    <3>1. CallTyped'
      BY <2>2 DEF Inv, TypeOK, CallTyped, Stages
    <3>2. DispatchKnown'
      BY <1>1, <1>2, <2>2 DEF Inv, DispatchKnown, itemVars
    <3> QED
      BY <3>1, <3>2
  <2>3. CASE Return
    BY <2>3, ReturnKeeps
  <2> QED
    BY <2>1, <2>2, <2>3 DEF ReportItem
<1>4. TypeOK' /\ TokensGranted'
  BY <1>1, <1>3, QuietKeeps DEF Inv, TypeOK
<1> QED
  BY <1>3, <1>4

LEMMA LeaseNextKeeps ==
    ASSUME Inv, NEW i \in todo, LeaseNext(i)
    PROVE  TypeOK' /\ TokensGranted' /\ DispatchKnown'
<1>1. /\ i \in Items /\ i \in batch /\ batch \subseteq Items /\ lease \in [Items -> Leases]
      /\ state \in [Items -> WorkStates] /\ commits \in Nat /\ errors \in Nat /\ TypeOK
      /\ outcome \in [Items -> Outcomes] /\ todo \subseteq batch
  BY DEF Inv, TypeOK
<1>2. UNCHANGED <<control, tokens, clock>> /\ stage = "lease"
  BY DEF LeaseNext
<1>3. /\ path \in Seq(WorkStates) /\ path # <<>>
      /\ \A n \in DOMAIN path : path[n] \in Begin
      /\ \A j \in todo : \A d \in Deps[j] : state[d] = "Completed"
      /\ \A j \in batch \ todo : state[j] # "Ready"
  BY <1>1, <1>2 DEF Inv, TypeOK, DispatchKnown
<1>4. Head(path) \in WorkStates
  BY <1>3, PathTaken
<1>5. /\ lease' \in [Items -> Leases]
      /\ lease'[i] = lease[i] \/ lease'[i].id = commits + 1
  <2>1. lease' = [lease EXCEPT ![i] = NewLease(Driver)] \/ lease' = lease
    BY Zenon DEF LeaseNext
  <2>2. NewLease(Driver) \in Leases /\ NewLease(Driver).id = commits + 1
    BY <1>1, NewLeaseTyped DEF Holders
  <2> QED
    BY <1>1, <2>1, <2>2
<1>6. /\ Return \/ state'[i] # "Ready"
      /\ \A j \in Items \ {i} : state'[j] = state[j] /\ lease'[j] = lease[j]
  BY LeaseNextSteps
<1>7. /\ state' \in [Items -> WorkStates] /\ log' \in [Items -> Seq(Entries)]
      /\ commits' \in Nat /\ commits <= commits' /\ errors' \in Nat
      /\ state'[i] = "Ready" => state[i] = "Ready"
  <2>1. CASE UNCHANGED <<state, commits, log>> /\ AppendFails
    BY <1>1, <2>1 DEF TypeOK, AppendFails
  <2>2. CASE Commit(i, "Leased", commits + 1, 0) /\ UNCHANGED errors
    <3>1. "Leased" \in WorkStates /\ commits + 1 \in Nat
      BY <1>1 DEF WorkStates, InFlight
    <3>2. /\ state' \in [Items -> WorkStates] /\ log' \in [Items -> Seq(Entries)]
          /\ commits' \in Nat /\ commits' = commits + 1 /\ state'[i] = "Leased"
      BY <1>1, <2>2, <3>1, Committed
    <3> QED
      BY <1>1, <2>2, <3>2
  <2>3. CASE Commit(i, Head(path), lease[i].id, lease[i].id) /\ UNCHANGED errors
    <3>1. lease[i].id \in Nat
      BY <1>1 DEF Leases
    <3>2. /\ state' \in [Items -> WorkStates] /\ log' \in [Items -> Seq(Entries)]
          /\ commits' \in Nat /\ commits' = commits + 1 /\ state'[i] = Head(path)
      BY <1>1, <1>4, <2>3, <3>1, Committed
    <3>3. Head(path) # "Ready"
      BY <1>3, PathTaken DEF Begin
    <3> QED
      BY <1>1, <2>3, <3>2, <3>3
  <2> QED
    BY <2>1, <2>2, <2>3, Zenon DEF LeaseNext, CommitNext
<1>8. TokensGranted'
  <2>1. ASSUME NEW j \in Items, state'[j] = "Ready", lease'[j] # NoLease
        PROVE  \/ state[j] = "Ready" /\ lease[j] # NoLease /\ lease'[j].id = lease[j].id
               \/ lease'[j].id = commits + 1
    <3>1. CASE j = i
      BY <1>5, <1>7, <2>1, <3>1
    <3>2. CASE j # i
      BY <1>6, <2>1, <3>2
    <3> QED
      BY <3>1, <3>2
  <2> QED
    BY <1>2, <1>7, <2>1, TokensKept
<1>9. CASE Return
  <2>1. CallTyped' /\ DispatchKnown'
    BY <1>9, ReturnKeeps
  <2> QED
    BY <1>1, <1>2, <1>5, <1>7, <1>8, <2>1 DEF TypeOK, CallTyped
<1>10. CASE NextOf(i, "execute", LeasePath) /\ UNCHANGED <<batch, outcome>> /\ state'[i] # "Ready"
  <2>1. /\ path' \in Seq(WorkStates) /\ todo' \subseteq batch' /\ stage' \in Stages
        /\ \/ path' = Tail(path) /\ path' # <<>> /\ todo' = todo /\ stage' = stage
           \/ /\ path' = LeasePath /\ todo' = todo \ {i}
              /\ stage' = IF todo = {i} THEN "execute" ELSE stage
    BY <1>1, <1>3, <1>10, Paths, NextOfTyped DEF Stages
  <2>2. TypeOK'
    BY <1>1, <1>2, <1>5, <1>7, <1>10, <2>1 DEF TypeOK
  <2>3. \A d \in Items : state[d] = "Completed" => state'[d] = "Completed"
    BY <2>2, LeaseNextSteps, ItemKept DEF Terminal
  <2>4. \A j \in todo' : \A d \in Deps[j] : state'[d] = "Completed"
    BY <1>1, <1>3, <2>1, <2>3, Parameters
  <2>5. path' # <<>> /\ \A n \in DOMAIN path' : path'[n] \in Begin
    <3>1. CASE path' = Tail(path) /\ path' # <<>>
      <4>1. \A n \in DOMAIN Tail(path) : n + 1 \in DOMAIN path /\ Tail(path)[n] = path[n + 1]
        BY <1>3, PathTaken
      <4>2. \A n \in DOMAIN Tail(path) : Tail(path)[n] \in Begin
        BY <1>3, <4>1, Zenon
      <4> QED
        BY <3>1, <4>2
    <3>2. CASE path' = LeasePath
      BY <3>2, Paths
    <3> QED
      BY <2>1, <3>1, <3>2
  <2>6. \A j \in batch' \ todo' : state'[j] # "Ready"
    BY <1>1, <1>3, <1>6, <1>10, <2>1
  <2>7. stage' = "execute" => todo' = {}
    BY <1>2, <2>1
  <2>8. stage' \in {"lease", "execute"}
    BY <1>2, <2>1
  <2>9. \A n \in DOMAIN path' : path'[n] # "Ready"
    BY <2>5 DEF Begin
  <2>10. DispatchKnown'
    BY <2>4, <2>5, <2>6, <2>7, <2>8, <2>9 DEF DispatchKnown
  <2> QED
    BY <1>8, <2>2, <2>10
<1> QED
  <2>1. \/ NextOf(i, "execute", LeasePath) /\ UNCHANGED <<batch, outcome>>
        \/ Return
    BY Zenon DEF LeaseNext
  <2> QED
    BY <1>6, <1>9, <1>10, <2>1

(* The rest of a path has none but its own transitions.                    *)
LEMMA RestOfPath ==
    ASSUME NEW p \in Seq(WorkStates), p # <<>>, \A n \in DOMAIN p : p[n] # "Ready"
    PROVE  \A n \in DOMAIN Tail(p) : Tail(p)[n] # "Ready"
<1>1. \A n \in DOMAIN Tail(p) : n + 1 \in DOMAIN p /\ Tail(p)[n] = p[n + 1]
  BY PathTaken
<1> QED
  BY <1>1, Zenon

(* An item of a batch takes a transition under its lease, or the append    *)
(* fails.                                                                  *)
LEMMA BatchCommit ==
    ASSUME Inv, NEW i \in todo, NEW to \in WorkStates, UNCHANGED <<lease, tokens>>,
           \/ Commit(i, to, lease[i].id, lease[i].id) /\ UNCHANGED errors
           \/ AppendFails /\ UNCHANGED <<state, commits, log>>
    PROVE  /\ state' \in [Items -> WorkStates] /\ log' \in [Items -> Seq(Entries)]
           /\ commits' \in Nat /\ commits <= commits' /\ errors' \in Nat
<1>1. /\ TypeOK /\ i \in Items /\ lease[i].id \in Nat /\ commits \in Nat /\ errors \in Nat
  BY DEF Inv, TypeOK, Leases
<1>2. CASE Commit(i, to, lease[i].id, lease[i].id) /\ UNCHANGED errors
  <2>1. /\ state' \in [Items -> WorkStates] /\ log' \in [Items -> Seq(Entries)]
        /\ commits' \in Nat /\ commits' = commits + 1
    BY <1>1, <1>2, Committed
  <2> QED
    BY <1>1, <1>2, <2>1
<1>3. CASE AppendFails /\ UNCHANGED <<state, commits, log>>
  BY <1>1, <1>3 DEF TypeOK, AppendFails
<1> QED
  BY <1>2, <1>3

LEMMA ReportNextKeeps ==
    ASSUME Inv, NEW i \in todo, ReportNext(i)
    PROVE  TypeOK' /\ TokensGranted' /\ DispatchKnown'
<1>1. /\ TypeOK /\ i \in batch /\ batch \subseteq Items /\ outcome \in [Items -> Outcomes]
      /\ lease \in [Items -> Leases]
      /\ path \in Seq(WorkStates) /\ path # <<>> /\ \A n \in DOMAIN path : path[n] # "Ready"
  BY DEF Inv, TypeOK, DispatchKnown, ReportNext
<1>2. UNCHANGED <<lease, control, tokens, clock>> /\ stage = "report"
  BY DEF ReportNext
<1>3. Head(path) \in WorkStates
  BY <1>1, PathTaken
<1>4. /\ state' \in [Items -> WorkStates] /\ log' \in [Items -> Seq(Entries)]
      /\ commits' \in Nat /\ commits <= commits' /\ errors' \in Nat
  <2>1. \/ Commit(i, Head(path), lease[i].id, lease[i].id) /\ UNCHANGED errors
        \/ AppendFails /\ UNCHANGED <<state, commits, log>>
    BY Zenon DEF ReportNext, CommitNext
  <2> QED
    BY <1>2, <1>3, <2>1, BatchCommit
<1>5. \A j \in batch : state'[j] # "Ready"
  BY ReportNextSteps
<1>6. CallTyped' /\ DispatchKnown'
  <2>1. CASE Return
    BY <2>1, ReturnKeeps
  <2>2. CASE NextOf(i, "select", <<>>) /\ UNCHANGED <<batch, outcome>>
    <3>1. /\ path' \in Seq(WorkStates) /\ todo' \subseteq batch' /\ stage' \in Stages
          /\ \/ path' = Tail(path) /\ stage' = stage
             \/ path' = <<>> /\ stage' = IF todo = {i} THEN "select" ELSE stage
      <4>1. <<>> \in Seq(WorkStates) /\ "select" \in Stages
        BY DEF Stages
      <4> QED
        BY <1>1, <2>2, <4>1, NextOfTyped
    <3>2. CallTyped'
      BY <1>1, <2>2, <3>1 DEF CallTyped
    <3>3. \A n \in DOMAIN path' : path'[n] # "Ready"
      BY <1>1, <3>1, RestOfPath
    <3>4. stage' # "lease"
      BY <1>2, <3>1
    <3>5. DispatchKnown'
      BY <1>5, <2>2, <3>3, <3>4 DEF DispatchKnown
    <3> QED
      BY <3>2, <3>5
  <2> QED
    BY <2>1, <2>2, Zenon DEF ReportNext
<1>7. TypeOK'
  BY <1>1, <1>2, <1>4, <1>6 DEF TypeOK, CallTyped
<1>8. TokensGranted'
  <2>1. \A j \in Items : state'[j] = "Ready" => state[j] = "Ready"
    <3>1. /\ state' = state \/ state' = [state EXCEPT ![i] = Head(path)]
          /\ state \in [Items -> WorkStates]
      BY <1>1, Zenon DEF ReportNext, CommitNext, Commit, TypeOK
    <3> QED
      BY <1>1, <1>5, <3>1
  <2> QED
    BY <1>2, <1>4, <2>1, TokensKept
<1> QED
  BY <1>6, <1>7, <1>8

LEMMA FailNextKeeps ==
    ASSUME Inv, NEW i \in todo, FailNext(i)
    PROVE  TypeOK' /\ TokensGranted' /\ DispatchKnown'
<1>1. /\ TypeOK /\ i \in batch /\ batch \subseteq Items /\ todo \subseteq batch
      /\ outcome \in [Items -> Outcomes] /\ lease \in [Items -> Leases]
      /\ path \in Seq(WorkStates) /\ \A n \in DOMAIN path : path[n] # "Ready"
  BY DEF Inv, TypeOK, DispatchKnown, FailNext
<1>2. UNCHANGED <<lease, control, tokens, clock>> /\ stage = "fail"
  BY DEF FailNext
<1>3. /\ state' \in [Items -> WorkStates] /\ log' \in [Items -> Seq(Entries)]
      /\ commits' \in Nat /\ commits <= commits' /\ errors' \in Nat
  <2>1. \/ Commit(i, "Failed", lease[i].id, lease[i].id) /\ UNCHANGED errors
        \/ AppendFails /\ UNCHANGED <<state, commits, log>>
    BY Zenon DEF FailNext
  <2>2. "Failed" \in WorkStates
    BY DEF WorkStates, Terminal
  <2> QED
    BY <1>2, <2>1, <2>2, BatchCommit
<1>4. \A j \in batch : state'[j] # "Ready"
  BY FailNextSteps
<1>5. CallTyped' /\ DispatchKnown'
  <2>1. CASE Return
    BY <2>1, ReturnKeeps
  <2>2. CASE todo' = todo \ {i} /\ UNCHANGED <<stage, batch, path, outcome>>
    <3>1. CallTyped'
      BY <1>1, <2>2 DEF CallTyped, TypeOK
    <3>2. DispatchKnown'
      BY <1>1, <1>2, <1>4, <2>2 DEF DispatchKnown
    <3> QED
      BY <3>1, <3>2
  <2> QED
    BY <2>1, <2>2, Zenon DEF FailNext
<1>6. TypeOK'
  BY <1>1, <1>2, <1>3, <1>5 DEF TypeOK, CallTyped
<1>7. TokensGranted'
  <2>1. \A j \in Items : state'[j] = "Ready" => state[j] = "Ready"
    <3>1. /\ state' = state \/ state' = [state EXCEPT ![i] = "Failed"]
          /\ state \in [Items -> WorkStates]
      BY <1>1, Zenon DEF FailNext, Commit, TypeOK
    <3> QED
      BY <1>1, <1>4, <3>1
  <2> QED
    BY <1>2, <1>3, <2>1, TokensKept
<1> QED
  BY <1>5, <1>6, <1>7

LEMMA StepKeeps ==
    ASSUME Inv, [Next]_vars
    PROVE  TypeOK' /\ TokensGranted' /\ DispatchKnown'
<1> DEFINE Goal == TypeOK' /\ TokensGranted' /\ DispatchKnown'
<1>1. /\ control \in [cancelled : BOOLEAN, paused : BOOLEAN] /\ clock \in Nat /\ errors \in Nat
      /\ CallTyped
  BY DEF Inv, TypeOK, CallTyped
<1>2. ASSUME stage = "idle", UNCHANGED <<stage, path>> PROVE DispatchKnown'
  BY <1>2 DEF Inv, DispatchKnown
<1>3. CASE WorkerCall
  <2>1. DispatchKnown'
    <3>1. stage = "idle" /\ UNCHANGED <<stage, path>>
      BY <1>3, Zenon DEF WorkerCall, LeaseReadyItem, WorkerTransition, Heartbeat,
                         ExpireStaleLeases, Idle, callVars
    <3> QED
      BY <1>2, <3>1
  <2>2. ASSUME NEW w \in Workers, NEW i \in Items, LeaseReadyItem(w, i)
        PROVE  TypeOK' /\ TokensGranted'
    BY <2>2, LeaseReadyItemKeeps
  <2>3. ASSUME NEW t \in tokens, NEW to \in {"Running", "Completed", "Failed"},
               WorkerTransition(t, to)
        PROVE  TypeOK' /\ TokensGranted'
    BY <2>3, WorkerTransitionKeeps
  <2>4. ASSUME NEW t \in tokens, NEW fenced \in BOOLEAN, Heartbeat(t, fenced)
        PROVE  TypeOK' /\ TokensGranted'
    BY <2>4, HeartbeatKeeps
  <2>5. ASSUME ExpireStaleLeases PROVE TypeOK' /\ TokensGranted'
    BY <2>5, ExpireKeeps
  <2> QED
    BY <1>3, <2>1, <2>2, <2>3, <2>4, <2>5 DEF WorkerCall
<1>4. CASE DispatchCancelled
  <2>1. stage = "idle" /\ UNCHANGED <<stage, path>>
    BY <1>4 DEF DispatchCancelled, Idle
  <2> QED
    BY <1>2, <1>4, <2>1, CancelKeeps
<1>5. CASE DispatchStarts
  <2>1. /\ stage' = "select"
        /\ UNCHANGED <<itemVars, control, tokens, clock, batch, todo, path, outcome, errors>>
    BY <1>5 DEF DispatchStarts
  <2>2. CallTyped'
    BY <1>1, <2>1 DEF CallTyped, Stages
  <2>3. DispatchKnown'
    BY <2>1 DEF Inv, DispatchKnown
  <2> QED
    BY <1>1, <2>1, <2>2, <2>3, QuietKeeps
<1>6. CASE DispatchStep
  <2>1. ASSUME DispatchEnds PROVE Goal
    <3>1. Return /\ UNCHANGED <<itemVars, control, tokens, clock, errors>>
      BY <2>1 DEF DispatchEnds
    <3> QED
      BY <1>1, <3>1, ReturnKeeps, QuietKeeps
  <2>2. ASSUME NEW i \in todo, LeaseNext(i) \/ ReportItem(i) \/ ReportNext(i) \/ FailNext(i)
        PROVE  Goal
    BY <2>2, LeaseNextKeeps, ReportItemKeeps, ReportNextKeeps, FailNextKeeps
  <2> QED
    BY <1>6, <2>1, <2>2, SelectBatchKeeps, ExecuteBatchKeeps DEF DispatchStep
<1>7. CASE ControlEvent
  <2>1. UNCHANGED <<itemVars, tokens, clock, callVars, errors>>
    BY <1>7 DEF ControlEvent
  <2>2. control' \in [cancelled : BOOLEAN, paused : BOOLEAN]
    BY <1>1, <1>7 DEF ControlEvent
  <2>3. CallTyped' /\ DispatchKnown'
    BY <1>1, <2>1 DEF CallTyped, callVars, Inv, DispatchKnown, itemVars
  <2> QED
    BY <1>1, <2>1, <2>2, <2>3, QuietKeeps
<1>8. CASE TimePasses \/ UNCHANGED vars
  <2>1. UNCHANGED <<itemVars, control, tokens, callVars, errors>> /\ clock' \in Nat
    BY <1>1, <1>8 DEF TimePasses, vars
  <2>2. CallTyped' /\ DispatchKnown'
    BY <1>1, <2>1 DEF CallTyped, callVars, Inv, DispatchKnown, itemVars
  <2> QED
    BY <1>1, <2>1, <2>2, QuietKeeps
<1> QED
  BY <1>3, <1>4, <1>5, <1>6, <1>7, <1>8 DEF Next, DispatchCall

------------------------------------------------------------------------------
(* The theorems                                                            *)

LEMMA Initially == Init => Inv
<1> SUFFICES ASSUME Init PROVE Inv
  OBVIOUS
<1>1. NoLease \in Leases /\ <<>> \in Seq(Entries) /\ "Ready" \in WorkStates
  BY DEF NoLease, Leases, Holders, WorkStates
<1>2. /\ state \in [Items -> WorkStates] /\ lease \in [Items -> Leases]
      /\ log \in [Items -> Seq(Entries)] /\ commits \in Nat
  BY <1>1 DEF Init
<1>3. CallTyped /\ control \in [cancelled : BOOLEAN, paused : BOOLEAN]
      /\ tokens \subseteq Tokens /\ clock \in Nat /\ errors \in Nat
  BY DEF Init, CallTyped, Stages, Outcomes
<1>4. TypeOK
  BY <1>2, <1>3 DEF TypeOK, CallTyped
<1>5. LogAgrees
  BY <1>4, LogAgreesByItem DEF Init, Agrees
<1>6. FencesCurrent
  BY DEF Init, FencesCurrent
<1>7. DependentsWait /\ LeaseGranted
  BY DEF Init, DependentsWait, LeaseGranted, InFlight
<1>8. TokensGranted /\ DispatchKnown
  BY DEF Init, TokensGranted, DispatchKnown
<1> QED
  BY <1>4, <1>5, <1>6, <1>7, <1>8 DEF Inv

LEMMA Inductive == Inv /\ [Next]_vars => Inv'
<1> SUFFICES ASSUME Inv, [Next]_vars PROVE Inv'
  OBVIOUS
<1>1. TypeOK' /\ TokensGranted' /\ DispatchKnown'
  BY StepKeeps
<1>2. ASSUME NEW i \in Items
      PROVE  /\ Agrees(log'[i], state'[i])
             /\ Fenced(log'[i])
             /\ state'[i] \in InFlight =>
                   lease'[i] # NoLease /\ CurrentAt(log'[i], lease'[i].id, Len(log'[i]) + 1)
             /\ state[i] \in Terminal => state'[i] = state[i]
             /\ state'[i] \in InFlight \cup {"Completed"} =>
                   state[i] \in InFlight \/ state[i] = "Completed"
                   \/ \A d \in Deps[i] : state[d] = "Completed"
  BY <1>1, EachItemSteps, ItemKept
<1>3. LogAgrees'
  <2>1. (LogAgrees <=> \A i \in Items : Agrees(log[i], state[i]))'
    BY LogAgreesByItem, PTL
  <2> QED
    BY <1>2, <2>1
<1>4. FencesCurrent'
  BY <1>2 DEF FencesCurrent, Fenced
<1>5. LeaseGranted'
  BY <1>2 DEF LeaseGranted
<1>6. DependentsWait'
  <2>1. ASSUME NEW i \in Items, state'[i] \in InFlight \cup {"Completed"}, NEW d \in Deps[i]
        PROVE  state'[d] = "Completed"
    <3>1. state[d] = "Completed"
      BY <1>2, <2>1 DEF Inv, DependentsWait
    <3>2. d \in Items
      BY Parameters
    <3> QED
      BY <1>2, <3>1, <3>2 DEF Terminal
  <2> QED
    BY <2>1 DEF DependentsWait
<1> QED
  BY <1>1, <1>3, <1>4, <1>5, <1>6 DEF Inv

(* The invariant that carries the others: it holds in every reachable      *)
(* state of a scheduler, however its calls, clock and failures come.       *)
THEOREM Invariance == Spec => []Inv
BY Initially, Inductive, PTL DEF Spec

(* Every variable keeps its type.                                          *)
THEOREM Typing == Spec => []TypeOK
<1>1. Inv => TypeOK
  BY DEF Inv
<1> QED
  BY <1>1, Invariance, PTL

(* The journal folds to the states in memory: transition_with_payload,     *)
(* heartbeats, sweeps and cancellations all append what they assign.       *)
THEOREM LogAgreesHolds == Spec => []LogAgrees
<1>1. Inv => LogAgrees
  BY DEF Inv
<1> QED
  BY <1>1, Invariance, PTL

(* No transition is committed under a lease that was replaced or expired,  *)
(* also when one worker holds an old and a new lease of the same item.     *)
THEOREM FencesCurrentHolds == Spec => []FencesCurrent
<1>1. Inv => FencesCurrent
  BY DEF Inv
<1> QED
  BY <1>1, Invariance, PTL

(* No item is in flight or completed before all it depends on is complete. *)
THEOREM DependentsWaitHolds == Spec => []DependentsWait
<1>1. Inv => DependentsWait
  BY DEF Inv
<1> QED
  BY <1>1, Invariance, PTL

(* An item that completed, failed or was cancelled stays so.               *)
THEOREM TerminalStaysHolds == Spec => TerminalStays
<1>1. Inv /\ [Next]_vars => [\A i \in Items : state[i] \in Terminal => state'[i] = state[i]]_vars
  <2> SUFFICES ASSUME Inv, [Next]_vars
               PROVE  \A i \in Items : state[i] \in Terminal => state'[i] = state[i]
    OBVIOUS
  <2> QED
    BY StepKeeps, EachItemSteps, ItemKept
<1> QED
  BY <1>1, Invariance, PTL DEF Spec, TerminalStays
==============================================================================
