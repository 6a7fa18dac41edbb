--------------------------- MODULE PushOutboxProofs ----------------------------
(***************************************************************************)
(* Theorems about PushOutbox, for any number of intents, callers, commits  *)
(* and mishaps.                                                            *)
(*                                                                         *)
(* The two properties follow what a call carries from step to step.  A row *)
(* that was read names commits that the ref had, and has unless somebody   *)
(* amended it; a call that is past the approval has one in the database    *)
(* for the digest of its row; a call that is past the push has its row's   *)
(* commits on the remote, but for those amended before and those forced    *)
(* out since.  So the oid that it reads there, and the receipt written     *)
(* from it, stand for those commits.                                       *)
(***************************************************************************)
EXTENDS PushOutbox, TLAPS

(* A call whose row has been read, but not left.                           *)
Carrying == {"approval", "push", "verify", "receipt", "clear"}

(* The rows in the database and in the callers' hands name commits that    *)
(* the ref has, or had.                                                    *)
RowsBehind ==
    /\ \A id \in Intents : intents[id] # None => intents[id].local \subseteq local \cup amended
    /\ \A q \in Enqueuers : enq[q].step \in {"observe", "insert"} =>
           enq[q].id \in Intents /\ enq[q].row \in Rows /\ enq[q].row.local \subseteq local \cup amended
    /\ \A x \in Executors : exe[x].step \in Carrying =>
           exe[x].id \in Intents /\ exe[x].row \in Rows /\ exe[x].row.local \subseteq local \cup amended

HasApproval(x) ==
    \E a \in granted : /\ a.id = exe[x].id
                       /\ a.digest = Digest(exe[x].row)
                       /\ Protected => a.ack

PushApproved == \A x \in Executors : exe[x].step = "push" => HasApproval(x)

PushLanded ==
    \A x \in Executors : exe[x].step = "verify" =>
        exe[x].row.local \ (amended \cup forced) \subseteq History(remote)

OidSeen ==
    \A x \in Executors : exe[x].step = "receipt" =>
        /\ exe[x].oid \in Oids
        /\ exe[x].row.local \ (amended \cup forced) \subseteq exe[x].oid
        /\ exe[x].oid \ forced \subseteq History(remote)

Inv ==
    /\ TypeOK
    /\ RowsBehind
    /\ PushApproved
    /\ PushLanded
    /\ OidSeen
    /\ ReceiptMeansLanded

LEMMA Initially == Init => Inv
<1> SUFFICES ASSUME Init PROVE Inv
  OBVIOUS
<1> USE DEF Init
<1>1. TypeOK
  BY BoundsAssumption DEF TypeOK, NewCall, Oids, Executions, Outcomes
<1>2. RowsBehind
  BY DEF RowsBehind, NewCall, Carrying
<1>3. PushApproved
  BY DEF PushApproved, NewCall
<1>4. PushLanded /\ OidSeen
  BY DEF PushLanded, OidSeen, NewCall
<1>5. ReceiptMeansLanded
  BY DEF ReceiptMeansLanded
<1> QED
  BY <1>1, <1>2, <1>3, <1>4, <1>5 DEF Inv

(* An oid that is there is the set of commits it reaches.                  *)
LEMMA Histories ==
    /\ \A oid \in Oids : History(oid) = oid
    /\ History(None) = {}
BY NoneAssumption DEF Oids, History

------------------------------------------------------------------------------
(* A call whose row has been read.                                         *)
LEMMA RowOf ==
    ASSUME TypeOK, RowsBehind, NEW x \in Executors,
           exe[x].step \in Carrying
    PROVE  /\ exe[x].id \in Intents /\ exe[x].row \in Rows
           /\ exe[x].row.local \in Oids
           /\ Key(exe[x].id, exe[x].row) \in Keys
BY DEF RowsBehind, Rows, Key, Keys

LEMMA MishapType ==
    ASSUME TypeOK, Mishap
    PROVE  mishaps' \in Nat
BY DEF TypeOK, Mishap

LEMMA CommitType == ASSUME TypeOK, NEW c \in Commits, Commit(c) PROVE TypeOK'
BY DEF TypeOK, Commit, tables, history, Oids

LEMMA ForeignPushType == ASSUME TypeOK, NEW c \in Foreign, ForeignPush(c) PROVE TypeOK'
BY DEF TypeOK, ForeignPush, tables, history, Oids, History

LEMMA PullType == ASSUME TypeOK, Pull PROVE TypeOK'
BY DEF TypeOK, Pull, tables, history, Oids, History

LEMMA AmendType == ASSUME TypeOK, Amend PROVE TypeOK'
<1>1. mishaps' \in Nat
  BY MishapType DEF Amend
<1>2. local' \in Oids /\ amended' \in Oids
  BY DEF TypeOK, Amend, Oids
<1> QED
  BY <1>1, <1>2 DEF TypeOK, Amend, tables

LEMMA ForcePushType == ASSUME TypeOK, ForcePush PROVE TypeOK'
<1>1. mishaps' \in Nat
  BY MishapType DEF ForcePush
<1>2. remote \in Oids
  BY DEF TypeOK, ForcePush
<1>3. remote' \in {None} \cup Oids /\ forced' \in Oids
  BY <1>2 DEF TypeOK, ForcePush, Oids
<1> QED
  BY <1>1, <1>3 DEF TypeOK, ForcePush, tables

LEMMA EnqueueReadsType ==
    ASSUME TypeOK, NEW q \in Enqueuers, NEW id \in Intents, EnqueueReads(q, id)
    PROVE  TypeOK'
BY DEF TypeOK, EnqueueReads, tables, refVars, history, Rows

LEMMA EnqueueObservesType ==
    ASSUME TypeOK, RowsBehind, NEW q \in Enqueuers, EnqueueObserves(q)
    PROVE  TypeOK'
BY DEF TypeOK, RowsBehind, EnqueueObserves, tables, refVars, history, Rows

LEMMA EnqueueInsertsType ==
    ASSUME TypeOK, RowsBehind, NEW q \in Enqueuers, EnqueueInserts(q)
    PROVE  TypeOK'
BY DEF TypeOK, RowsBehind, EnqueueInserts, refVars, history

LEMMA ApproveType ==
    ASSUME TypeOK, NEW id \in Intents, NEW ack \in BOOLEAN, Approve(id, ack)
    PROVE  TypeOK'
<1>1. intents[id] \in Rows
  BY DEF TypeOK, Approve
<1>2. [id |-> id, digest |-> Digest(intents[id]), ack |-> ack] \in Approvals
  BY <1>1 DEF Rows, Digest, Approvals
<1>3. approvals' \subseteq approvals \cup {[id |-> id, digest |-> Digest(intents[id]), ack |-> ack]}
  BY DEF Approve
<1>4. approvals' \subseteq granted' /\ granted' \subseteq Approvals
  BY <1>2, <1>3 DEF TypeOK, Approve
<1> QED
  BY <1>4 DEF TypeOK, Approve, refVars

(* A call goes on or ends.                                                 *)
Steps == {"new", "approval", "push", "verify", "receipt", "clear", "done"}

LEMMA GoType ==
    ASSUME TypeOK, NEW x \in Executors,
           \/ \E step \in Steps : Go(x, step)
           \/ \E result \in Outcomes : End(x, result)
    PROVE  exe' \in [Executors -> Executions]
<1>1. CASE \E step \in Steps : Go(x, step)
  BY <1>1 DEF TypeOK, Go, Executions, Steps
<1>2. CASE \E result \in Outcomes : End(x, result)
  <2> PICK result \in Outcomes : End(x, result)
    BY <1>2
  <2> DEFINE over == [NewCall EXCEPT !.step = "done", !.result = result]
  <2>1. over \in Executions
    BY DEF NewCall, Executions
  <2>2. exe' = [exe EXCEPT ![x] = over]
    BY DEF End
  <2> HIDE DEF over
  <2> QED
    BY <2>1, <2>2 DEF TypeOK
<1> QED
  BY <1>1, <1>2

LEMMA ExecuteLoadsType ==
    ASSUME TypeOK, NEW x \in Executors, NEW id \in Intents, ExecuteLoads(x, id)
    PROVE  TypeOK'
<1>1. exe' \in [Executors -> Executions]
  <2>1. intents[id] \in Rows /\ None \in Outcomes
    BY DEF TypeOK, ExecuteLoads, Outcomes
  <2>2. CASE End(x, "already_done")
    BY <2>2, GoType DEF Outcomes
  <2>3. CASE exe' = [exe EXCEPT ![x] = [NewCall EXCEPT !.step = "approval", !.id = id, !.row = intents[id]]]
    BY <2>1, <2>3 DEF TypeOK, NewCall, Executions
  <2> QED
    BY <2>2, <2>3 DEF ExecuteLoads
<1> QED
  BY <1>1 DEF TypeOK, ExecuteLoads, tables, refVars, history

LEMMA ExecuteChecksApprovalType ==
    ASSUME TypeOK, NEW x \in Executors, ExecuteChecksApproval(x)
    PROVE  TypeOK'
<1>1. exe' \in [Executors -> Executions]
  <2>1. (\E result \in Outcomes : End(x, result)) \/ Go(x, "push")
    BY DEF ExecuteChecksApproval, Outcomes
  <2> QED
    BY <2>1, GoType DEF Steps
<1> QED
  BY <1>1 DEF TypeOK, ExecuteChecksApproval, tables, refVars, history

(* The row of a call names a key that its failures and receipts have.      *)
LEMMA KeyOf ==
    ASSUME TypeOK, RowsBehind, NEW x \in Executors, exe[x].step \in Carrying
    PROVE  Key(exe[x].id, exe[x].row) \in Keys
BY RowOf

LEMMA ExecutePushesType ==
    ASSUME TypeOK, RowsBehind, NEW x \in Executors, ExecutePushes(x)
    PROVE  TypeOK'
<1>1. exe' \in [Executors -> Executions]
  BY GoType DEF ExecutePushes, Steps, Outcomes
<1>2. Key(exe[x].id, exe[x].row) \in Keys
  BY KeyOf DEF ExecutePushes, In, Carrying
<1>3. failures' \subseteq Keys
  BY <1>2 DEF TypeOK, ExecutePushes, RecordFailure
<1>4. mishaps' \in Nat
  BY MishapType DEF TypeOK, ExecutePushes
<1>5. remote' \in {None} \cup Oids
  BY DEF TypeOK, ExecutePushes
<1> QED
  BY <1>1, <1>3, <1>4, <1>5 DEF TypeOK, ExecutePushes, history

LEMMA ExecuteObservesType ==
    ASSUME TypeOK, RowsBehind, NEW x \in Executors, ExecuteObserves(x)
    PROVE  TypeOK'
<1>1. Key(exe[x].id, exe[x].row) \in Keys
  BY KeyOf DEF ExecuteObserves, In, Carrying
<1>2. CASE RecordFailure(x) /\ End(x, "push_failed")
  <2>1. exe' \in [Executors -> Executions] /\ failures' \subseteq Keys
    BY <1>1, <1>2, GoType DEF TypeOK, RecordFailure, Outcomes
  <2> QED
    BY <2>1 DEF TypeOK, ExecuteObserves, refVars, history
<1>3. CASE /\ exe' = [exe EXCEPT ![x].step = "receipt", ![x].oid = remote]
           /\ UNCHANGED failures
  <2>1. exe' \in [Executors -> Executions]
    BY <1>3 DEF TypeOK, Executions
  <2> QED
    BY <1>3, <2>1 DEF TypeOK, ExecuteObserves, refVars, history
<1> QED
  BY <1>2, <1>3 DEF ExecuteObserves

LEMMA ExecuteReceiptsType ==
    ASSUME TypeOK, RowsBehind, NEW x \in Executors, ExecuteReceipts(x)
    PROVE  TypeOK'
<1>1. exe' \in [Executors -> Executions]
  BY GoType DEF ExecuteReceipts, Steps
<1>2. Key(exe[x].id, exe[x].row) \in Keys /\ exe[x].oid \in {None} \cup Oids
  BY KeyOf DEF TypeOK, Executions, ExecuteReceipts, In, Carrying
<1>3. receipts' \subseteq [key : Keys, oid : {None} \cup Oids]
  BY <1>2 DEF TypeOK, ExecuteReceipts
<1> QED
  BY <1>1, <1>3 DEF TypeOK, ExecuteReceipts, refVars, history

LEMMA ExecuteClearsType ==
    ASSUME TypeOK, NEW x \in Executors, ExecuteClears(x)
    PROVE  TypeOK'
<1>1. exe' \in [Executors -> Executions]
  BY GoType DEF ExecuteClears, Outcomes
<1> QED
  BY <1>1 DEF TypeOK, ExecuteClears, refVars, history

LEMMA CrashType ==
    ASSUME TypeOK, NEW x \in Executors, Crash(x)
    PROVE  TypeOK'
<1>1. exe' \in [Executors -> Executions]
  BY DEF TypeOK, Crash, NewCall, Executions, Outcomes
<1>2. mishaps' \in Nat
  BY MishapType DEF Crash
<1> QED
  BY <1>1, <1>2 DEF TypeOK, Crash, tables, refVars, history

LEMMA TypeStep == TypeOK /\ RowsBehind /\ [Next]_vars => TypeOK'
<1> SUFFICES ASSUME TypeOK, RowsBehind, [Next]_vars PROVE TypeOK'
  OBVIOUS
<1>1. CASE \E c \in Commits : Commit(c)
  BY <1>1, CommitType
<1>2. CASE \E c \in Foreign : ForeignPush(c)
  BY <1>2, ForeignPushType
<1>3. CASE Pull
  BY <1>3, PullType
<1>4. CASE \E q \in Enqueuers : \/ EnqueueObserves(q) \/ EnqueueInserts(q)
                                \/ \E id \in Intents : EnqueueReads(q, id)
  BY <1>4, EnqueueObservesType, EnqueueInsertsType, EnqueueReadsType
<1>5. CASE \E id \in Intents, ack \in BOOLEAN : Approve(id, ack)
  BY <1>5, ApproveType
<1>6. CASE \E x \in Executors : Execute(x) \/ Crash(x)
  BY <1>6, ExecuteLoadsType, ExecuteChecksApprovalType, ExecutePushesType, ExecuteObservesType,
     ExecuteReceiptsType, ExecuteClearsType, CrashType DEF Execute
<1>7. CASE Amend \/ ForcePush
  BY <1>7, AmendType, ForcePushType
<1>8. CASE UNCHANGED vars
  BY <1>8 DEF vars, TypeOK
<1> QED
  BY <1>1, <1>2, <1>3, <1>4, <1>5, <1>6, <1>7, <1>8 DEF Next

------------------------------------------------------------------------------
(* What only grows: the commits that the ref or the remote has or had,     *)
(* those taken out, the approvals given.                                   *)
LEMMA Grows ==
    ASSUME TypeOK, [Next]_vars
    PROVE  /\ local \cup amended \subseteq local' \cup amended'
           /\ History(remote) \cup forced \subseteq History(remote') \cup forced'
           /\ amended \subseteq amended' /\ forced \subseteq forced'
           /\ granted \subseteq granted'
<1>1. CASE \E c \in Commits : Commit(c)
  BY <1>1 DEF Commit, history
<1>2. CASE \E c \in Foreign : ForeignPush(c)
  <2> PICK c \in Foreign : ForeignPush(c)
    BY <1>2
  <2>1. History(remote) \in Oids
    BY Histories DEF TypeOK, Oids
  <2>2. remote' \in Oids
    BY <2>1 DEF ForeignPush, Oids
  <2> QED
    BY <2>2, Histories DEF ForeignPush, history
<1>3. CASE Pull
  BY <1>3 DEF Pull, history
<1>4. CASE \E q \in Enqueuers : \/ EnqueueObserves(q) \/ EnqueueInserts(q)
                                \/ \E id \in Intents : EnqueueReads(q, id)
  BY <1>4 DEF EnqueueObserves, EnqueueInserts, EnqueueReads, refVars, history
<1>5. CASE \E id \in Intents, ack \in BOOLEAN : Approve(id, ack)
  BY <1>5 DEF Approve, refVars
<1>6. CASE \E x \in Executors : Execute(x) \/ Crash(x)
  <2> PICK x \in Executors : Execute(x) \/ Crash(x)
    BY <1>6
  <2>1. CASE ExecutePushes(x)
    <3>1. CASE FastForward /\ remote' = local
      BY <3>1, <2>1, Histories DEF TypeOK, ExecutePushes, FastForward, history
    <3>2. CASE UNCHANGED remote
      BY <2>1, <3>2 DEF ExecutePushes, history
    <3> QED
      BY <2>1, <3>1, <3>2 DEF ExecutePushes
  <2>2. CASE \E id \in Intents : ExecuteLoads(x, id)
    BY <2>2 DEF ExecuteLoads, refVars, history
  <2>3. CASE ExecuteChecksApproval(x) \/ ExecuteObserves(x) \/ ExecuteReceipts(x)
             \/ ExecuteClears(x) \/ Crash(x)
    BY <2>3 DEF ExecuteChecksApproval, ExecuteObserves, ExecuteReceipts, ExecuteClears, Crash,
       refVars, history
  <2> QED
    BY <2>1, <2>2, <2>3 DEF Execute
<1>7. CASE Amend
  BY <1>7 DEF Amend
<1>8. CASE ForcePush
  BY <1>8, Histories DEF TypeOK, ForcePush
<1>9. CASE UNCHANGED vars
  BY <1>9 DEF vars
<1> QED
  BY <1>1, <1>2, <1>3, <1>4, <1>5, <1>6, <1>7, <1>8, <1>9 DEF Next

(* What a step does to the calls of execute: only one of them moves.       *)
LEMMA OthersStay ==
    ASSUME TypeOK, [Next]_vars, NEW x \in Executors, exe'[x] # exe[x]
    PROVE  Execute(x) \/ Crash(x)
<1>1. exe' # exe
  OBVIOUS
<1>2. PICK y \in Executors : Execute(y) \/ Crash(y)
  BY <1>1 DEF Next, vars, Commit, ForeignPush, Pull, Amend, ForcePush, EnqueueObserves,
     EnqueueInserts, EnqueueReads, Approve
<1>3. \A z \in Executors : z # y => exe'[z] = exe[z]
  BY <1>2 DEF TypeOK, Execute, ExecuteLoads, ExecuteChecksApproval, ExecutePushes,
     ExecuteObserves, ExecuteReceipts, ExecuteClears, Crash, End, Go
<1> QED
  BY <1>2, <1>3

(* A call that has ended, died or begun carries nothing; one that goes on  *)
(* carries what it had.                                                    *)
LEMMA Ended ==
    ASSUME TypeOK, NEW x \in Executors, NEW result, End(x, result)
    PROVE  exe'[x].step = "done"
BY DEF TypeOK, End, NewCall

LEMMA CallGoes ==
    ASSUME TypeOK, NEW x \in Executors, NEW step, Go(x, step)
    PROVE  /\ exe'[x].step = step
           /\ exe'[x].id = exe[x].id /\ exe'[x].row = exe[x].row /\ exe'[x].oid = exe[x].oid
BY DEF TypeOK, Go, Executions

LEMMA Died ==
    ASSUME TypeOK, NEW x \in Executors, Crash(x)
    PROVE  exe'[x].step = "new"
BY DEF TypeOK, Crash, NewCall

LEMMA Loaded ==
    ASSUME TypeOK, NEW x \in Executors, NEW id \in Intents, ExecuteLoads(x, id)
    PROVE  \/ exe'[x].step = "done"
           \/ /\ exe'[x].step = "approval" /\ exe'[x].id = id /\ exe'[x].row = intents[id]
              /\ intents[id] # None
<1>1. CASE End(x, "already_done")
  BY <1>1, Ended
<1>2. CASE exe' = [exe EXCEPT ![x] = [NewCall EXCEPT !.step = "approval", !.id = id, !.row = intents[id]]]
  <2>1. exe'[x] = [step |-> "approval", id |-> id, row |-> intents[id], oid |-> None, result |-> None]
    BY <1>2 DEF TypeOK, NewCall
  <2> QED
    BY <2>1 DEF ExecuteLoads
<1> QED
  BY <1>1, <1>2 DEF ExecuteLoads

(* From one step of a call to the next it carries id and row along.        *)
LEMMA Carried ==
    ASSUME TypeOK, NEW x \in Executors, exe'[x].step \in Carrying,
           \/ ExecuteChecksApproval(x) \/ ExecutePushes(x) \/ ExecuteObserves(x)
           \/ ExecuteReceipts(x) \/ ExecuteClears(x) \/ Crash(x)
    PROVE  /\ exe[x].step \in Carrying
           /\ exe'[x].id = exe[x].id /\ exe'[x].row = exe[x].row
           /\ exe'[x].step = "push" => ExecuteChecksApproval(x)
           /\ exe'[x].step = "verify" => ExecutePushes(x) /\ remote' = local
           /\ exe'[x].step = "receipt" => ExecuteObserves(x) /\ remote # None /\ exe'[x].oid = remote
<1>1. CASE ExecuteChecksApproval(x)
  <2>1. (\E result : End(x, result)) \/ Go(x, "push")
    BY <1>1 DEF ExecuteChecksApproval
  <2> QED
    BY <1>1, <2>1, Ended, CallGoes DEF ExecuteChecksApproval, In, Carrying
<1>2. CASE ExecutePushes(x)
  <2>1. End(x, "push_failed") \/ (Go(x, "verify") /\ remote' = local)
    BY <1>2 DEF ExecutePushes
  <2> QED
    BY <1>2, <2>1, Ended, CallGoes DEF ExecutePushes, In, Carrying
<1>3. CASE ExecuteObserves(x)
  <2>1. CASE End(x, "push_failed")
    BY <2>1, Ended DEF Carrying
  <2>2. CASE remote # None /\ exe' = [exe EXCEPT ![x].step = "receipt", ![x].oid = remote]
    <3>1. /\ exe'[x].step = "receipt" /\ exe'[x].oid = remote
          /\ exe'[x].id = exe[x].id /\ exe'[x].row = exe[x].row
      BY <2>2 DEF TypeOK, Executions
    <3> QED
      BY <1>3, <2>2, <3>1 DEF ExecuteObserves, In, Carrying
  <2> QED
    BY <1>3, <2>1, <2>2 DEF ExecuteObserves
<1>4. CASE ExecuteReceipts(x)
  BY <1>4, CallGoes DEF ExecuteReceipts, In, Carrying
<1>5. CASE ExecuteClears(x) \/ Crash(x)
  BY <1>5, Ended, Died DEF ExecuteClears, Carrying
<1> QED
  BY <1>1, <1>2, <1>3, <1>4, <1>5

LEMMA RowsBehindStep == TypeOK /\ RowsBehind /\ [Next]_vars => RowsBehind'
<1> SUFFICES ASSUME TypeOK, RowsBehind, [Next]_vars PROVE RowsBehind'
  OBVIOUS
<1>1. local \cup amended \subseteq local' \cup amended'
  BY Grows
<1>2. ASSUME NEW id \in Intents, intents'[id] # None
      PROVE  intents'[id].local \subseteq local' \cup amended'
  <2>1. CASE intents'[id] = intents[id]
    BY <1>1, <1>2, <2>1 DEF RowsBehind
  <2>2. CASE intents'[id] # intents[id]
    <3>1. PICK q \in Enqueuers : EnqueueInserts(q)
      BY <2>2 DEF Next, vars, Commit, ForeignPush, Pull, Amend, ForcePush, EnqueueObserves,
         EnqueueReads, Approve, Execute, Crash, ExecuteLoads, ExecuteChecksApproval, ExecutePushes,
         ExecuteObserves, ExecuteReceipts, ExecuteClears, tables
    <3>2. intents'[id] = enq[q].row
      BY <3>1, <2>2 DEF TypeOK, EnqueueInserts
    <3> QED
      BY <1>1, <3>1, <3>2 DEF RowsBehind, EnqueueInserts
  <2> QED
    BY <2>1, <2>2
<1>3. ASSUME NEW q \in Enqueuers, enq'[q].step \in {"observe", "insert"}
      PROVE  enq'[q].id \in Intents /\ enq'[q].row \in Rows /\ enq'[q].row.local \subseteq local' \cup amended'
  <2>1. CASE enq'[q] = enq[q]
    BY <1>1, <1>3, <2>1 DEF RowsBehind
  <2>2. CASE enq'[q] # enq[q]
    <3>1. PICK p \in Enqueuers : \/ EnqueueObserves(p) \/ EnqueueInserts(p)
                                 \/ \E id \in Intents : EnqueueReads(p, id)
      BY <2>2 DEF Next, vars, Commit, ForeignPush, Pull, Amend, ForcePush, Approve, Execute, Crash,
         ExecuteLoads, ExecuteChecksApproval, ExecutePushes, ExecuteObserves, ExecuteReceipts,
         ExecuteClears
    <3>2. ~EnqueueInserts(p)
      BY <1>3, <2>2 DEF TypeOK, EnqueueInserts
    <3>3. CASE \E id \in Intents : EnqueueReads(p, id)
      <4>1. PICK id \in Intents : EnqueueReads(p, id)
        BY <3>3
      <4>2. enq'[q] = [step |-> "observe", id |-> id, row |-> [local |-> local, expected |-> None]]
        BY <4>1, <2>2 DEF TypeOK, EnqueueReads
      <4> QED
        BY <1>1, <4>2 DEF TypeOK, Rows
    <3>4. CASE EnqueueObserves(p)
      <4>1. /\ p = q /\ enq[q].step = "observe" /\ enq'[q].id = enq[q].id
            /\ enq'[q].row = [local |-> enq[q].row.local, expected |-> remote]
        BY <3>4, <2>2 DEF TypeOK, EnqueueObserves
      <4>2. enq[q].id \in Intents /\ enq[q].row \in Rows /\ enq[q].row.local \subseteq local \cup amended
        BY <4>1 DEF RowsBehind
      <4> QED
        BY <1>1, <4>1, <4>2 DEF TypeOK, Rows
    <3> QED
      BY <3>1, <3>2, <3>3, <3>4
  <2> QED
    BY <2>1, <2>2
<1>4. ASSUME NEW x \in Executors, exe'[x].step \in Carrying
      PROVE  exe'[x].id \in Intents /\ exe'[x].row \in Rows /\ exe'[x].row.local \subseteq local' \cup amended'
  <2>1. CASE exe[x].step \in Carrying /\ exe'[x].id = exe[x].id /\ exe'[x].row = exe[x].row
    BY <1>1, <2>1 DEF RowsBehind
  <2>2. CASE \E id \in Intents : ExecuteLoads(x, id)
    <3> PICK id \in Intents : ExecuteLoads(x, id)
      BY <2>2
    <3>1. exe'[x].id = id /\ exe'[x].row = intents[id] /\ intents[id] # None
      BY <1>4, Loaded DEF Carrying
    <3>2. intents[id] \in Rows /\ intents[id].local \subseteq local \cup amended
      BY <3>1 DEF TypeOK, RowsBehind
    <3> QED
      BY <1>1, <3>1, <3>2
  <2>3. CASE exe'[x] = exe[x]
    BY <1>4, <2>1, <2>3
  <2> QED
    BY <1>4, <2>1, <2>2, <2>3, OthersStay, Carried DEF Execute
<1> QED
  BY <1>2, <1>3, <1>4 DEF RowsBehind

LEMMA PushApprovedStep ==
    TypeOK /\ RowsBehind /\ PushApproved /\ [Next]_vars => PushApproved'
<1> SUFFICES ASSUME TypeOK, RowsBehind, PushApproved, [Next]_vars,
                    NEW x \in Executors, exe'[x].step = "push"
             PROVE  HasApproval(x)'
  BY DEF PushApproved
<1>1. granted \subseteq granted'
  BY Grows
<1>2. CASE exe'[x] = exe[x]
  BY <1>1, <1>2 DEF PushApproved, HasApproval
<1>3. CASE exe'[x] # exe[x]
  <2>1. ~ \E id \in Intents : ExecuteLoads(x, id)
    BY Loaded
  <2>2. ExecuteChecksApproval(x) /\ exe'[x].id = exe[x].id /\ exe'[x].row = exe[x].row
    BY <1>3, <2>1, OthersStay, Carried DEF Execute, Carrying
  <2>3. PICK a \in ApprovalsOf(x) : ~(Protected /\ ~a.ack)
    BY <2>2, Ended DEF ExecuteChecksApproval
  <2>4. a \in granted /\ a.id = exe[x].id /\ a.digest = Digest(exe[x].row)
    BY DEF TypeOK, ApprovalsOf
  <2> QED
    BY <1>1, <2>2, <2>3, <2>4 DEF HasApproval
<1> QED
  BY <1>2, <1>3

LEMMA PushLandedStep ==
    TypeOK /\ RowsBehind /\ PushLanded /\ [Next]_vars => PushLanded'
<1> SUFFICES ASSUME TypeOK, RowsBehind, PushLanded, [Next]_vars,
                    NEW x \in Executors, exe'[x].step = "verify"
             PROVE  exe'[x].row.local \ (amended' \cup forced') \subseteq History(remote')
  BY DEF PushLanded
<1>1. CASE exe'[x] = exe[x]
  BY <1>1, Grows DEF PushLanded
<1>2. CASE exe'[x] # exe[x]
  <2>1. ~ \E id \in Intents : ExecuteLoads(x, id)
    BY Loaded
  <2>2. ExecutePushes(x) /\ remote' = local /\ exe'[x].row = exe[x].row
    BY <1>2, <2>1, OthersStay, Carried DEF Execute, Carrying
  <2>3. exe[x].row.local \subseteq local \cup amended
    BY <2>2 DEF RowsBehind, ExecutePushes, In, Carrying
  <2>4. History(remote') = local /\ amended \subseteq amended'
    BY <2>2, Histories, Grows DEF TypeOK
  <2> QED
    BY <2>2, <2>3, <2>4
<1> QED
  BY <1>1, <1>2

LEMMA OidSeenStep ==
    TypeOK /\ RowsBehind /\ PushLanded /\ OidSeen /\ [Next]_vars => OidSeen'
<1> SUFFICES ASSUME TypeOK, RowsBehind, PushLanded, OidSeen, [Next]_vars,
                    NEW x \in Executors, exe'[x].step = "receipt"
             PROVE  /\ exe'[x].oid \in Oids
                    /\ exe'[x].row.local \ (amended' \cup forced') \subseteq exe'[x].oid
                    /\ exe'[x].oid \ forced' \subseteq History(remote')
  BY DEF OidSeen, Oids
<1>1. CASE exe'[x] = exe[x]
  BY <1>1, Grows DEF OidSeen
<1>2. CASE exe'[x] # exe[x]
  <2>1. ~ \E id \in Intents : ExecuteLoads(x, id)
    BY Loaded
  <2>2. /\ ExecuteObserves(x) /\ remote # None
        /\ exe'[x].oid = remote /\ exe'[x].row = exe[x].row
    BY <1>2, <2>1, OthersStay, Carried DEF Execute, Carrying
  <2>3. exe[x].row.local \ (amended \cup forced) \subseteq History(remote)
    BY <2>2 DEF PushLanded, ExecuteObserves, In
  <2>4. remote \in Oids /\ History(remote) = remote
    BY <2>2, Histories DEF TypeOK
  <2> QED
    BY <2>2, <2>3, <2>4, Grows
<1> QED
  BY <1>1, <1>2

LEMMA ReceiptStep ==
    TypeOK /\ RowsBehind /\ OidSeen /\ ReceiptMeansLanded /\ [Next]_vars => ReceiptMeansLanded'
<1> SUFFICES ASSUME TypeOK, RowsBehind, OidSeen, ReceiptMeansLanded, [Next]_vars, NEW r \in receipts'
             PROVE  /\ r.oid # None
                    /\ r.oid \ forced' \subseteq History(remote')
                    /\ r.key[2] \ (amended' \cup forced') \subseteq r.oid
  BY DEF ReceiptMeansLanded
<1>1. CASE r \in receipts
  BY <1>1, Grows DEF ReceiptMeansLanded
<1>2. CASE r \notin receipts
  <2>1. PICK x \in Executors : ExecuteReceipts(x)
    BY <1>2 DEF Next, vars, Commit, ForeignPush, Pull, Amend, ForcePush, EnqueueObserves,
       EnqueueInserts, EnqueueReads, Approve, Execute, Crash, ExecuteLoads, ExecuteChecksApproval,
       ExecutePushes, ExecuteObserves, ExecuteClears, tables
  <2>2. r = [key |-> Key(exe[x].id, exe[x].row), oid |-> exe[x].oid]
    BY <1>2, <2>1 DEF ExecuteReceipts
  <2>3. /\ exe[x].oid \in Oids
        /\ exe[x].row.local \ (amended \cup forced) \subseteq exe[x].oid
        /\ exe[x].oid \ forced \subseteq History(remote)
    BY <2>1 DEF OidSeen, ExecuteReceipts, In
  <2>4. exe[x].oid # None
    BY <2>3, NoneAssumption DEF Oids
  <2>5. r.key[2] = exe[x].row.local /\ r.oid = exe[x].oid
    BY <2>2 DEF Key
  <2> QED
    BY <2>3, <2>4, <2>5, Grows
<1> QED
  BY <1>1, <1>2

LEMMA Step == Inv /\ [Next]_vars => Inv'
BY TypeStep, RowsBehindStep, PushApprovedStep, PushLandedStep, OidSeenStep, ReceiptStep DEF Inv

(* The variables always have their types.                                  *)
THEOREM TypeCorrect == Spec => []TypeOK
<1>1. Inv => TypeOK
  BY DEF Inv
<1> QED
  BY Initially, Step, <1>1, PTL DEF Spec

(* A push receipt names what the remote was seen to have and still has,    *)
(* but for commits that others forced out; and it has all the commits of   *)
(* the intent as it was approved, but for those that somebody took out of  *)
(* the branch, however the branch is rewritten at either end.              *)
THEOREM ReceiptsAreTrue == Spec => []ReceiptMeansLanded
<1>1. Inv => ReceiptMeansLanded
  BY DEF Inv
<1> QED
  BY Initially, Step, <1>1, PTL DEF Spec

(* Whatever execute changes on the remote, also when it then reports a     *)
(* failure, it changes for an intent of which this very digest was         *)
(* approved, with the acknowledgement on a protected ref; and unless it    *)
(* was amended here, the intent's history goes there whole.                *)
THEOREM PushesAreApproved == Spec => PushedWithApproval
<1>1. Inv /\ [Next]_vars =>
          [\A x \in Executors :
               exe'[x] # exe[x] /\ remote' # remote =>
                   /\ \E a \in granted : /\ a.id = exe[x].id
                                         /\ a.digest = Digest(exe[x].row)
                                         /\ Protected => a.ack
                   /\ exe[x].row.local \ amended \subseteq remote']_vars
  <2> SUFFICES ASSUME Inv, [Next]_vars, NEW x \in Executors, exe'[x] # exe[x], remote' # remote
               PROVE  HasApproval(x) /\ exe[x].row.local \ amended \subseteq remote'
    BY DEF HasApproval
  <2>1. ExecutePushes(x)
    BY OthersStay DEF Inv, Execute, ExecuteLoads, ExecuteChecksApproval, ExecuteObserves,
       ExecuteReceipts, ExecuteClears, Crash, refVars
  <2>2. exe[x].step = "push" /\ remote' = local
    BY <2>1 DEF ExecutePushes, In
  <2>3. HasApproval(x)
    BY <2>2 DEF Inv, PushApproved
  <2>4. exe[x].row.local \subseteq local \cup amended
    BY <2>2 DEF Inv, RowsBehind, Carrying
  <2> QED
    BY <2>2, <2>3, <2>4
<1> QED
  BY Initially, Step, <1>1, PTL DEF Spec, PushedWithApproval
=============================================================================
