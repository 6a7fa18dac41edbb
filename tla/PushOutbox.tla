------------------------------ MODULE PushOutbox ------------------------------
(***************************************************************************)
(* crates/opensks-git, push.rs: the durable outbox in front of git push.   *)
(* An intent records the local and the remote oid of its ref and the       *)
(* digest of both; an approval names a digest; execute pushes the ref if   *)
(* an approval has the digest the intent has now, reads back what the      *)
(* remote has, and leaves a receipt.  Callers are processes of their own   *)
(* that share nothing but the database and may die between two statements. *)
(* An oid stands for the set of commits it reaches.                        *)
(***************************************************************************)
EXTENDS Integers, FiniteSets

CONSTANTS
    Intents,        \* intent ids, all for one ref of one remote
    Commits,        \* commits that the user makes
    Foreign,        \* commits that others push
    Protected,      \* the ref is a protected one
    Enqueuers, Executors,   \* calls of enqueue and of execute
    None,           \* no row, no branch on the remote
    MaxApprovals,   \* bound on approvals
    Mishaps         \* bound on failing pushes, crashes and rewritten branches

(* A branch that is missing is not an empty one.                           *)
ASSUME NoneAssumption == \A oid \in SUBSET (Commits \cup Foreign) : oid # None
ASSUME BoundsAssumption == MaxApprovals \in Nat /\ Mishaps \in Nat

VARIABLES
    local, remote,  \* the ref here and there
    intents, approvals, receipts,   \* tables of the database
    failures,       \* idempotency keys in push_failure_diagnostics
    enq, exe,       \* progress of the calls
    mishaps,        \* mishaps still to come
    amended, forced,\* history: commits taken out of the ref, here and there
    granted         \* history: every approval ever recorded

vars == <<local, remote, intents, approvals, receipts, failures, enq, exe, mishaps,
          amended, forced, granted>>
refVars == <<local, remote>>
history == <<amended, forced, granted>>
tables == <<intents, approvals, receipts, failures>>

Digest(i) == <<i.local, i.expected>>
Key(id, i) == <<id, i.local>>

NewCall == [step |-> "new", id |-> None, row |-> None, oid |-> None, result |-> None]

Init ==
    /\ local = {} /\ remote = None
    /\ intents = [id \in Intents |-> None]
    /\ approvals = {} /\ receipts = {} /\ failures = {}
    /\ enq = [q \in Enqueuers |-> [step |-> "new", id |-> None, row |-> None]]
    /\ exe = [x \in Executors |-> NewCall]
    /\ mishaps = Mishaps
    /\ amended = {} /\ forced = {} /\ granted = {}

Mishap == mishaps > 0 /\ mishaps' = mishaps - 1

------------------------------------------------------------------------------
(* The ref moves: a commit here, a push from elsewhere there, a pull.      *)
Commit(c) ==
    /\ c \notin local
    /\ local' = local \cup {c}
    /\ UNCHANGED <<remote, tables, enq, exe, mishaps, history>>

History(r) == IF r = None THEN {} ELSE r

ForeignPush(c) ==
    /\ c \notin History(remote)
    /\ remote' = History(remote) \cup {c}
    /\ UNCHANGED <<local, tables, enq, exe, mishaps, history>>

Pull ==
    /\ ~ History(remote) \subseteq local
    /\ local' = local \cup History(remote)
    /\ UNCHANGED <<remote, tables, enq, exe, mishaps, history>>

(* An amended, rebased or reset branch has lost commits; what replaces     *)
(* them is committed next.                                                 *)
Amend ==
    /\ Mishap
    /\ local' \in (SUBSET local) \ {{}, local}
    /\ amended' = amended \cup (local \ local')
    /\ UNCHANGED <<remote, tables, enq, exe, forced, granted>>

(* Others push by force, or delete the branch.                             *)
ForcePush ==
    /\ Mishap
    /\ remote # None
    /\ remote' \in ((SUBSET remote) \ {{}, remote}) \cup {None}
    /\ forced' = forced \cup (remote \ History(remote'))
    /\ UNCHANGED <<local, tables, enq, exe, amended, granted>>

------------------------------------------------------------------------------
(* enqueue reads the local oid, asks the remote for its own, and replaces   *)
(* the intent's row.                                                       *)
EnqueueReads(q, id) ==
    /\ enq[q].step = "new"
    /\ local # {}
    /\ enq' = [enq EXCEPT ![q] = [step |-> "observe", id |-> id,
                                  row |-> [local |-> local, expected |-> None]]]
    /\ UNCHANGED <<refVars, tables, exe, mishaps, history>>

EnqueueObserves(q) ==
    /\ enq[q].step = "observe"
    /\ enq' = [enq EXCEPT ![q] = [step |-> "insert", id |-> enq[q].id,
                                  row |-> [local |-> enq[q].row.local, expected |-> remote]]]
    /\ UNCHANGED <<refVars, tables, exe, mishaps, history>>

EnqueueInserts(q) ==
    /\ enq[q].step = "insert"
    /\ intents' = [intents EXCEPT ![enq[q].id] = enq[q].row]
    /\ enq' = [enq EXCEPT ![q] = [step |-> "done", id |-> None, row |-> None]]
    /\ UNCHANGED <<refVars, approvals, receipts, failures, exe, mishaps, history>>

(* approve is given the digest that the user was shown and records it if   *)
(* it is the current one, under an id that the command line makes up.  Of  *)
(* the approvals of one digest the latest counts, so the earlier ones are  *)
(* left out.                                                               *)
Approve(id, ack) ==
    /\ intents[id] # None
    /\ LET digest == Digest(intents[id])
       IN  approvals' = {a \in approvals : a.id # id \/ a.digest # digest}
                            \cup {[id |-> id, digest |-> digest, ack |-> ack]}
    /\ approvals' # approvals
    /\ granted' = granted \cup approvals'
    /\ Cardinality(granted') <= MaxApprovals
    /\ UNCHANGED <<refVars, intents, receipts, failures, enq, exe, mishaps, amended, forced>>

------------------------------------------------------------------------------
In(x, step) == exe[x].step = step
Go(x, step) == exe' = [exe EXCEPT ![x].step = step]
End(x, result) == exe' = [exe EXCEPT ![x] = [NewCall EXCEPT !.step = "done", !.result = result]]

Receipt(key) == {r \in receipts : r.key = key}

(* A completed receipt ends the call before anything is pushed.            *)
ExecuteLoads(x, id) ==
    /\ In(x, "new")
    /\ intents[id] # None
    /\ IF Receipt(Key(id, intents[id])) # {}
       THEN End(x, "already_done")
       ELSE exe' = [exe EXCEPT ![x] = [NewCall EXCEPT !.step = "approval", !.id = id, !.row = intents[id]]]
    /\ UNCHANGED <<refVars, tables, enq, mishaps, history>>

(* Mutant: any approval of the intent will do.                             *)
ApprovalOfAnyDigest(x) == {a \in approvals : a.id = exe[x].id}

(* valid_approval                                                          *)
ApprovalsOf(x) == {a \in approvals : a.id = exe[x].id /\ a.digest = Digest(exe[x].row)}

ExecuteChecksApproval(x) ==
    /\ In(x, "approval")
    /\ IF ApprovalsOf(x) = {}
       THEN End(x, IF \E a \in approvals : a.id = exe[x].id
                   THEN "digest_mismatch" ELSE "no_matching_approval")
       ELSE \E a \in ApprovalsOf(x) :
                IF Protected /\ ~a.ack THEN End(x, "protected_branch") ELSE Go(x, "push")
    /\ UNCHANGED <<refVars, tables, enq, mishaps, history>>

FastForward == History(remote) \subseteq local

RecordFailure(x) == failures' = failures \cup {Key(exe[x].id, exe[x].row)}

(* Mutant: a push that is refused is taken for one that had nothing to do. *)
PushIgnoresRefusal(x) ==
    /\ In(x, "push")
    /\ remote' = IF FastForward THEN local ELSE remote
    /\ Go(x, "verify")
    /\ UNCHANGED <<local, tables, enq, mishaps, history>>

(* git push <ref>:<ref> sends what the ref is now, if the remote's is an   *)
(* ancestor of it; an error may come after the remote has taken it.        *)
ExecutePushes(x) ==
    /\ In(x, "push")
    /\ \/ /\ FastForward /\ remote' = local
          /\ Go(x, "verify")
          /\ UNCHANGED <<failures, mishaps>>
       \/ /\ \/ ~FastForward /\ UNCHANGED <<remote, mishaps>>
             \/ Mishap /\ (UNCHANGED remote \/ (FastForward /\ remote' = local))
          /\ RecordFailure(x)
          /\ End(x, "push_failed")
    /\ UNCHANGED <<local, intents, approvals, receipts, enq, history>>

(* git ls-remote; a branch that is not there is a push that failed.        *)
ExecuteObserves(x) ==
    /\ In(x, "verify")
    /\ IF remote = None
       THEN RecordFailure(x) /\ End(x, "push_failed")
       ELSE /\ exe' = [exe EXCEPT ![x].step = "receipt", ![x].oid = remote]
            /\ UNCHANGED failures
    /\ UNCHANGED <<refVars, intents, approvals, receipts, enq, mishaps, history>>

(* The receipt, unless one is there, ...                                   *)
ExecuteReceipts(x) ==
    LET key == Key(exe[x].id, exe[x].row)
    IN  /\ In(x, "receipt")
        /\ receipts' = IF Receipt(key) # {} THEN receipts
                       ELSE receipts \cup {[key |-> key, oid |-> exe[x].oid]}
        /\ Go(x, "clear")
        /\ UNCHANGED <<refVars, intents, approvals, failures, enq, mishaps, history>>

(* ... and the earlier failure goes.                                       *)
ExecuteClears(x) ==
    /\ In(x, "clear")
    /\ failures' = failures \ {Key(exe[x].id, exe[x].row)}
    /\ End(x, "pushed")
    /\ UNCHANGED <<refVars, intents, approvals, receipts, enq, mishaps, history>>

(* A process that dies, or returns an Err of a query or a statement, may   *)
(* be started again.                                                       *)
Crash(x) ==
    /\ exe[x].step \notin {"new", "done"}
    /\ Mishap
    /\ exe' = [exe EXCEPT ![x] = NewCall]
    /\ UNCHANGED <<refVars, tables, enq, history>>

Execute(x) ==
    \/ \E id \in Intents : ExecuteLoads(x, id)
    \/ ExecuteChecksApproval(x) \/ ExecutePushes(x) \/ ExecuteObserves(x)
    \/ ExecuteReceipts(x) \/ ExecuteClears(x)

Next ==
    \/ \E c \in Commits : Commit(c)
    \/ \E c \in Foreign : ForeignPush(c)
    \/ Pull \/ Amend \/ ForcePush
    \/ \E q \in Enqueuers : EnqueueObserves(q) \/ EnqueueInserts(q) \/ \E id \in Intents : EnqueueReads(q, id)
    \/ \E id \in Intents, ack \in BOOLEAN : Approve(id, ack)
    \/ \E x \in Executors : Execute(x) \/ Crash(x)

Spec == Init /\ [][Next]_vars

------------------------------------------------------------------------------
(* Properties                                                              *)

Oids == SUBSET (Commits \cup Foreign)
Rows == [local : Oids, expected : {None} \cup Oids]
Approvals == [id : Intents, digest : Oids \X ({None} \cup Oids), ack : BOOLEAN]
Keys == Intents \X Oids
Outcomes == {None, "already_done", "digest_mismatch", "no_matching_approval",
             "protected_branch", "push_failed", "pushed"}
Executions == [step : {"new", "approval", "push", "verify", "receipt", "clear", "done"},
               id : {None} \cup Intents, row : {None} \cup Rows, oid : {None} \cup Oids,
               result : Outcomes]

TypeOK ==
    /\ local \in Oids
    /\ remote \in {None} \cup Oids
    /\ intents \in [Intents -> {None} \cup Rows]
    /\ approvals \subseteq granted
    /\ granted \subseteq Approvals
    /\ receipts \subseteq [key : Keys, oid : {None} \cup Oids]
    /\ failures \subseteq Keys
    /\ enq \in [Enqueuers -> [step : {"new", "observe", "insert", "done"}, id : {None} \cup Intents,
                              row : {None} \cup Rows]]
    /\ exe \in [Executors -> Executions]
    /\ mishaps \in Nat
    /\ amended \in Oids /\ forced \in Oids

(* A receipt names what the remote was seen to have, which stays there     *)
(* except for commits that others take out by force; and that is all the   *)
(* intent was approved with, except for commits that somebody took out of  *)
(* the ref, here or there.                                                 *)
ReceiptMeansLanded ==
    \A r \in receipts :
        /\ r.oid # None
        /\ r.oid \ forced \subseteq History(remote)
        /\ r.key[2] \ (amended \cup forced) \subseteq r.oid

(* Nothing is pushed for an intent unless an approval of that very intent, *)
(* of what the ref and the remote were when it was enqueued, was recorded, *)
(* with the acknowledgement on a protected ref; and unless commits of it   *)
(* were taken out of the ref here, it goes to the remote whole.            *)
PushedWithApproval ==
    [][\A x \in Executors :
           exe'[x] # exe[x] /\ remote' # remote =>
               /\ \E a \in granted : /\ a.id = exe[x].id
                                     /\ a.digest = Digest(exe[x].row)
                                     /\ Protected => a.ack
               /\ exe[x].row.local \ amended \subseteq remote']_vars
=============================================================================
