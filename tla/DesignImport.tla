----------------------------- MODULE DesignImport -----------------------------
(***************************************************************************)
(* crates/opensks-design, import.rs, and the token editor of draft.rs: an  *)
(* imported design package waits in quarantine until a person approves it, *)
(* which copies it file by file into the registry of the workspace, or     *)
(* rejects it.  Each call is a process of the command line and may die     *)
(* anywhere.  All imports here carry one package id.                       *)
(***************************************************************************)
EXTENDS Integers, FiniteSets

CONSTANTS
    Imports,        \* quarantine ids, each with contents of its own
    Approvers,      \* calls of approve_import
    Savers,         \* calls of save_token_values
    Missing,        \* there is no such file
    Faults          \* bounds: "io" errors of approvals, "crash"es of them

(* In the order in which copy_tree sorts them.                             *)
Files == <<"DESIGN.md", "manifest.json", "tokens.json">>
FileNames == {Files[i] : i \in 1..3}

VARIABLES
    stage,          \* quarantine -> "unused", "listed", "gone"
    payload,        \* quarantines with all the files of a sound package
    locked,         \* quarantines with an approve lock file
    package,        \* file of the registry's package -> whose contents it has
    approve,        \* progress of each approve_import
    save,           \* progress of each save_token_values
    trouble,        \* what may still go wrong
    contested       \* history: quarantines approved while another one was,
                    \* or rejected while they were

vars == <<stage, payload, locked, package, approve, save, trouble, contested>>

Init ==
    /\ stage = [q \in Imports |-> "unused"]
    /\ payload = {}
    /\ locked = {}
    /\ package = [f \in FileNames |-> Missing]
    /\ approve = [a \in Approvers |-> [step |-> "new", of |-> Missing, copied |-> 0]]
    /\ save = [s \in Savers |-> "new"]
    /\ trouble = Faults
    /\ contested = {}

In(a, step) == approve[a].step = step
Go(a, step) == approve' = [approve EXCEPT ![a].step = step]
Spend(kind) == trouble[kind] > 0 /\ trouble' = [trouble EXCEPT ![kind] = @ - 1]

(* quarantine_import: nobody knows the new id before the entry is written. *)
(* What the defences refuse keeps an entry and no payload; they let        *)
(* packages pass that the registry will not.                               *)
Import(q) ==
    /\ stage[q] = "unused"
    /\ stage' = [stage EXCEPT ![q] = "listed"]
    /\ payload' \in {payload, payload \cup {q}}
    /\ UNCHANGED <<locked, package, approve, save, trouble, contested>>

------------------------------------------------------------------------------
(* approve_import                                                          *)

Begin(a, q, step) == approve' = [approve EXCEPT ![a] = [step |-> step, of |-> q, copied |-> 0]]

(* Mutant: the quarantine is not claimed.                                  *)
ClaimShared(a, q) ==
    /\ In(a, "new") /\ stage[q] = "listed"
    /\ locked' = locked \cup {q}
    /\ Begin(a, q, "validate")
    /\ UNCHANGED <<stage, payload, package, save, trouble, contested>>

(* The lock file is created, or approval is in progress.                   *)
Claim(a, q) ==
    /\ In(a, "new") /\ stage[q] = "listed"
    /\ \/ q \notin locked /\ locked' = locked \cup {q} /\ Begin(a, q, "validate")
       \/ q \in locked /\ Begin(a, q, "refused") /\ UNCHANGED locked
    /\ UNCHANGED <<stage, payload, package, save, trouble, contested>>

(* A return drops the guard, which removes the lock file.                  *)
Return(a, answer) == Go(a, answer) /\ locked' = locked \ {approve[a].of}

(* The scan of the payload and the validation of a copy of it.             *)
Validate(a) ==
    /\ In(a, "validate")
    /\ \/ approve[a].of \in payload /\ Go(a, "look") /\ UNCHANGED <<locked, trouble>>
       \/ approve[a].of \notin payload /\ Return(a, "refused") /\ UNCHANGED trouble
       \/ Spend("io") /\ Return(a, "refused")
    /\ UNCHANGED <<stage, payload, package, save, contested>>

Promoting == {a \in Approvers : approve[a].step \in {"copy", "resolve", "undo"}}

(* Only a manifest already in place refuses the promotion.                 *)
LookAtTarget(a) ==
    /\ In(a, "look")
    /\ \/ /\ package["manifest.json"] # Missing
          /\ Return(a, "refused")
          /\ UNCHANGED contested
       \/ /\ package["manifest.json"] = Missing
          /\ Go(a, "copy")
          /\ LET rivals == {approve[b].of : b \in Promoting} \ {approve[a].of}
             IN  contested' = contested \cup rivals
                                \cup (IF rivals = {} THEN {} ELSE {approve[a].of})
          /\ UNCHANGED locked
    /\ UNCHANGED <<stage, payload, package, save, trouble>>

(* copy_tree: the next file, or an error when it is gone.                  *)
Copy(a) ==
    /\ In(a, "copy")
    /\ LET q == approve[a].of
           f == Files[approve[a].copied + 1]
       IN  \/ /\ q \in payload
              /\ package' = [package EXCEPT ![f] = q]
              /\ approve' = [approve EXCEPT ![a].copied = @ + 1,
                                            ![a].step = IF f = Files[3] THEN "resolve" ELSE "copy"]
              /\ UNCHANGED trouble
           \/ /\ q \notin payload
              /\ Go(a, "undo")
              /\ UNCHANGED <<package, trouble>>
           \/ Spend("io") /\ Go(a, "undo") /\ UNCHANGED package
    /\ UNCHANGED <<stage, payload, locked, save, contested>>

(* DesignRegistry.resolve: the hashes in the manifest fit all the files.   *)
Resolves == \E q \in Imports : \A f \in FileNames : package[f] = q

Resolve(a) ==
    /\ In(a, "resolve")
    /\ IF Resolves THEN Return(a, "promoted") ELSE Go(a, "undo") /\ UNCHANGED locked
    /\ UNCHANGED <<stage, payload, package, save, trouble, contested>>

(* The rollback removes the directory; that it could not is ignored.       *)
Undo(a) ==
    /\ In(a, "undo")
    /\ \/ package' = [f \in FileNames |-> Missing] /\ UNCHANGED trouble
       \/ Spend("io") /\ UNCHANGED package
    /\ Return(a, "refused")
    /\ UNCHANGED <<stage, payload, save, contested>>

(* The lock file stays, and with it whatever was copied.                   *)
Crash(a) ==
    /\ approve[a].step \in {"validate", "look", "copy", "resolve", "undo"}
    /\ Spend("crash")
    /\ Go(a, "dead")
    /\ UNCHANGED <<stage, payload, locked, package, save, contested>>

Approve(a) ==
    \/ \E q \in Imports : Claim(a, q)
    \/ Validate(a) \/ LookAtTarget(a) \/ Copy(a) \/ Resolve(a) \/ Undo(a) \/ Crash(a)

------------------------------------------------------------------------------
UnderApproval(q) ==
    \E a \in Approvers : approve[a].of = q /\ approve[a].step \in {"validate", "look", "copy", "resolve", "undo"}

(* reject_import removes the directory of the quarantine entry by entry,   *)
(* in the order of the file system, whoever is using it.                   *)
Reject(q) ==
    /\ stage[q] = "listed"
    /\ \/ q \in payload /\ payload' = payload \ {q} /\ UNCHANGED <<stage, locked>>
       \/ q \in locked /\ locked' = locked \ {q} /\ UNCHANGED <<stage, payload>>
       \/ /\ stage' = [stage EXCEPT ![q] = "gone"]
          /\ payload' = payload \ {q}
          /\ locked' = locked \ {q}
    /\ contested' = IF UnderApproval(q) THEN contested \cup {q} ELSE contested
    /\ UNCHANGED <<package, approve, save, trouble>>

(* save_token_values reads the tokens of the package, and replaces them    *)
(* later, making the directory again if it is gone.  The manifest keeps    *)
(* the old hash.                                                           *)
SaveLoads(s) ==
    /\ save[s] = "new"
    /\ package["tokens.json"] # Missing
    /\ save' = [save EXCEPT ![s] = "write"]
    /\ UNCHANGED <<stage, payload, locked, package, approve, trouble, contested>>

SaveWrites(s) ==
    /\ save[s] = "write"
    /\ package' = [package EXCEPT !["tokens.json"] = s]
    /\ save' = [save EXCEPT ![s] = "saved"]
    /\ UNCHANGED <<stage, payload, locked, approve, trouble, contested>>

Next ==
    \/ \E q \in Imports : Import(q) \/ Reject(q)
    \/ \E a \in Approvers : Approve(a)
    \/ \E s \in Savers : SaveLoads(s) \/ SaveWrites(s)

Spec == Init /\ [][Next]_vars

------------------------------------------------------------------------------
(* Properties                                                              *)

TypeOK ==
    /\ stage \in [Imports -> {"unused", "listed", "gone"}]
    /\ payload \subseteq Imports /\ locked \subseteq Imports /\ contested \subseteq Imports
    /\ package \in [FileNames -> Imports \cup Savers \cup {Missing}]
    /\ \A a \in Approvers :
           /\ approve[a].of \in Imports \cup {Missing}
           /\ approve[a].copied \in 0..3
           /\ approve[a].step \in {"new", "validate", "look", "copy", "resolve", "undo",
                                   "promoted", "refused", "dead"}

(* What an approval reported as promoted is in the registry to stay, whole *)
(* and with the contents that were approved, but for tokens edited since:  *)
(* no other approval of the quarantine, no rollback, crash or later import *)
(* takes a file of it away or replaces it.  Two quarantines of one package *)
(* approved at the same time do, for the lock is the quarantine's and not  *)
(* the package's; so may a rejection that overtakes an approval, which     *)
(* removes its lock.  Such quarantines are contested, and excepted.        *)
PromotedStays ==
    \A a \in Approvers :
        In(a, "promoted") /\ approve[a].of \notin contested =>
            \A f \in FileNames :
                package[f] \in {approve[a].of} \cup (IF f = "tokens.json" THEN Savers ELSE {})
=============================================================================
