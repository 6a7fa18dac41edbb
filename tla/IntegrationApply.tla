--------------------------- MODULE IntegrationApply ---------------------------
(***************************************************************************)
(* How a run's change, prepared in an isolated worktree, reaches the main  *)
(* workspace (crates/opensks-daemon, crates/opensks-git).  A turn writes   *)
(* the candidate: patch first, receipt second; a turn recovered after a    *)
(* lost lease writes it again.  Apply calls - of the turn, of its          *)
(* objective plan, of a client that may retry - take the run's lock file,  *)
(* read the receipt and, later, the patch, verify them against the         *)
(* workspace, ask for the approval, apply the patch with a rollback, and   *)
(* leave final.diff, seal and receipt.  The receipt's target paths are     *)
(* what is checked and rolled back; the patch's own are what it writes.    *)
(* Meanwhile the user edits, commits and reverts the same files.           *)
(***************************************************************************)
EXTENDS Integers, FiniteSets, Sequences

CONSTANTS
    Versions,       \* contents of the candidate, 1..n: one per turn execution
    Paths, Targets, \* files, and those each version's patch edits
    Defective,      \* versions whose receipt misses shards or has bad targets
    SecretPaths,    \* files whose name looks like a secret's
    Destructive,    \* versions whose patch has a destructive statement
    Policy,         \* "safe_interactive", "autopilot" or "mad_sks"
    Requests,       \* apply calls
    PassesId,       \* those that pass the approval id
    None, User,     \* no value; an edit of the user
    Troubles        \* bound on faults - I/O errors and crashes - and on moves of the user

VARIABLES
    head, tree,     \* HEAD and the workspace: the edits, <<file, whose>>, in each
    patch, receipt, \* candidate.patch and candidate.json
    turn,           \* the turn execution that prepares a candidate
    lock,           \* apply.lock exists
    finalDiff, seal,\* final.diff and seal.json exist
    approved,       \* the approval event is in the run's journal
    req,            \* progress of each apply call
    troubles,       \* troubles still to come
    applied,        \* history: the calls whose patch went in and stayed
    moved           \* history: the calls since whose verification the user moved

vars == <<head, tree, patch, receipt, turn, lock, finalDiff, seal, approved, req, troubles, applied, moved>>
mainVars == <<head, tree>>
candidateVars == <<patch, receipt, turn>>
sealVars == <<finalDiff, seal>>

NewRequest == [step |-> "new", receipt |-> None, patch |-> None, rollback |-> None, result |-> None]

Init ==
    /\ head = {} /\ tree = {}
    /\ patch = None /\ receipt = None
    /\ turn = [step |-> "idle", version |-> 0, base |-> {}]
    /\ lock = FALSE
    /\ finalDiff = FALSE /\ seal = FALSE
    /\ approved = FALSE
    /\ req = [r \in Requests |-> NewRequest]
    /\ troubles = Troubles
    /\ applied = {}
    /\ moved = {}

(* The edits of a version, and those of some edits that are in some files. *)
EditsOf(v) == Targets[v] \X {v}
On(edits, paths) == {e \in edits : e[1] \in paths}

Trouble(kind) == troubles[kind] > 0 /\ troubles' = [troubles EXCEPT ![kind] = @ - 1]

------------------------------------------------------------------------------
(* The turn: an isolated worktree at HEAD, then write_integration_candidate. *)
PrepareIsolation ==
    /\ turn.step = "idle"
    /\ turn.version + 1 \in Versions
    /\ turn' = [step |-> "isolated", version |-> turn.version + 1, base |-> head]
    /\ UNCHANGED <<mainVars, patch, receipt, lock, sealVars, approved, req, troubles, applied, moved>>

WriteCandidatePatch ==
    /\ turn.step = "isolated"
    /\ patch' = turn.version
    /\ turn' = [turn EXCEPT !.step = "patched"]
    /\ UNCHANGED <<mainVars, receipt, lock, sealVars, approved, req, troubles, applied, moved>>

WriteCandidateReceipt ==
    /\ turn.step = "patched"
    /\ receipt' = [version |-> turn.version, base |-> turn.base]
    /\ turn' = [turn EXCEPT !.step = "idle"]
    /\ UNCHANGED <<mainVars, patch, lock, sealVars, approved, req, troubles, applied, moved>>

(* The approval event names the run and the approval, not the patch.       *)
Approve ==
    /\ receipt # None
    /\ ~approved
    /\ approved' = TRUE
    /\ UNCHANGED <<mainVars, candidateVars, lock, sealVars, req, troubles, applied, moved>>

(* The user at the files, in an editor or with git.                        *)
UserEdits == UNCHANGED head /\ \E p \in Paths : tree' = tree \cup {<<p, User>>}
UserCommits == head' = tree /\ UNCHANGED tree
UserReverts == tree' = head /\ UNCHANGED head

UserMoves ==
    /\ Trouble("user")
    /\ UserEdits \/ UserCommits \/ UserReverts
    /\ mainVars' # mainVars
    /\ moved' = Requests
    /\ UNCHANGED <<candidateVars, lock, sealVars, approved, req, applied>>

------------------------------------------------------------------------------
At(r, step) == req[r].step = step
Go(r, step) == req' = [req EXCEPT ![r].step = step]

(* Dropping the lock guard removes apply.lock, whatever the call returns.  *)
Return(r, result) ==
    /\ req' = [req EXCEPT ![r].step = "returned", ![r].result = result]
    /\ lock' = FALSE

(* Not being able to write a receipt of failure is an Err.                 *)
Answer(r, result) ==
    \/ Return(r, result) /\ UNCHANGED troubles
    \/ Trouble("fault") /\ Return(r, "error")

AcquireLock(r) ==
    /\ At(r, "new")
    /\ IF lock
       THEN /\ req' = [req EXCEPT ![r].step = "returned", ![r].result = "in_progress"]
            /\ UNCHANGED lock
       ELSE Go(r, "read") /\ lock' = TRUE
    /\ UNCHANGED <<mainVars, candidateVars, sealVars, approved, troubles, applied, moved>>

(* A receipt that is being written may not parse.                          *)
ReadCandidate(r) ==
    /\ At(r, "read")
    /\ \/ receipt = None /\ Return(r, "error") /\ UNCHANGED troubles
       \/ turn.step = "patched" /\ Return(r, "error") /\ UNCHANGED troubles
       \/ /\ receipt # None
          /\ IF receipt.version \in Defective THEN Answer(r, "failed")
             ELSE /\ req' = [req EXCEPT ![r].step = "patch", ![r].receipt = receipt]
                  /\ UNCHANGED <<lock, troubles>>
    /\ UNCHANGED <<mainVars, candidateVars, sealVars, approved, applied, moved>>

(* candidate.patch as it is now, which a later turn may have written; if   *)
(* it has a fragment twice it is written again without.                    *)
ReadPatch(r) ==
    /\ At(r, "patch")
    /\ \/ /\ req' = [req EXCEPT ![r].step = "verify", ![r].patch = patch]
          /\ UNCHANGED <<lock, troubles>>
       \/ Trouble("fault") /\ \E result \in {"failed", "error"} : Return(r, result)
    /\ UNCHANGED <<mainVars, candidateVars, sealVars, approved, applied, moved>>

(* The target paths of the receipt.                                        *)
Files(r) == Targets[req[r].receipt.version]

(* git status of them, and git apply --check forwards and in reverse.      *)
Dirty(paths) == On(tree, paths) # On(head, paths)
Applies(p) == EditsOf(p) \cap tree = {}
ReverseApplies(p) == EditsOf(p) \subseteq tree

(* What verify_integration_candidate_patch may conclude: the base fence    *)
(* comes first, and the semantic verifiers may reject anything.            *)
Verdicts(r) ==
    IF On(head, Files(r)) # On(req[r].receipt.base, Files(r)) THEN {"stale_base"}
    ELSE IF Dirty(Files(r)) THEN {"dirty"}
    ELSE IF ~Applies(req[r].patch) THEN {"does_not_apply"}
    ELSE {"passed", "rejected"}

(* Mutant: a sealed run is taken for an applied patch.                     *)
AlreadySealed(p, verdict) ==
    /\ verdict \in {"dirty", "does_not_apply"}
    /\ finalDiff /\ seal

AlreadyApplied(p, verdict) ==
    /\ verdict \in {"dirty", "does_not_apply"}
    /\ finalDiff /\ seal
    /\ ReverseApplies(p)

Verify(r) ==
    /\ At(r, "verify")
    /\ \E verdict \in Verdicts(r) :
           CASE verdict = "passed" ->
                    \/ Go(r, "gate") /\ UNCHANGED <<lock, troubles>>
                    \/ Trouble("fault") /\ Return(r, "error")
             [] AlreadyApplied(req[r].patch, verdict) -> Answer(r, "already")
             [] OTHER -> Answer(r, "failed")
    /\ patch' \in {patch, req[r].patch}
    /\ moved' = moved \ {r}
    /\ UNCHANGED <<mainVars, receipt, turn, sealVars, approved, applied>>

(* integration_candidate_requires_manual_approval: of the target paths of  *)
(* the receipt and the text of the patch.                                  *)
NeedsApproval(paths, p) ==
    CASE Policy = "mad_sks" -> FALSE
      [] Policy = "autopilot" -> paths \cap SecretPaths # {} \/ p \in Destructive
      [] OTHER -> TRUE

(* Mutant: passing the approval id is enough.                              *)
GateTrustsCaller(r) ==
    /\ At(r, "gate")
    /\ IF NeedsApproval(Files(r), req[r].patch) /\ r \notin PassesId
       THEN Answer(r, "awaiting_approval")
       ELSE Go(r, "capture") /\ UNCHANGED <<lock, troubles>>
    /\ UNCHANGED <<mainVars, candidateVars, sealVars, approved, applied, moved>>

Gate(r) ==
    /\ At(r, "gate")
    /\ \/ IF NeedsApproval(Files(r), req[r].patch) /\ ~(r \in PassesId /\ approved)
          THEN Answer(r, "awaiting_approval")
          ELSE Go(r, "capture") /\ UNCHANGED <<lock, troubles>>
       \/ r \in PassesId /\ Trouble("fault") /\ Return(r, "error")
    /\ UNCHANGED <<mainVars, candidateVars, sealVars, approved, applied, moved>>

(* apply_unified_diff_with_rollback: clean targets, their bytes, ...       *)
Capture(r) ==
    /\ At(r, "capture")
    /\ \/ Dirty(Files(r)) /\ Answer(r, "failed")
       \/ /\ ~Dirty(Files(r))
          /\ req' = [req EXCEPT ![r].step = "apply", ![r].rollback = On(tree, Files(r))]
          /\ UNCHANGED <<lock, troubles>>
       \/ Trouble("fault") /\ Return(r, "io_error")
    /\ UNCHANGED <<mainVars, candidateVars, sealVars, approved, applied, moved>>

(* ... git apply, all files or none, which other edits there may or may    *)
(* not prevent and of which an I/O error says nothing, ...                 *)
GitApply(r) ==
    LET p == req[r].patch
        ChangeFiles == /\ Applies(p)
                       /\ tree' = tree \cup EditsOf(p)
                       /\ applied' = applied \cup {r}
    IN  /\ At(r, "apply")
        /\ \/ ChangeFiles /\ Go(r, "diff") /\ UNCHANGED <<lock, troubles>>
           \/ /\ ~Applies(p) \/ On(tree, Targets[p]) # {}
              /\ Answer(r, "failed")
              /\ UNCHANGED <<tree, applied>>
           \/ /\ ChangeFiles \/ UNCHANGED <<tree, applied>>
              /\ Trouble("fault") /\ Return(r, "io_error")
        /\ UNCHANGED <<head, candidateVars, sealVars, approved, moved>>

(* restore_rollback: the captured bytes of the receipt's files, or, when   *)
(* it fails, of those before the one it fails at.  The patch has gone if    *)
(* all its files are restored.                                             *)
Restore(r, paths) ==
    /\ tree' = (tree \ On(tree, paths)) \cup On(req[r].rollback, paths)
    /\ applied' = IF Targets[req[r].patch] \subseteq paths THEN applied \ {r} ELSE applied

(* ... and the rollback when the final diff is empty or cannot be taken.   *)
CaptureDiff(r) ==
    /\ At(r, "diff")
    /\ \/ /\ Dirty(Files(r))
          /\ Go(r, "finalDiff") /\ UNCHANGED <<lock, tree, applied, troubles>>
       \/ ~Dirty(Files(r)) /\ Restore(r, Files(r)) /\ Answer(r, "failed")
       \/ /\ Trouble("fault")
          /\ \/ Restore(r, Files(r)) /\ Return(r, "failed")
             \/ \E paths \in (SUBSET Files(r)) \ {Files(r)} :
                    Restore(r, paths) /\ Return(r, "io_error")
    /\ UNCHANGED <<head, candidateVars, sealVars, approved, moved>>

(* final.diff, then the seal, then the receipt; an Err of a write is what  *)
(* the call returns.                                                       *)
WriteFinalDiff(r) ==
    /\ At(r, "finalDiff")
    /\ \/ finalDiff' = TRUE /\ Go(r, "seal") /\ UNCHANGED <<lock, troubles>>
       \/ Trouble("fault") /\ Return(r, "error") /\ UNCHANGED finalDiff
    /\ UNCHANGED <<mainVars, candidateVars, seal, approved, applied, moved>>

WriteSeal(r) ==
    /\ At(r, "seal")
    /\ \/ seal' = TRUE /\ Go(r, "receipt") /\ UNCHANGED <<lock, troubles>>
       \/ Trouble("fault") /\ Return(r, "error") /\ UNCHANGED seal
    /\ UNCHANGED <<mainVars, candidateVars, finalDiff, approved, applied, moved>>

WriteReceipt(r) ==
    /\ At(r, "receipt")
    /\ \/ Return(r, "integrated") /\ UNCHANGED troubles
       \/ Trouble("fault") /\ Return(r, "error")
    /\ UNCHANGED <<mainVars, candidateVars, sealVars, approved, applied, moved>>

Apply(r) ==
    \/ AcquireLock(r) \/ ReadCandidate(r) \/ ReadPatch(r) \/ Verify(r) \/ Gate(r)
    \/ Capture(r) \/ GitApply(r) \/ CaptureDiff(r) \/ WriteFinalDiff(r) \/ WriteSeal(r) \/ WriteReceipt(r)

(* The daemon dies with its calls and its turn, and leaves apply.lock.     *)
Crash ==
    /\ Trouble("fault")
    /\ req' = [r \in Requests |-> IF req[r].step \in {"new", "returned"} THEN req[r]
                                  ELSE [req[r] EXCEPT !.step = "dead"]]
    /\ turn' = [turn EXCEPT !.step = "idle"]
    /\ UNCHANGED <<mainVars, patch, receipt, lock, sealVars, approved, applied, moved>>

Next ==
    \/ PrepareIsolation \/ WriteCandidatePatch \/ WriteCandidateReceipt
    \/ Approve \/ UserMoves \/ Crash
    \/ \E r \in Requests : Apply(r)

Spec == Init /\ [][Next]_vars

------------------------------------------------------------------------------
(* Properties                                                              *)

TypeOK ==
    /\ head \cup tree \subseteq Paths \X (Versions \cup {User})
    /\ {patch} \subseteq Versions \cup {None}
    /\ receipt # None => receipt.version \in Versions
    /\ \A r \in Requests : req[r].step \notin {"new", "returned", "dead"} => lock
    /\ applied \subseteq Requests
    /\ seal => finalDiff

(* The patch that a call read is not of the turn execution whose receipt   *)
(* it had read before.                                                     *)
Mixed(r) == req[r].patch # req[r].receipt.version

(* What a call says it did to the main workspace is what it did: one that  *)
(* ends integrated has put its patch in, with final diff and seal, and it  *)
(* is still there unless the user moved; one that reports a failure with   *)
(* a reason of its own, a missing approval or another call in progress has *)
(* none of its patch left there.  What a failing git or rollback leaves is *)
(* "io_error"; a rollback covers the files of the receipt, which are those *)
(* of the patch unless the two are of different turn executions.           *)
ReceiptTellsTruth ==
    \A r \in Requests :
        /\ req[r].result = "integrated" =>
               /\ r \in applied /\ finalDiff /\ seal
               /\ ReverseApplies(req[r].patch) \/ r \in moved
        /\ req[r].result \in {"awaiting_approval", "in_progress", "already"} => r \notin applied
        /\ req[r].result = "failed" => r \notin applied \/ Mixed(r)
        /\ req[r].result = "already" => ReverseApplies(req[r].patch) \/ r \in moved

(* A patch goes into the main workspace only with the approval that the    *)
(* policy asks for, given the files of the receipt and the text of this    *)
(* very patch; and, unless the user moved after the verification, while    *)
(* the receipt's files are clean and still those the candidate was made    *)
(* from.                                                                   *)
AppliedAsVerified ==
    [][\A r \in Requests :
           r \in applied' \ applied =>
               /\ NeedsApproval(Files(r), req[r].patch) => approved
               /\ \/ r \in moved
                  \/ /\ ~Dirty(Files(r))
                     /\ On(head, Files(r)) = On(req[r].receipt.base, Files(r))]_vars
=============================================================================
