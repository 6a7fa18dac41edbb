-------------------------- MODULE PatchTransaction ---------------------------
(***************************************************************************)
(* crates/opensks-patch-engine: a proposal's writes are applied to the     *)
(* workspace as a transaction that is journaled before and after, checks   *)
(* every target again just before it writes it, reads it back, and rolls   *)
(* back what it wrote when a check or a write fails.  The calls modelled   *)
(* share one proposal id, hence one journal and one journal mutex; the     *)
(* callers that read the files first are crates/opensks-adapter.           *)
(***************************************************************************)
EXTENDS Integers, SequencesExt

CONSTANTS
    Paths,          \* workspace-relative paths
    Missing,        \* what is at a path that names no file
    Calls,          \* calls of apply
    Plan,           \* the writes of each call: path, operation, destination
    Leased,         \* the paths covered by the lease each call passes
    MaxAttempts,    \* MAX_JOURNAL_ATTEMPTS
    Unlocked,       \* the journal mutex is free
    Faults          \* bound on I/O errors and on crashes

VARIABLES
    file,           \* the workspace: a text, a set of edits, or Missing
    journal,        \* events of the proposal's journal: attempt and state
    mutex,          \* the call that holds the journal mutex
    call,           \* progress of each call
    faults          \* I/O errors and crashes still to come

vars == <<file, journal, mutex, call, faults>>

(* A hash identifies a text; a missing file hashes like an empty one.      *)
Text(content) == IF content = Missing THEN {} ELSE content

Writes(a) == DOMAIN Plan[a]
Write(a) == Plan[a][call[a].at]
After(a, i) == Text(call[a].expected[i]) \cup {a}

(* The paths a call touches, its rename destinations among them, with how  *)
(* often it does.                                                          *)
Destination(w) == IF w.op = "rename" THEN {w.to} ELSE {}
Touched(a) == UNION {{w.path} \cup Destination(w) : w \in {Plan[a][i] : i \in Writes(a)}}
TouchesTwice(a) ==
    \E i, j \in Writes(a) : i # j /\ ({Plan[a][i].path} \cup Destination(Plan[a][i]))
                                \cap ({Plan[a][j].path} \cup Destination(Plan[a][j])) # {}

NewCall == [step |-> "idle", attempt |-> 0, at |-> 1, expected |-> <<>>, before |-> <<>>,
            conflict |-> "none", result |-> "none"]

Init ==
    /\ file \in [Paths -> {Missing, {}}]
    /\ journal = <<>>
    /\ mutex = Unlocked
    /\ call = [a \in Calls |-> NewCall]
    /\ faults = Faults

At(a, step) == call[a].step = step
Step(a, fields) ==
    call' = [call EXCEPT ![a] =
                [k \in DOMAIN @ |-> IF k \in DOMAIN fields THEN fields[k] ELSE @[k]]]
Go(step) == [step |-> step]

Fault(kind) == faults[kind] > 0 /\ faults' = [faults EXCEPT ![kind] = @ - 1]

(* A step that ends in an Err: because of what it found, or of an I/O      *)
(* error.                                                                  *)
FailsUnless(fine) ==
    \/ ~fine /\ UNCHANGED faults
    \/ Fault("io")

(* append_journal_event is synced before it returns, and may fail.         *)
AppendJournalEvent(a, state) == journal' = Append(journal, [attempt |-> call[a].attempt, state |-> state])

(* Mutant: a call that was refused returns with the journal mutex.         *)
ReturnLocked(a, result) ==
    /\ Step(a, [step |-> "done", result |-> result])
    /\ mutex' = IF result = "rejected" THEN mutex ELSE Unlocked

Return(a, result) ==
    /\ Step(a, [step |-> "done", result |-> result])
    /\ mutex' = Unlocked

------------------------------------------------------------------------------
(* The caller reads the files and proposes writes for what it read.        *)
Propose(a) ==
    /\ At(a, "idle")
    /\ Step(a, [step |-> "proposed",
                expected |-> [i \in Writes(a) |-> Text(file[Plan[a][i].path])]])
    /\ UNCHANGED <<file, journal, mutex, faults>>

Attempts == {journal[i].attempt : i \in DOMAIN journal}
NextAttempt == IF Attempts = {} THEN 1 ELSE Max(Attempts) + 1

(* apply_inner takes the mutex and the next attempt index of the journal.  *)
BeginApply(a) ==
    /\ At(a, "proposed")
    /\ mutex = Unlocked
    /\ IF NextAttempt > MaxAttempts
       THEN Return(a, "limit")
       ELSE /\ Step(a, [step |-> "read", attempt |-> NextAttempt])
            /\ mutex' = a
    /\ UNCHANGED <<file, journal, faults>>

OperationConflict(w) ==
    \/ (w.op = "create") = (file[w.path] # Missing)
    \/ w.op = "rename" /\ file[w.to] # Missing

(* The preflight reads target after target and keeps what it read.         *)
ReadTarget(a) ==
    LET w == Write(a)
        i == call[a].at
        conflict == IF TouchesTwice(a) \/ OperationConflict(w) THEN "operation_precondition"
                    ELSE IF Text(file[w.path]) # call[a].expected[i]
                            /\ call[a].conflict = "none" THEN "stale_precondition"
                    ELSE call[a].conflict
    IN  /\ At(a, "read")
        /\ Step(a, [step |-> IF i = Len(Plan[a]) THEN "decide" ELSE "read",
                    at |-> IF i = Len(Plan[a]) THEN 1 ELSE i + 1,
                    before |-> Append(call[a].before, file[w.path]),
                    conflict |-> conflict])
        /\ UNCHANGED <<file, journal, mutex, faults>>

(* A conflict is journaled as rejected, anything else as planned; an Err   *)
(* of that append ends the call before it wrote anything.                  *)
Decide(a) ==
    LET rejected == call[a].conflict # "none" \/ ~ Touched(a) \subseteq Leased[a]
    IN  /\ At(a, "decide")
        /\ \/ /\ AppendJournalEvent(a, IF rejected THEN "rejected" ELSE "planned")
              /\ IF rejected THEN Return(a, "rejected")
                 ELSE Step(a, Go("check")) /\ UNCHANGED mutex
              /\ UNCHANGED faults
           \/ /\ Fault("io")
              /\ Return(a, "error")
              /\ UNCHANGED journal
        /\ UNCHANGED file

(* Mutant: the batch preflight is trusted for every write.                 *)
CheckTrustsPreflight(a) ==
    /\ At(a, "check")
    /\ Step(a, Go("write"))
    /\ UNCHANGED <<file, journal, mutex, faults>>

(* revalidate_before_apply                                                 *)
StillAsExpected(a) ==
    LET w == Write(a)
    IN  /\ IF w.op = "create" THEN file[w.path] = Missing
           ELSE file[w.path] # Missing /\ file[w.path] = call[a].expected[call[a].at]
        /\ w.op = "rename" => file[w.to] = Missing

CheckTarget(a) ==
    /\ At(a, "check")
    /\ \/ /\ StillAsExpected(a)
          /\ Step(a, Go("write"))
          /\ UNCHANGED faults
       \/ /\ FailsUnless(StillAsExpected(a))
          /\ Step(a, IF call[a].at = 1 THEN Go("reject")
                     ELSE [step |-> "rollback", at |-> call[a].at - 1])
    /\ UNCHANGED <<file, journal, mutex>>

(* apply_prepared_write: a rename of a temporary file, a removal or a      *)
(* rename, each of which happens or does not.                              *)
Written(a) ==
    LET w == Write(a)
    IN  CASE w.op \in {"create", "modify"} -> [file EXCEPT ![w.path] = After(a, call[a].at)]
          [] w.op = "delete" -> [file EXCEPT ![w.path] = Missing]
          [] w.op = "rename" -> [file EXCEPT ![w.path] = Missing, ![w.to] = file[w.path]]

Writable(a) == Write(a).op \in {"delete", "rename"} => file[Write(a).path] # Missing

(* Mutant: a failed write rolls the file back that was never written, and  *)
(* not the ones before it.                                                 *)
WriteKeepsEarlier(a) ==
    /\ At(a, "write")
    /\ \/ /\ Writable(a)
          /\ file' = Written(a)
          /\ Step(a, Go("verify"))
          /\ UNCHANGED faults
       \/ /\ FailsUnless(Writable(a))
          /\ Step(a, [step |-> "rollback", at |-> 0])
          /\ UNCHANGED file
    /\ UNCHANGED <<journal, mutex>>

WriteTarget(a) ==
    /\ At(a, "write")
    /\ \/ /\ Writable(a)
          /\ file' = Written(a)
          /\ Step(a, Go("verify"))
          /\ UNCHANGED faults
       \/ /\ FailsUnless(Writable(a))
          /\ Step(a, [step |-> "rollback", at |-> call[a].at - 1])
          /\ UNCHANGED file
    /\ UNCHANGED <<journal, mutex>>

(* verify_applied_write reads back what it wrote.                          *)
ReadsBack(a) ==
    LET w == Write(a)
        i == call[a].at
    IN  CASE w.op \in {"create", "modify"} -> file[w.path] = After(a, i)
          [] w.op = "delete" -> file[w.path] = Missing
          [] w.op = "rename" -> file[w.path] = Missing /\ file[w.to] = call[a].expected[i]

VerifyTarget(a) ==
    /\ At(a, "verify")
    /\ \/ /\ ReadsBack(a)
          /\ Step(a, IF call[a].at = Len(Plan[a]) THEN Go("applied")
                     ELSE [step |-> "check", at |-> call[a].at + 1])
          /\ UNCHANGED faults
       \/ /\ FailsUnless(ReadsBack(a))
          /\ Step(a, Go("rollback"))
    /\ UNCHANGED <<file, journal, mutex>>

(* rollback restores one target after the other, last first, to what the   *)
(* preflight read, whatever is there now.                                  *)
Restored(a) ==
    LET w == Write(a)
        before == call[a].before[call[a].at]
        back == IF file[w.to] # Missing
                THEN [file EXCEPT ![w.path] = file[w.to], ![w.to] = Missing]
                ELSE file
    IN  CASE w.op = "create" -> [file EXCEPT ![w.path] = Missing]
          [] w.op \in {"modify", "delete"} -> [file EXCEPT ![w.path] = before]
          [] w.op = "rename" -> IF back[w.path] = Missing
                                THEN [back EXCEPT ![w.path] = before] ELSE back

RollBack(a) ==
    /\ At(a, "rollback")
    /\ IF call[a].at = 0
       THEN Step(a, Go("rolledBack")) /\ UNCHANGED <<file, faults>>
       ELSE \/ /\ file' = Restored(a)
               /\ Step(a, [at |-> call[a].at - 1])
               /\ UNCHANGED faults
            \/ /\ Fault("io")
               /\ Step(a, Go("critical"))
               /\ UNCHANGED file
    /\ UNCHANGED <<journal, mutex>>

Conclusion == [reject |-> "rejected", rolledBack |-> "rolled_back",
               critical |-> "rollback_failed_critical", applied |-> "applied"]

(* Mutant: the terminal event is written once the mutex is given back, so  *)
(* never when the call fails.                                              *)
ConcludeQuietly(a) ==
    /\ call[a].step \in DOMAIN Conclusion
    /\ AppendJournalEvent(a, IF At(a, "critical") THEN "rolled_back" ELSE Conclusion[call[a].step])
    /\ Return(a, Conclusion[call[a].step])
    /\ UNCHANGED <<file, faults>>

(* The terminal event.  An Err of its append is the caller's, except that  *)
(* a patch that was applied stays applied.                                 *)
Conclude(a) ==
    /\ call[a].step \in DOMAIN Conclusion
    /\ \/ /\ AppendJournalEvent(a, Conclusion[call[a].step])
          /\ Return(a, Conclusion[call[a].step])
          /\ UNCHANGED faults
       \/ /\ Fault("io")
          /\ Return(a, IF At(a, "applied") THEN "applied" ELSE "error")
          /\ UNCHANGED journal
    /\ UNCHANGED file

(* The process dies with the calls it was executing, and the mutex with it. *)
Crash ==
    /\ mutex # Unlocked
    /\ Fault("crash")
    /\ call' = [a \in Calls |->
           IF call[a].step \in {"idle", "done", "dead"} THEN call[a]
           ELSE [call[a] EXCEPT !.step = "dead"]]
    /\ mutex' = Unlocked
    /\ UNCHANGED <<file, journal>>

Apply(a) ==
    \/ BeginApply(a) \/ ReadTarget(a) \/ Decide(a) \/ CheckTarget(a) \/ WriteTarget(a)
    \/ VerifyTarget(a) \/ RollBack(a) \/ Conclude(a)

Next == Crash \/ \E a \in Calls : Propose(a) \/ Apply(a)

Spec == Init /\ [][Next]_vars

------------------------------------------------------------------------------
(* recovery_report: what the journal says of its latest attempt.           *)
LatestEvents == {i \in DOMAIN journal : journal[i].attempt = Max(Attempts)}
RequiresReview ==
    /\ journal # <<>>
    /\ journal[Max(LatestEvents)].state \in {"planned", "rollback_failed_critical"}
=============================================================================
