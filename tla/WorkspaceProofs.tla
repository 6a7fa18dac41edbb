---------------------------- MODULE WorkspaceProofs ----------------------------
(***************************************************************************)
(* Theorems about the files of a workspace, for any number of patch calls, *)
(* writes of each, editors, faults and attempts: a patch lands whole or    *)
(* not at all or is reported, and nobody overwrites what it has not seen.  *)
(*                                                                         *)
(* The first two rest on TransactionInv: how far a call has come says what *)
(* it has replaced (its place), what preflight saved is what was there, and *)
(* the attempt of a call at work is the latest of its journal and ends in  *)
(* "planned", so that a call which dies is reported.  The third rests on   *)
(* OverwriteInv: what a writer is about to replace it has compared.        *)
(* At the end, the types of all the components, workspace included, from   *)
(* the invariants of ServicesProofs, PushOutboxProofs and this module.     *)
(***************************************************************************)
EXTENDS ServicesProofs, PushOutboxProofs, SequenceTheorems, TLAPS

------------------------------------------------------------------------------
(* What is in the files, in the journal and in the progress of a call       *)

WriterSets == SUBSET (PatchCalls \cup Editors)
Content == WriterSets \cup {Missing}
Conclusions == {"reject", "rolledBack", "critical", "applied"}
CommittedSteps == {"check", "write", "verify", "rollback"} \cup Conclusions
HoldingSteps == {"read", "decide"} \cup CommittedSteps
Answers == {"applied", "rejected", "rolled_back", "rollback_failed_critical", "error", "limit"}
CallRecord ==
    [step : HoldingSteps \cup {"idle", "proposed", "done", "dead"}, attempt : Nat, at : Nat,
     expected : Seq(WriterSets), before : Seq(Content),
     conflict : {"none", "operation_precondition", "stale_precondition"},
     result : Answers \cup {"none"}]
Event == [attempt : Nat, state : Answers \cup {"planned"}]
Session == [step : {"closed", "open", "replace", "saved", "refused", "failed"},
            path : FilePaths \cup {"none"}, baseline : WriterSets]

FilesTyped ==
    /\ file \in [FilePaths -> Content]
    /\ journal \in Seq(Event)
    /\ call \in [PatchCalls -> CallRecord]
    /\ editor \in [Editors -> Session]
    /\ disturbed \in [PatchCalls -> SUBSET FilePaths]
    /\ unseen \in [PatchCalls \cup Editors -> SUBSET FilePaths]

Size(a) == Len(Plan[a])
ReadSoFar(a) == Len(call[a].before)

(* Where in its plan a call may be.                                         *)
PlaceKnown(a) ==
    /\ call[a].step \in HoldingSteps <=> mutex = a
    /\ call[a].step # "idle" => Len(call[a].expected) = Size(a)
    /\ call[a].step \in {"idle", "proposed"} =>
           call[a].before = <<>> /\ call[a].at = 1 /\ call[a].conflict = "none"
    /\ call[a].step = "read" => call[a].at \in 1..Size(a) /\ ReadSoFar(a) = call[a].at - 1
    /\ call[a].step \in {"decide", "reject"} => call[a].at = 1
    /\ call[a].step \in CommittedSteps \cup {"decide"} => ReadSoFar(a) = Size(a)
    /\ call[a].step = "done" => ReadSoFar(a) \in {0, Size(a)} /\ call[a].result # "none"
    /\ call[a].step = "done" /\ call[a].result = "limit" => ReadSoFar(a) = 0
    /\ call[a].step = "dead" => ReadSoFar(a) <= Size(a)
    /\ call[a].step \in {"check", "write", "verify"} => call[a].at \in 1..Size(a)
    /\ call[a].step = "rollback" => call[a].at \in 0..Size(a)
    /\ call[a].step \in CommittedSteps => call[a].conflict = "none"

(* What a call without a conflict found when it read its targets.           *)
ReadFine(a, i) ==
    LET w == Plan[a][i]
    IN  /\ w.op = "create" <=> call[a].before[i] = Missing
        /\ call[a].expected[i] = W!Patch!Text(call[a].before[i])
        /\ w.op = "rename" => w.path # w.to
PreflightKnown(a) ==
    call[a].conflict = "none" /\ call[a].before # <<>> =>
        /\ ~W!Patch!TouchesTwice(a)
        /\ \A i \in 1..ReadSoFar(a) : ReadFine(a, i)

(* The journal has the attempts in their order.  A call that is at work is  *)
(* the latest attempt, and past its decision the last event is that it      *)
(* planned: that is how a call that goes no further stays reported.         *)
JournalOrdered ==
    \A i, j \in DOMAIN journal : i < j => journal[i].attempt <= journal[j].attempt
AttemptKnown(a) ==
    /\ call[a].step \in HoldingSteps => call[a].attempt > 0
    /\ call[a].step \in {"read", "decide"} =>
           \A i \in DOMAIN journal : journal[i].attempt < call[a].attempt
    /\ call[a].step \in CommittedSteps =>
           /\ journal # <<>>
           /\ journal[Len(journal)] = [attempt |-> call[a].attempt, state |-> "planned"]
           /\ \A i \in DOMAIN journal : i < Len(journal) => journal[i].attempt < call[a].attempt
Reported(a) ==
    \E i \in DOMAIN journal :
        /\ journal[i].attempt = call[a].attempt
        /\ journal[i].state \in {"planned", "rollback_failed_critical"}
        /\ \A j \in DOMAIN journal : j > i => journal[j].attempt > call[a].attempt
StaysReported(a) ==
    /\ Reported(a)
    /\ \A b \in PatchCalls \ {a} : call[b].step \in HoldingSteps => call[a].attempt < call[b].attempt

(* Unless somebody wrote to its files, the writes of a call before this one *)
(* are in the workspace, and of the others that it has read nothing.        *)
Position(a) ==
    CASE call[a].step \in {"check", "write"} -> call[a].at
      [] call[a].step \in {"verify", "rollback"} -> call[a].at + 1
      [] call[a].step = "applied" -> Size(a) + 1
      [] call[a].step = "done" /\ call[a].result = "applied" -> Size(a) + 1
      [] OTHER -> 1
Stands(a) ==
    \A i \in 1..ReadSoFar(a) : /\ i < Position(a) => W!InPlace(a, i)
                               /\ i >= Position(a) => W!Untouched(a, i)

(* Only where it died or gave up may it be otherwise, and then the journal  *)
(* says so.                                                                 *)
LooseEnd(a) ==
    \/ call[a].step = "dead"
    \/ call[a].step = "done" /\ call[a].result \in {"rollback_failed_critical", "error"}
FilesKnown(a) ==
    \/ Stands(a)
    \/ call[a].step = "critical"
    \/ LooseEnd(a) /\ StaysReported(a)

TransactionInv ==
    /\ FilesTyped
    /\ JournalOrdered
    /\ \A a \in PatchCalls :
           /\ PlaceKnown(a) /\ PreflightKnown(a) /\ AttemptKnown(a)
           /\ W!Undisturbed(a) => FilesKnown(a)

(* What a writer is about to replace it has compared, or it was written     *)
(* since.                                                                   *)
Compared(w, p) == p \in unseen[w] \/ W!Patch!Text(file[p]) = W!KnownText(w, p)
NextTargets(a) == {W!Patch!Write(a).path} \cup W!Patch!Destination(W!Patch!Write(a))
CallCompared(a) == call[a].step = "write" => \A p \in NextTargets(a) : Compared(a, p)
EditorCompared(e) ==
    /\ editor[e].step \in {"open", "replace"} => editor[e].path \in FilePaths
    /\ editor[e].step = "replace" /\ e \notin Overriding =>
           \A p \in FilePaths : p = editor[e].path => Compared(e, p)
OverwriteInv ==
    /\ \A a \in PatchCalls : CallCompared(a)
    /\ \A e \in Editors : EditorCompared(e)

------------------------------------------------------------------------------
(* The data *)

TargetOf(a, i) == {Plan[a][i].path} \cup W!Patch!Destination(Plan[a][i])

LEMMA PlanFacts ==
    ASSUME NEW a \in PatchCalls
    PROVE  /\ Size(a) \in Nat /\ Size(a) # 0 /\ 1 \in 1..Size(a)
           /\ DOMAIN Plan[a] = 1..Size(a) /\ W!Patch!Writes(a) = 1..Size(a)
           /\ \A i \in 1..Size(a) :
                  /\ Plan[a][i].op \in {"create", "modify", "delete", "rename"}
                  /\ Plan[a][i].path \in FilePaths /\ Plan[a][i].to \in FilePaths
<1> DEFINE Planned == [op : {"create", "modify", "delete", "rename"}, path : FilePaths, to : FilePaths]
<1>1. Plan[a] \in Seq(Planned) /\ Plan[a] # <<>>
  BY WorkspaceAssumption
<1> HIDE DEF Planned
<1>2. \A i \in 1..Len(Plan[a]) : Plan[a][i] \in Planned
  BY <1>1
<1>3. Len(Plan[a]) \in Nat /\ Len(Plan[a]) # 0 /\ DOMAIN Plan[a] = 1..Len(Plan[a])
  BY <1>1
<1> QED
  BY <1>2, <1>3 DEF Planned, Size, W!Patch!Writes

LEMMA TextFacts ==
    /\ \A c \in Content : W!Patch!Text(c) \in WriterSets /\ (c # Missing => W!Patch!Text(c) = c)
    /\ W!Patch!Text(Missing) = {}
    /\ \A t \in WriterSets : t # Missing /\ t \in Content /\ \A a \in PatchCalls : t \cup {a} \in WriterSets
    /\ \A t \in WriterSets : t # Missing /\ \A e \in Editors : t \cup {e} \in WriterSets
BY WorkspaceAssumption DEF Content, WriterSets, W!Patch!Text

LEMMA TargetFacts ==
    ASSUME NEW a \in PatchCalls, NEW i \in 1..Size(a)
    PROVE  /\ TargetOf(a, i) \subseteq W!Patch!Touched(a)
           /\ TargetOf(a, i) \subseteq FilePaths
           /\ Plan[a][i].path \in TargetOf(a, i)
           /\ Plan[a][i].op = "rename" => Plan[a][i].to \in TargetOf(a, i)
           /\ ~W!Patch!TouchesTwice(a) =>
                  \A j \in 1..Size(a) \ {i} : TargetOf(a, i) \cap TargetOf(a, j) = {}
<1>1. i \in W!Patch!Writes(a) /\ Plan[a][i].path \in FilePaths /\ Plan[a][i].to \in FilePaths
      /\ W!Patch!Writes(a) = 1..Size(a)
  BY PlanFacts
<1>2. TargetOf(a, i) \subseteq W!Patch!Touched(a)
  BY <1>1 DEF TargetOf, W!Patch!Touched
<1>3. TargetOf(a, i) \subseteq FilePaths
  BY <1>1 DEF TargetOf, W!Patch!Destination
<1>4. ~W!Patch!TouchesTwice(a) =>
          \A j \in 1..Size(a) \ {i} : TargetOf(a, i) \cap TargetOf(a, j) = {}
  BY <1>1 DEF TargetOf, W!Patch!TouchesTwice
<1>5. Plan[a][i].op = "rename" => Plan[a][i].to \in TargetOf(a, i)
  BY DEF TargetOf, W!Patch!Destination
<1> QED
  BY <1>2, <1>3, <1>4, <1>5 DEF TargetOf

(* One call moves on: its record, field by field.                           *)
CallFields == {"step", "attempt", "at", "expected", "before", "conflict", "result"}

LEMMA StepSets ==
    ASSUME FilesTyped, NEW a \in PatchCalls, NEW fields, W!Patch!Step(a, fields),
           "step" \in DOMAIN fields => fields["step"] \in HoldingSteps \cup {"idle", "proposed", "done", "dead"},
           "attempt" \in DOMAIN fields => fields["attempt"] \in Nat,
           "at" \in DOMAIN fields => fields["at"] \in Nat,
           "expected" \in DOMAIN fields => fields["expected"] \in Seq(WriterSets),
           "before" \in DOMAIN fields => fields["before"] \in Seq(Content),
           "conflict" \in DOMAIN fields =>
               fields["conflict"] \in {"none", "operation_precondition", "stale_precondition"},
           "result" \in DOMAIN fields => fields["result"] \in Answers \cup {"none"}
    PROVE  /\ call' \in [PatchCalls -> CallRecord]
           /\ \A b \in PatchCalls \ {a} : call'[b] = call[b]
           /\ \A k \in CallFields :
                  call'[a][k] = IF k \in DOMAIN fields THEN fields[k] ELSE call[a][k]
<1> DEFINE now == [k \in DOMAIN call[a] |-> IF k \in DOMAIN fields THEN fields[k] ELSE call[a][k]]
<1>1. call \in [PatchCalls -> CallRecord] /\ call[a] \in CallRecord
  BY DEF FilesTyped
<1>2. DOMAIN call[a] = CallFields
  BY <1>1 DEF CallRecord, CallFields
<1>3. now \in CallRecord
  <2>1. now = [step |-> now["step"], attempt |-> now["attempt"], at |-> now["at"],
               expected |-> now["expected"], before |-> now["before"],
               conflict |-> now["conflict"], result |-> now["result"]]
    BY <1>2 DEF CallFields
  <2>2. /\ now["step"] \in HoldingSteps \cup {"idle", "proposed", "done", "dead"}
        /\ now["attempt"] \in Nat /\ now["at"] \in Nat
        /\ now["expected"] \in Seq(WriterSets) /\ now["before"] \in Seq(Content)
        /\ now["conflict"] \in {"none", "operation_precondition", "stale_precondition"}
        /\ now["result"] \in Answers \cup {"none"}
    BY <1>1, <1>2 DEF CallRecord, CallFields
  <2> HIDE DEF now
  <2> QED
    BY <2>1, <2>2 DEF CallRecord
<1>4. call' = [call EXCEPT ![a] = now]
  BY DEF W!Patch!Step
<1>5. \A k \in CallFields : now[k] = IF k \in DOMAIN fields THEN fields[k] ELSE call[a][k]
  BY <1>2
<1> HIDE DEF now
<1> QED
  BY <1>1, <1>3, <1>4, <1>5

LEMMA RecordFacts ==
    ASSUME FilesTyped, NEW a \in PatchCalls
    PROVE  /\ call[a].step \in HoldingSteps \cup {"idle", "proposed", "done", "dead"}
           /\ call[a].attempt \in Nat /\ call[a].at \in Nat
           /\ call[a].expected \in Seq(WriterSets) /\ call[a].before \in Seq(Content)
           /\ call[a].conflict \in {"none", "operation_precondition", "stale_precondition"}
           /\ call[a].result \in Answers \cup {"none"}
           /\ ReadSoFar(a) \in Nat /\ DOMAIN call[a].before = 1..ReadSoFar(a)
           /\ \A i \in 1..ReadSoFar(a) : call[a].before[i] \in Content
           /\ \A i \in 1..Len(call[a].expected) : call[a].expected[i] \in WriterSets
<1>1. call[a] \in CallRecord
  BY DEF FilesTyped
<1>2. call[a].expected \in Seq(WriterSets) /\ call[a].before \in Seq(Content)
  BY <1>1 DEF CallRecord
<1>3. /\ ReadSoFar(a) \in Nat /\ DOMAIN call[a].before = 1..ReadSoFar(a)
      /\ \A i \in 1..ReadSoFar(a) : call[a].before[i] \in Content
      /\ \A i \in 1..Len(call[a].expected) : call[a].expected[i] \in WriterSets
  BY <1>2 DEF ReadSoFar
<1> QED
  BY <1>1, <1>3 DEF CallRecord

(* The files of a call change only where somebody is seen to write.         *)
LEMMA HistoryKept ==
    ASSUME FilesTyped, NEW w, NEW compared, NEW begins, W!Recorded(w, compared, begins)
    PROVE  /\ disturbed' \in [PatchCalls -> SUBSET FilePaths]
           /\ unseen' \in [PatchCalls \cup Editors -> SUBSET FilePaths]
BY DEF FilesTyped, W!Recorded, W!Written, W!Writers

LEMMA UndisturbedBefore ==
    ASSUME FilesTyped, NEW w, NEW compared, NEW begins, W!Recorded(w, compared, begins),
           NEW b \in PatchCalls, b # w, W!Undisturbed(b)'
    PROVE  /\ W!Undisturbed(b)
           /\ \A p \in W!Patch!Touched(b) \cap FilePaths : file'[p] = file[p]
<1>1. disturbed'[b] = disturbed[b] \cup W!Written
  BY DEF W!Recorded, FilesTyped
<1>2. W!Patch!Touched(b)' = W!Patch!Touched(b)
  BY DEF W!Patch!Touched, W!Patch!Writes, W!Patch!Destination
<1> QED
  BY <1>1, <1>2 DEF W!Undisturbed, W!Written

(* A write that is not touched stays as it is, in place or not.             *)
LEMMA Elsewhere ==
    ASSUME NEW a \in PatchCalls, NEW i \in 1..Size(a),
           \A p \in TargetOf(a, i) : file'[p] = file[p],
           call'[a].expected = call[a].expected, call'[a].before[i] = call[a].before[i],
           call[a].conflict # "none" => call'[a].conflict # "none"
    PROVE  /\ W!InPlace(a, i) => W!InPlace(a, i)'
           /\ W!Untouched(a, i) => W!Untouched(a, i)'
<1>1. /\ file'[Plan[a][i].path] = file[Plan[a][i].path]
      /\ Plan[a][i].op = "rename" => file'[Plan[a][i].to] = file[Plan[a][i].to]
      /\ Plan[a][i].op \in {"create", "modify", "delete", "rename"}
  BY TargetFacts, PlanFacts
<1>2. W!InPlace(a, i) => W!InPlace(a, i)'
  BY <1>1 DEF W!InPlace, W!Patch!After
<1>3. W!Untouched(a, i) => W!Untouched(a, i)'
  BY <1>1 DEF W!Untouched
<1> QED
  BY <1>2, <1>3

------------------------------------------------------------------------------
(* What stands in the files *)

(* A step that moves a call without a change of its files.                  *)
LEMMA StandsSame ==
    ASSUME FilesTyped, NEW a \in PatchCalls, ReadSoFar(a) <= Size(a), Stands(a),
           \A p \in W!Patch!Touched(a) \cap FilePaths : file'[p] = file[p],
           call'[a].expected = call[a].expected, call'[a].before = call[a].before,
           call'[a].conflict = call[a].conflict, Position(a)' = Position(a)
    PROVE  Stands(a)'
<1>1. ReadSoFar(a)' = ReadSoFar(a) /\ ReadSoFar(a) \in Nat /\ Size(a) \in Nat
  BY RecordFacts, PlanFacts DEF ReadSoFar
<1>2. SUFFICES ASSUME NEW i \in 1..ReadSoFar(a)
               PROVE  /\ i < Position(a) => W!InPlace(a, i)'
                      /\ i >= Position(a) => W!Untouched(a, i)'
  BY <1>1 DEF Stands
<1>3. i \in 1..Size(a)
  BY <1>1
<1>4. \A p \in TargetOf(a, i) : file'[p] = file[p]
  BY <1>3, TargetFacts
<1>5. /\ W!InPlace(a, i) => W!InPlace(a, i)'
      /\ W!Untouched(a, i) => W!Untouched(a, i)'
  BY <1>3, <1>4, Elsewhere
<1> QED
  BY <1>5 DEF Stands

(* The next write goes in.                                                  *)
LEMMA StandsWritten ==
    ASSUME FilesTyped, NEW a \in PatchCalls, PreflightKnown(a), Stands(a),
           ReadSoFar(a) = Size(a), Len(call[a].expected) = Size(a), call[a].conflict = "none",
           call[a].step = "write", call[a].at \in 1..Size(a), file' = W!Patch!Written(a),
           call'[a].expected = call[a].expected, call'[a].before = call[a].before,
           call'[a].conflict = call[a].conflict, Position(a)' = call[a].at + 1
    PROVE  Stands(a)'
<1>n. PICK n \in 1..Size(a) : n = call[a].at
  OBVIOUS
<1> DEFINE w == Plan[a][n]
<1>1. /\ n \in 1..Size(a) /\ Size(a) \in Nat /\ Size(a) # 0 /\ Position(a) = n
      /\ ReadSoFar(a)' = Size(a)
  BY <1>n, PlanFacts DEF Position, ReadSoFar
<1>2. /\ w.op \in {"create", "modify", "delete", "rename"} /\ w.path \in FilePaths /\ w.to \in FilePaths
      /\ W!Patch!Write(a) = w
  BY <1>n, <1>1, PlanFacts DEF W!Patch!Write
<1>3. /\ call[a].before # <<>> /\ call[a].before[n] \in Content /\ call[a].expected[n] \in WriterSets
  <2>1. Len(<<>>) = 0
    OBVIOUS
  <2> QED
    BY <1>1, <2>1, RecordFacts DEF ReadSoFar
<1>4. ~W!Patch!TouchesTwice(a) /\ ReadFine(a, n) /\ W!Untouched(a, n)
  BY <1>1, <1>3 DEF PreflightKnown, Stands
<1>5. /\ w.op = "create" <=> call[a].before[n] = Missing
      /\ call[a].expected[n] = W!Patch!Text(call[a].before[n])
      /\ w.op = "rename" => w.path # w.to
      /\ file[w.path] = call[a].before[n]
      /\ w.op = "rename" => file[w.to] = Missing
  BY <1>4 DEF ReadFine, W!Untouched
<1>6. \A p \in FilePaths \ TargetOf(a, n) : file'[p] = file[p]
  BY <1>n, <1>2 DEF W!Patch!Written, TargetOf, W!Patch!Destination, FilesTyped
<1>7. W!InPlace(a, n)'
  <2>1. CASE w.op \in {"create", "modify"}
    BY <1>n, <1>2, <2>1 DEF W!InPlace, W!Patch!Written, W!Patch!After, FilesTyped
  <2>2. CASE w.op = "delete"
    BY <1>n, <1>2, <2>2 DEF W!InPlace, W!Patch!Written, FilesTyped
  <2>3. CASE w.op = "rename"
    <3>1. call[a].expected[n] = call[a].before[n]
      BY <1>3, <1>5, <2>3, TextFacts
    <3>2. file'[w.path] = Missing /\ file'[w.to] = file[w.path]
      BY <1>n, <1>2, <1>5, <2>3 DEF W!Patch!Written, FilesTyped
    <3> QED
      BY <1>5, <2>3, <3>1, <3>2 DEF W!InPlace
  <2> QED
    BY <1>2, <2>1, <2>2, <2>3
<1>8. ASSUME NEW i \in 1..Size(a), i # n
      PROVE  /\ i < n => W!InPlace(a, i)'
             /\ i > n => W!Untouched(a, i)'
  <2>1. TargetOf(a, i) \cap TargetOf(a, n) = {} /\ TargetOf(a, i) \subseteq FilePaths
    BY <1>1, <1>4, <1>8, TargetFacts
  <2>2. \A p \in TargetOf(a, i) : file'[p] = file[p]
    BY <1>6, <2>1
  <2>3. /\ W!InPlace(a, i) => W!InPlace(a, i)'
        /\ W!Untouched(a, i) => W!Untouched(a, i)'
    BY <2>2, Elsewhere
  <2> QED
    BY <1>1, <2>3 DEF Stands
<1>9. \A i \in 1..Size(a) : /\ i < n + 1 => W!InPlace(a, i)'
                            /\ i >= n + 1 => W!Untouched(a, i)'
  BY <1>1, <1>7, <1>8
<1> QED
  BY <1>n, <1>1, <1>9 DEF Stands

(* The last one of them comes out again.                                    *)
LEMMA StandsRestored ==
    ASSUME FilesTyped, NEW a \in PatchCalls, PreflightKnown(a), Stands(a),
           ReadSoFar(a) = Size(a), Len(call[a].expected) = Size(a), call[a].conflict = "none",
           call[a].step = "rollback", call[a].at \in 1..Size(a), file' = W!Patch!Restored(a),
           call'[a].expected = call[a].expected, call'[a].before = call[a].before,
           call'[a].conflict = call[a].conflict, Position(a)' = call[a].at
    PROVE  Stands(a)'
<1>n. PICK n \in 1..Size(a) : n = call[a].at
  OBVIOUS
<1> DEFINE w == Plan[a][n]
<1>1. /\ n \in 1..Size(a) /\ Size(a) \in Nat /\ Size(a) # 0 /\ Position(a) = n + 1
      /\ ReadSoFar(a)' = Size(a)
  BY <1>n, PlanFacts DEF Position, ReadSoFar
<1>2. /\ w.op \in {"create", "modify", "delete", "rename"} /\ w.path \in FilePaths /\ w.to \in FilePaths
      /\ W!Patch!Write(a) = w
  BY <1>n, <1>1, PlanFacts DEF W!Patch!Write
<1>3. /\ call[a].before # <<>> /\ call[a].before[n] \in Content /\ call[a].expected[n] \in WriterSets
  <2>1. Len(<<>>) = 0
    OBVIOUS
  <2> QED
    BY <1>1, <2>1, RecordFacts DEF ReadSoFar
<1>4. ~W!Patch!TouchesTwice(a) /\ ReadFine(a, n) /\ W!InPlace(a, n)
  BY <1>1, <1>3 DEF PreflightKnown, Stands
<1>5. /\ w.op = "create" <=> call[a].before[n] = Missing
      /\ call[a].expected[n] = W!Patch!Text(call[a].before[n])
      /\ w.op = "rename" => w.path # w.to
  BY <1>4 DEF ReadFine
<1>6. /\ \A p \in FilePaths \ TargetOf(a, n) : file'[p] = file[p]
      /\ file'[w.path] = call[a].before[n]
      /\ w.op = "rename" => file'[w.to] = Missing
  <2>1. CASE w.op # "rename"
    BY <1>n, <1>2, <1>5, <2>1 DEF W!Patch!Restored, TargetOf, FilesTyped
  <2>2. CASE w.op = "rename"
    <3>1. call[a].expected[n] = call[a].before[n] /\ call[a].before[n] # Missing
      BY <1>3, <1>5, <2>2, TextFacts
    <3>2. file[w.to] = call[a].before[n]
      BY <1>4, <2>2, <3>1 DEF W!InPlace
    <3>3. file' = [file EXCEPT ![w.path] = file[w.to], ![w.to] = Missing]
      BY <1>n, <1>2, <1>5, <2>2, <3>1, <3>2 DEF W!Patch!Restored, FilesTyped
    <3> QED
      BY <1>2, <1>5, <2>2, <3>2, <3>3 DEF TargetOf, W!Patch!Destination, FilesTyped
  <2> QED
    BY <2>1, <2>2
<1>7. W!Untouched(a, n)'
  BY <1>6 DEF W!Untouched
<1>8. ASSUME NEW i \in 1..Size(a), i # n
      PROVE  /\ i < n => W!InPlace(a, i)'
             /\ i > n => W!Untouched(a, i)'
  <2>1. TargetOf(a, i) \cap TargetOf(a, n) = {} /\ TargetOf(a, i) \subseteq FilePaths
    BY <1>1, <1>4, <1>8, TargetFacts
  <2>2. \A p \in TargetOf(a, i) : file'[p] = file[p]
    BY <1>6, <2>1
  <2>3. /\ W!InPlace(a, i) => W!InPlace(a, i)'
        /\ W!Untouched(a, i) => W!Untouched(a, i)'
    BY <2>2, Elsewhere
  <2> QED
    BY <1>1, <2>3 DEF Stands
<1>9. \A i \in 1..Size(a) : /\ i < n => W!InPlace(a, i)'
                            /\ i >= n => W!Untouched(a, i)'
  BY <1>1, <1>7, <1>8
<1> QED
  BY <1>n, <1>1, <1>9 DEF Stands

------------------------------------------------------------------------------
(* What a step of one leaves of the others *)

TouchedFiles(a) == W!Patch!Touched(a) \cap FilePaths

(* A call that did nothing, while the journal only got later attempts.      *)
LEMMA BystanderKept ==
    ASSUME TransactionInv, NEW b \in PatchCalls, call'[b] = call[b], DOMAIN call' = PatchCalls,
           call[b].step \in HoldingSteps => journal' = journal,
           \/ journal' = journal
           \/ \E e \in Event : /\ journal' = Append(journal, e)
                               /\ StaysReported(b) => e.attempt > call[b].attempt,
           \A c \in PatchCalls \ {b} : call'[c].step \in HoldingSteps /\ StaysReported(b) =>
               call[b].attempt < call'[c].attempt,
           call[b].step \in HoldingSteps <=> mutex' = b
    PROVE  /\ PlaceKnown(b)' /\ PreflightKnown(b)' /\ AttemptKnown(b)'
           /\ FilesKnown(b) /\ (\A p \in TouchedFiles(b) : file'[p] = file[p]) => FilesKnown(b)'
<1>1. PlaceKnown(b) /\ PreflightKnown(b) /\ AttemptKnown(b) /\ FilesTyped
  BY DEF TransactionInv
<1>2. PlaceKnown(b)' /\ PreflightKnown(b)' /\ AttemptKnown(b)'
  <2>1. PlaceKnown(b)'
    BY <1>1 DEF PlaceKnown, ReadSoFar
  <2>2. PreflightKnown(b)'
    BY <1>1 DEF PreflightKnown, ReadFine, ReadSoFar
  <2>3. AttemptKnown(b)'
    <3>1. HoldingSteps = {"read", "decide"} \cup CommittedSteps
      BY DEF HoldingSteps
    <3> QED
      BY <1>1, <3>1 DEF AttemptKnown
  <2> QED
    BY <2>1, <2>2, <2>3
<1>3. Stands(b) /\ (\A p \in TouchedFiles(b) : file'[p] = file[p]) => Stands(b)'
  <2>1. ReadSoFar(b) <= Size(b)
    <3>1. ReadSoFar(b) \in Nat /\ Size(b) \in Nat
          /\ call[b].step \in HoldingSteps \cup {"idle", "proposed", "done", "dead"}
      BY <1>1, RecordFacts, PlanFacts
    <3>2. call[b].step \in {"idle", "proposed"} => ReadSoFar(b) = 0
      BY <1>1 DEF PlaceKnown, ReadSoFar
    <3>3. call[b].step = "read" => ReadSoFar(b) <= Size(b)
      BY <1>1, <3>1 DEF PlaceKnown
    <3>4. call[b].step \in {"done", "dead"} \cup {"decide"} \cup CommittedSteps => ReadSoFar(b) <= Size(b)
      BY <1>1, <3>1 DEF PlaceKnown
    <3> QED
      BY <3>1, <3>2, <3>3, <3>4 DEF HoldingSteps
  <2>2. Position(b)' = Position(b)
    BY DEF Position
  <2> QED
    BY <1>1, <2>1, <2>2, StandsSame DEF TouchedFiles
<1>4. StaysReported(b) => Reported(b)'
  <2>1. CASE journal' = journal
    BY <2>1 DEF Reported, StaysReported
  <2>2. CASE journal' # journal
    <3>1. SUFFICES ASSUME StaysReported(b) PROVE Reported(b)'
      OBVIOUS
    <3>2. PICK e \in Event : journal' = Append(journal, e) /\ e.attempt > call[b].attempt
      BY <2>2, <3>1
    <3>3. PICK i \in DOMAIN journal :
              /\ journal[i].attempt = call[b].attempt
              /\ journal[i].state \in {"planned", "rollback_failed_critical"}
              /\ \A j \in DOMAIN journal : j > i => journal[j].attempt > call[b].attempt
      BY <3>1 DEF Reported, StaysReported
    <3>4. /\ Len(journal) \in Nat /\ DOMAIN journal = 1..Len(journal)
          /\ DOMAIN journal' = 1..(Len(journal) + 1)
          /\ journal'[Len(journal) + 1] = e
          /\ \A j \in 1..Len(journal) : journal'[j] = journal[j]
      BY <1>1, <3>2 DEF FilesTyped
    <3>5. ASSUME NEW j \in DOMAIN journal', j > i
          PROVE  journal'[j].attempt > call[b].attempt
      <4>1. CASE j = Len(journal) + 1
        BY <3>2, <3>4, <4>1
      <4>2. CASE j \in 1..Len(journal)
        BY <3>3, <3>4, <3>5, <4>2
      <4> QED
        BY <3>4, <3>5, <4>1, <4>2
    <3>6. i \in DOMAIN journal' /\ journal'[i] = journal[i]
      BY <3>3, <3>4
    <3> QED
      BY <3>3, <3>5, <3>6 DEF Reported
  <2> QED
    BY <2>1, <2>2
<1>5. StaysReported(b) => StaysReported(b)'
  BY <1>4 DEF StaysReported
<1> QED
  BY <1>2, <1>3, <1>5 DEF FilesKnown, LooseEnd

(* One call moves: what it owes the others, and what they keep.             *)
LEMMA OneMoves ==
    ASSUME TransactionInv, NEW a \in PatchCalls, NEW compared, NEW begins,
           W!Recorded(a, compared, begins), editor' = editor,
           call' \in [PatchCalls -> CallRecord], \A b \in PatchCalls \ {a} : call'[b] = call[b],
           file' \in [FilePaths -> Content],
           \/ journal' = journal
           \/ /\ call[a].step \in HoldingSteps
              /\ \E e \in Event : journal' = Append(journal, e) /\ e.attempt = call[a].attempt,
           \/ mutex' = mutex
           \/ mutex = a /\ mutex' = Unlocked
           \/ mutex = Unlocked /\ mutex' = a,
           call'[a].step \in HoldingSteps =>
               \/ call[a].step \in HoldingSteps /\ call'[a].attempt = call[a].attempt
               \/ \A i \in DOMAIN journal : journal[i].attempt < call'[a].attempt,
           PlaceKnown(a)', PreflightKnown(a)', AttemptKnown(a)', JournalOrdered',
           W!Undisturbed(a)' => FilesKnown(a)'
    PROVE  TransactionInv'
<1>1. FilesTyped /\ \A b \in PatchCalls : PlaceKnown(b) /\ AttemptKnown(b)
  BY DEF TransactionInv
<1>2. FilesTyped'
  <2>1. journal' \in Seq(Event)
    <3>1. journal \in Seq(Event)
      BY <1>1 DEF FilesTyped
    <3>2. ASSUME NEW e \in Event, journal' = Append(journal, e)
          PROVE  journal' \in Seq(Event)
      BY <3>1, <3>2
    <3> QED
      BY <3>1, <3>2
  <2> QED
    BY <1>1, <2>1, HistoryKept DEF FilesTyped
<1>3. ASSUME NEW b \in PatchCalls \ {a}
      PROVE  /\ PlaceKnown(b)' /\ PreflightKnown(b)' /\ AttemptKnown(b)'
             /\ W!Undisturbed(b)' => FilesKnown(b)'
  <2>1. call[b].step \in HoldingSteps <=> mutex = b
    BY <1>1 DEF PlaceKnown
  <2>2. call[a].step \in HoldingSteps <=> mutex = a
    BY <1>1 DEF PlaceKnown
  <2>3. mutex' = b <=> mutex = b
    BY WorkspaceAssumption
  <2>4. call[b].step \in HoldingSteps => journal' = journal
    BY <2>1, <2>2
  <2>5. StaysReported(b) /\ call[a].step \in HoldingSteps => call[b].attempt < call[a].attempt
    BY DEF StaysReported
  <2>6. ASSUME NEW c \in PatchCalls \ {b}, call'[c].step \in HoldingSteps, StaysReported(b)
        PROVE  call[b].attempt < call'[c].attempt
    <3>1. CASE c # a
      BY <2>6, <3>1 DEF StaysReported
    <3>2. CASE c = a /\ call[a].step \in HoldingSteps /\ call'[a].attempt = call[a].attempt
      BY <2>5, <2>6, <3>2
    <3>3. CASE c = a /\ \A i \in DOMAIN journal : journal[i].attempt < call'[a].attempt
      BY <2>6, <3>3 DEF StaysReported, Reported
    <3> QED
      BY <2>6, <3>1, <3>2, <3>3
  <2>7. /\ PlaceKnown(b)' /\ PreflightKnown(b)' /\ AttemptKnown(b)'
        /\ FilesKnown(b) /\ (\A p \in TouchedFiles(b) : file'[p] = file[p]) => FilesKnown(b)'
    <3>1. \/ journal' = journal
          \/ \E e \in Event : /\ journal' = Append(journal, e)
                              /\ StaysReported(b) => e.attempt > call[b].attempt
      BY <2>5
    <3> QED
      BY <2>1, <2>3, <2>4, <2>6, <3>1, BystanderKept
  <2>8. W!Undisturbed(b)' => /\ W!Undisturbed(b)
                            /\ \A p \in TouchedFiles(b) : file'[p] = file[p]
    BY <1>1, UndisturbedBefore DEF TouchedFiles
  <2> QED
    BY <2>7, <2>8 DEF TransactionInv
<1> QED
  BY <1>2, <1>3 DEF TransactionInv

------------------------------------------------------------------------------
(* The steps of a call *)

LEMMA JournalGrows ==
    ASSUME FilesTyped, NEW e \in Event, journal' = Append(journal, e)
    PROVE  /\ Len(journal) \in Nat /\ DOMAIN journal = 1..Len(journal)
           /\ Len(journal') = Len(journal) + 1 /\ DOMAIN journal' = 1..(Len(journal) + 1)
           /\ journal' # <<>> /\ journal'[Len(journal) + 1] = e
           /\ \A j \in 1..Len(journal) : journal'[j] = journal[j]
           /\ \A j \in 1..Len(journal) : journal[j].attempt \in Nat
<1>1. journal \in Seq(Event)
  BY DEF FilesTyped
<1>2. \A j \in 1..Len(journal) : journal[j] \in Event
  BY <1>1
<1>3. /\ Len(journal) \in Nat /\ DOMAIN journal = 1..Len(journal)
      /\ Len(journal') = Len(journal) + 1 /\ DOMAIN journal' = 1..(Len(journal) + 1)
      /\ journal'[Len(journal) + 1] = e
      /\ \A j \in 1..Len(journal) : journal'[j] = journal[j]
  BY <1>1
<1>4. journal' # <<>>
  BY <1>1
<1> QED
  BY <1>2, <1>3, <1>4 DEF Event

LEMMA JournalFacts ==
    ASSUME FilesTyped
    PROVE  /\ Len(journal) \in Nat /\ DOMAIN journal = 1..Len(journal)
           /\ \A j \in 1..Len(journal) : journal[j].attempt \in Nat
           /\ journal # <<>> => Len(journal) \in 1..Len(journal)
<1>1. journal \in Seq(Event)
  BY DEF FilesTyped
<1>2. /\ Len(journal) \in Nat /\ DOMAIN journal = 1..Len(journal)
      /\ \A j \in 1..Len(journal) : journal[j] \in Event
      /\ journal # <<>> => Len(journal) # 0
  BY <1>1
<1> QED
  BY <1>2 DEF Event

(* NextAttempt is later than any attempt the journal has.                   *)
LEMMA NextIsLater ==
    ASSUME FilesTyped, JournalOrdered
    PROVE  /\ W!Patch!NextAttempt \in Nat /\ W!Patch!NextAttempt > 0
           /\ \A i \in DOMAIN journal : journal[i].attempt < W!Patch!NextAttempt
<1>1. /\ Len(journal) \in Nat /\ DOMAIN journal = 1..Len(journal)
      /\ \A j \in 1..Len(journal) : journal[j].attempt \in Nat
      /\ journal # <<>> => Len(journal) \in 1..Len(journal)
  BY JournalFacts
<1>2. CASE W!Patch!Attempts = {}
  <2>1. W!Patch!NextAttempt = 1
    BY <1>2, Zenon DEF W!Patch!NextAttempt
  <2>2. DOMAIN journal = {}
    BY <1>2 DEF W!Patch!Attempts
  <2> QED
    BY <2>1, <2>2
<1>3. CASE W!Patch!Attempts # {}
  <2> DEFINE last == journal[Len(journal)].attempt
  <2>1. Len(journal) \in 1..Len(journal)
    BY <1>1, <1>3 DEF W!Patch!Attempts
  <2>2. \A i \in DOMAIN journal : journal[i].attempt <= last
    BY <1>1, <2>1 DEF JournalOrdered
  <2>3. last \in W!Patch!Attempts /\ \A y \in W!Patch!Attempts : last >= y
    BY <1>1, <2>1, <2>2 DEF W!Patch!Attempts
  <2>4. W!Patch!Attempts \subseteq Nat
    BY <1>1 DEF W!Patch!Attempts
  <2> DEFINE max == W!Patch!Max(W!Patch!Attempts)
  <2>5. max = CHOOSE x \in W!Patch!Attempts : \A y \in W!Patch!Attempts : x >= y
    BY Zenon DEF W!Patch!Max
  <2>6. max \in W!Patch!Attempts /\ \A y \in W!Patch!Attempts : max >= y
    BY <2>3, <2>5, Zenon
  <2>7. W!Patch!NextAttempt = max + 1
    BY <1>3, Zenon DEF W!Patch!NextAttempt
  <2> HIDE DEF max
  <2>8. max \in Nat /\ \A i \in DOMAIN journal : journal[i].attempt <= max
    BY <1>1, <2>4, <2>6 DEF W!Patch!Attempts
  <2> QED
    BY <1>1, <2>7, <2>8
<1> QED
  BY <1>2, <1>3

(* What others wrote is forgotten when the call begins, and kept otherwise. *)
LEMMA OwnHistory ==
    ASSUME FilesTyped, NEW a \in PatchCalls, W!CallStep(a)
    PROVE  /\ editor' = editor
           /\ W!Recorded(a, call[a].step = "check", call[a].step = "proposed")
           /\ call[a].step # "proposed" /\ W!Undisturbed(a)' => W!Undisturbed(a)
<1>1. editor' = editor /\ W!Recorded(a, call[a].step = "check", call[a].step = "proposed")
  BY DEF W!CallStep
<1>2. disturbed'[a] = IF call[a].step = "proposed" THEN {} ELSE disturbed[a]
  BY <1>1 DEF W!Recorded
<1>3. W!Patch!Touched(a)' = W!Patch!Touched(a)
  BY DEF W!Patch!Touched, W!Patch!Writes, W!Patch!Destination
<1> QED
  BY <1>1, <1>2, <1>3 DEF W!Undisturbed

LEMMA NothingReadStands ==
    ASSUME FilesTyped, NEW a \in PatchCalls, call'[a].before = <<>>
    PROVE  FilesKnown(a)'
BY DEF FilesKnown, Stands, ReadSoFar

LEMMA ProposeKept ==
    ASSUME TransactionInv, NEW a \in PatchCalls, W!CallStep(a), W!Patch!Propose(a)
    PROVE  TransactionInv'
<1>1. FilesTyped /\ PlaceKnown(a) /\ JournalOrdered
  BY DEF TransactionInv
<1> DEFINE texts == [i \in W!Patch!Writes(a) |-> W!Patch!Text(file[Plan[a][i].path])]
<1>2. texts \in Seq(WriterSets) /\ Len(texts) = Size(a)
  <2>1. \A i \in 1..Size(a) : W!Patch!Text(file[Plan[a][i].path]) \in WriterSets
    BY <1>1, PlanFacts, TextFacts DEF FilesTyped
  <2> QED
    BY <2>1, PlanFacts
<1>3. /\ call[a].step = "idle" /\ W!Patch!Step(a, [step |-> "proposed", expected |-> texts])
      /\ file' = file /\ journal' = journal /\ mutex' = mutex
  BY DEF W!Patch!Propose, W!Patch!At
<1> HIDE DEF texts
<1>4. /\ call' \in [PatchCalls -> CallRecord] /\ \A b \in PatchCalls \ {a} : call'[b] = call[b]
      /\ call'[a].step = "proposed" /\ call'[a].expected = texts /\ call'[a].before = call[a].before
      /\ call'[a].at = call[a].at /\ call'[a].conflict = call[a].conflict
  BY <1>1, <1>2, <1>3, StepSets DEF CallFields
<1>5. /\ call[a].before = <<>> /\ call[a].at = 1 /\ call[a].conflict = "none" /\ mutex # a
  BY <1>1, <1>3 DEF PlaceKnown, HoldingSteps, CommittedSteps, Conclusions
<1>6. PlaceKnown(a)' /\ PreflightKnown(a)' /\ AttemptKnown(a)' /\ FilesKnown(a)'
  <2>1. FilesKnown(a)'
    BY <1>1, <1>4, <1>5, NothingReadStands
  <2>2. PlaceKnown(a)'
    BY <1>2, <1>3, <1>4, <1>5 DEF PlaceKnown, ReadSoFar, HoldingSteps, CommittedSteps, Conclusions, Size
  <2>3. PreflightKnown(a)' /\ AttemptKnown(a)'
    BY <1>4, <1>5 DEF PreflightKnown, AttemptKnown, HoldingSteps, CommittedSteps, Conclusions
  <2> QED
    BY <2>1, <2>2, <2>3
<1>7. JournalOrdered' /\ file' \in [FilePaths -> Content]
  BY <1>1, <1>3 DEF JournalOrdered, FilesTyped
<1>8. call'[a].step \notin HoldingSteps
  BY <1>4 DEF HoldingSteps, CommittedSteps, Conclusions
<1> QED
  BY <1>1, <1>3, <1>4, <1>6, <1>7, <1>8, OwnHistory, OneMoves

LEMMA BeginApplyKept ==
    ASSUME TransactionInv, NEW a \in PatchCalls, W!CallStep(a), W!Patch!BeginApply(a)
    PROVE  TransactionInv'
<1>1. FilesTyped /\ PlaceKnown(a) /\ JournalOrdered
  BY DEF TransactionInv
<1>2. /\ call[a].step = "proposed" /\ mutex = Unlocked
      /\ file' = file /\ journal' = journal
  BY DEF W!Patch!BeginApply, W!Patch!At
<1>3. /\ call[a].before = <<>> /\ call[a].at = 1 /\ call[a].conflict = "none" /\ mutex # a
      /\ Len(call[a].expected) = Size(a)
  BY <1>1, <1>2 DEF PlaceKnown, HoldingSteps, CommittedSteps, Conclusions
<1>4. /\ W!Patch!NextAttempt \in Nat /\ W!Patch!NextAttempt > 0
      /\ \A i \in DOMAIN journal : journal[i].attempt < W!Patch!NextAttempt
  BY <1>1, NextIsLater
<1>5. JournalOrdered' /\ file' \in [FilePaths -> Content]
  BY <1>1, <1>2 DEF JournalOrdered, FilesTyped
<1>6. CASE W!Patch!Return(a, "limit")
  <2>1. W!Patch!Step(a, [step |-> "done", result |-> "limit"]) /\ mutex' = mutex
    BY <1>2, <1>6 DEF W!Patch!Return
  <2>2. /\ call' \in [PatchCalls -> CallRecord] /\ \A b \in PatchCalls \ {a} : call'[b] = call[b]
        /\ call'[a].step = "done" /\ call'[a].result = "limit"
        /\ call'[a].expected = call[a].expected /\ call'[a].before = call[a].before
    BY <1>1, <2>1, StepSets DEF CallFields, Answers
  <2>3. FilesKnown(a)'
    BY <1>1, <1>3, <2>2, NothingReadStands
  <2>4. PlaceKnown(a)'
    BY <1>3, <2>1, <2>2 DEF PlaceKnown, ReadSoFar, HoldingSteps, CommittedSteps, Conclusions
  <2>5. PreflightKnown(a)' /\ AttemptKnown(a)' /\ call'[a].step \notin HoldingSteps
    BY <1>3, <2>2 DEF PreflightKnown, AttemptKnown, HoldingSteps, CommittedSteps, Conclusions
  <2> QED
    BY <1>1, <1>2, <1>5, <2>1, <2>2, <2>3, <2>4, <2>5, OwnHistory, OneMoves
<1>7. CASE /\ W!Patch!Step(a, [step |-> "read", attempt |-> W!Patch!NextAttempt])
           /\ mutex' = a
  <2> DEFINE next == W!Patch!NextAttempt
  <2>1. W!Patch!Step(a, [step |-> "read", attempt |-> next]) /\ next \in Nat
    BY <1>4, <1>7
  <2>0. next > 0 /\ \A i \in DOMAIN journal : journal[i].attempt < next
    BY <1>4
  <2> HIDE DEF next
  <2>2. /\ call' \in [PatchCalls -> CallRecord] /\ \A b \in PatchCalls \ {a} : call'[b] = call[b]
        /\ call'[a].step = "read" /\ call'[a].attempt = next
        /\ call'[a].at = call[a].at /\ call'[a].conflict = call[a].conflict
        /\ call'[a].expected = call[a].expected /\ call'[a].before = call[a].before
    <3>1. "read" \in HoldingSteps
      BY DEF HoldingSteps
    <3> QED
      BY <1>1, <2>1, <3>1, StepSets DEF CallFields
  <2>3. FilesKnown(a)'
    BY <1>1, <1>3, <2>2, NothingReadStands
  <2>4. PlaceKnown(a)'
    BY <1>3, <1>7, <2>2, PlanFacts DEF PlaceKnown, ReadSoFar, HoldingSteps, CommittedSteps, Conclusions
  <2>5. PreflightKnown(a)' /\ AttemptKnown(a)'
    BY <1>2, <1>3, <2>0, <2>2 DEF PreflightKnown, AttemptKnown, CommittedSteps, Conclusions
  <2> QED
    BY <1>1, <1>2, <1>5, <1>7, <2>0, <2>2, <2>3, <2>4, <2>5, OwnHistory, OneMoves
<1> QED
  BY <1>6, <1>7 DEF W!Patch!BeginApply

(* The preflight reads one more target.                                     *)
LEMMA ReadTargetKept ==
    ASSUME TransactionInv, NEW a \in PatchCalls, W!CallStep(a), W!Patch!ReadTarget(a)
    PROVE  TransactionInv'
<1>1. /\ FilesTyped /\ PlaceKnown(a) /\ PreflightKnown(a) /\ AttemptKnown(a) /\ JournalOrdered
      /\ W!Undisturbed(a) => FilesKnown(a)
  BY DEF TransactionInv
<1>2. call[a].step = "read" /\ file' = file /\ journal' = journal /\ mutex' = mutex
  BY DEF W!Patch!ReadTarget, W!Patch!At
<1>3. mutex = a /\ call[a].at \in 1..Size(a) /\ ReadSoFar(a) = call[a].at - 1 /\ Len(call[a].expected) = Size(a)
  BY <1>1, <1>2 DEF PlaceKnown, HoldingSteps
<1>n. PICK n \in 1..Size(a) : n = call[a].at
  BY <1>3
<1> DEFINE w == Plan[a][n]
           last == n = Size(a)
           conflict ==
               IF W!Patch!TouchesTwice(a) \/ W!Patch!OperationConflict(w) THEN "operation_precondition"
               ELSE IF W!Patch!Text(file[w.path]) # call[a].expected[n]
                       /\ call[a].conflict = "none" THEN "stale_precondition"
               ELSE call[a].conflict
           before == Append(call[a].before, file[w.path])
<1>4. W!Patch!Step(a, [step |-> IF last THEN "decide" ELSE "read", at |-> IF last THEN 1 ELSE n + 1,
                       before |-> before, conflict |-> conflict])
  BY <1>n, Zenon DEF W!Patch!ReadTarget, W!Patch!Write, Size
<1>5. /\ w.op \in {"create", "modify", "delete", "rename"} /\ w.path \in FilePaths /\ w.to \in FilePaths
      /\ Size(a) \in Nat /\ 1 \in 1..Size(a)
  BY PlanFacts
<1>6. /\ file[w.path] \in Content
      /\ before \in Seq(Content) /\ Len(before) = n /\ before[n] = file[w.path] /\ before # <<>>
      /\ \A j \in 1..(n - 1) : before[j] = call[a].before[j]
  <2>1. call[a].before \in Seq(Content) /\ file[w.path] \in Content /\ Len(call[a].before) = n - 1
    BY <1>1, <1>3, <1>5, <1>n, RecordFacts DEF FilesTyped, ReadSoFar
  <2> QED
    BY <1>n, <2>1
<1>7. conflict \in {"none", "operation_precondition", "stale_precondition"}
  BY <1>1, RecordFacts
<1>8. conflict = "none" =>
          /\ call[a].conflict = "none" /\ ~W!Patch!TouchesTwice(a) /\ ~W!Patch!OperationConflict(w)
          /\ W!Patch!Text(file[w.path]) = call[a].expected[n]
  OBVIOUS
<1> HIDE DEF before, conflict
<1>9. /\ call' \in [PatchCalls -> CallRecord] /\ \A b \in PatchCalls \ {a} : call'[b] = call[b]
      /\ call'[a].step = (IF last THEN "decide" ELSE "read") /\ call'[a].at = (IF last THEN 1 ELSE n + 1)
      /\ call'[a].before = before /\ call'[a].conflict = conflict
      /\ call'[a].attempt = call[a].attempt /\ call'[a].expected = call[a].expected
      /\ call'[a].result = call[a].result
  <2>1. "read" \in HoldingSteps /\ "decide" \in HoldingSteps
    BY DEF HoldingSteps
  <2> QED
    BY <1>1, <1>4, <1>6, <1>7, <2>1, StepSets DEF CallFields
<1>10. ReadSoFar(a)' = n
  BY <1>6, <1>9 DEF ReadSoFar
<1>11. PlaceKnown(a)'
  <2>1. CASE last
    BY <1>2, <1>3, <1>5, <1>9, <1>10, <1>n, <2>1 DEF PlaceKnown, HoldingSteps, CommittedSteps, Conclusions
  <2>2. CASE ~last
    <3>1. /\ call'[a].step = "read" /\ call'[a].at = n + 1 /\ n + 1 \in 1..Size(a)
          /\ mutex' = a /\ Len(call'[a].expected) = Size(a)
      BY <1>2, <1>3, <1>5, <1>9, <2>2
    <3> HIDE DEF last
    <3> QED
      BY <1>10, <3>1 DEF PlaceKnown, HoldingSteps, CommittedSteps, Conclusions
  <2> QED
    BY <2>1, <2>2
<1>12. ASSUME conflict = "none", NEW i \in 1..n
       PROVE  ReadFine(a, i)' /\ ~W!Patch!TouchesTwice(a)'
  <2>1. ~W!Patch!TouchesTwice(a)'
    BY <1>8, <1>12 DEF W!Patch!TouchesTwice, W!Patch!Writes, W!Patch!Destination
  <2>2. CASE i = n
    <3>1. w.op = "create" <=> file[w.path] = Missing
      BY <1>8, <1>12 DEF W!Patch!OperationConflict
    <3>2. w.op = "rename" => w.path # w.to
      BY <1>8, <1>12, <3>1 DEF W!Patch!OperationConflict
    <3>3. call'[a].expected[n] = W!Patch!Text(before[n])
      BY <1>6, <1>8, <1>9, <1>12
    <3> QED
      BY <1>6, <1>9, <2>1, <2>2, <3>1, <3>2, <3>3 DEF ReadFine, W!Patch!Text
  <2>3. CASE i \in 1..(n - 1)
    <3>1. call[a].before # <<>> /\ i \in 1..ReadSoFar(a)
      <4>1. Len(<<>>) = 0
        OBVIOUS
      <4> QED
        BY <1>3, <1>n, <2>3, <4>1 DEF ReadSoFar
    <3>2. ReadFine(a, i)
      BY <1>1, <1>8, <1>12, <3>1 DEF PreflightKnown
    <3> QED
      BY <1>6, <1>9, <2>1, <2>3, <3>2 DEF ReadFine, W!Patch!Text
  <2> QED
    BY <1>n, <1>5, <2>1, <2>2, <2>3
<1>13. PreflightKnown(a)'
  BY <1>5, <1>9, <1>10, <1>12 DEF PreflightKnown
<1>14. AttemptKnown(a)'
  BY <1>1, <1>2, <1>9 DEF AttemptKnown, HoldingSteps, CommittedSteps, Conclusions
<1>15. ASSUME W!Undisturbed(a)'
       PROVE  FilesKnown(a)'
  <2>1. Stands(a)
    BY <1>1, <1>2, <1>15, OwnHistory DEF FilesKnown, LooseEnd
  <2>2. Position(a) = 1 /\ Position(a)' = 1
    <3>1. call'[a].step \in {"read", "decide"}
      BY <1>9
    <3> QED
      BY <1>2, <3>1 DEF Position
  <2>3. ASSUME NEW i \in 1..n
        PROVE  W!Untouched(a, i)'
    <3>1. CASE i = n
      <4>1. file'[w.path] = call'[a].before[n]
        BY <1>2, <1>6, <1>9
      <4>2. w.op = "rename" /\ call'[a].conflict = "none" => file'[w.to] = Missing
        BY <1>2, <1>8, <1>9 DEF W!Patch!OperationConflict
      <4> QED
        BY <3>1, <4>1, <4>2 DEF W!Untouched
    <3>2. CASE i \in 1..(n - 1)
      <4>1. W!Untouched(a, i)
        BY <1>3, <1>n, <2>1, <2>2, <3>2 DEF Stands
      <4>2. call'[a].before[i] = call[a].before[i] /\ call'[a].conflict = "none" => call[a].conflict = "none"
        BY <1>6, <1>8, <1>9, <3>2
      <4>3. call'[a].before[i] = call[a].before[i]
        BY <1>6, <1>9, <3>2
      <4> QED
        BY <1>2, <4>1, <4>2, <4>3 DEF W!Untouched
    <3> QED
      BY <1>n, <1>5, <2>3, <3>1, <3>2
  <2> QED
    BY <1>10, <2>2, <2>3 DEF FilesKnown, Stands
<1>16. JournalOrdered' /\ file' \in [FilePaths -> Content]
  BY <1>1, <1>2 DEF JournalOrdered, FilesTyped
<1>17. call[a].step \in HoldingSteps
  BY <1>2 DEF HoldingSteps
<1> QED
  BY <1>1, <1>2, <1>9, <1>11, <1>13, <1>14, <1>15, <1>16, <1>17, OwnHistory, OneMoves

(* Between its plan and its conclusion a call keeps what it read, the       *)
(* journal and the mutex.                                                   *)
LEMMA GoesOn ==
    ASSUME TransactionInv, NEW a \in PatchCalls, W!CallStep(a), call[a].step \in CommittedSteps,
           journal' = journal, mutex' = mutex, file' \in [FilePaths -> Content],
           call' \in [PatchCalls -> CallRecord], \A b \in PatchCalls \ {a} : call'[b] = call[b],
           call'[a].step \in CommittedSteps, call'[a].attempt = call[a].attempt,
           call'[a].expected = call[a].expected, call'[a].before = call[a].before,
           call'[a].conflict = call[a].conflict,
           call'[a].step \in {"check", "write", "verify"} => call'[a].at \in 1..Size(a),
           call'[a].step = "rollback" => call'[a].at \in 0..Size(a),
           call'[a].step = "reject" => call'[a].at = 1,
           W!Undisturbed(a) /\ FilesKnown(a) => FilesKnown(a)'
    PROVE  TransactionInv'
<1>1. /\ FilesTyped /\ PlaceKnown(a) /\ PreflightKnown(a) /\ AttemptKnown(a) /\ JournalOrdered
      /\ W!Undisturbed(a) => FilesKnown(a)
  BY DEF TransactionInv
<1>2. /\ call[a].step \in HoldingSteps /\ call'[a].step \in HoldingSteps
      /\ call[a].step \notin {"idle", "proposed", "read", "decide", "done", "dead"}
      /\ call'[a].step \notin {"idle", "proposed", "read", "decide", "done", "dead"}
  BY DEF HoldingSteps, CommittedSteps, Conclusions
<1>3. ReadSoFar(a)' = ReadSoFar(a) /\ ReadSoFar(a) = Size(a) /\ mutex = a /\ call[a].conflict = "none"
      /\ Len(call[a].expected) = Size(a)
  BY <1>1, <1>2 DEF ReadSoFar, PlaceKnown
<1>4. PlaceKnown(a)'
  BY <1>2, <1>3 DEF PlaceKnown
<1>5. PreflightKnown(a)'
  BY <1>1, <1>3 DEF PreflightKnown, ReadFine, W!Patch!Text, W!Patch!TouchesTwice, W!Patch!Writes, W!Patch!Destination
<1>6. AttemptKnown(a)'
  BY <1>1, <1>2 DEF AttemptKnown
<1>7. JournalOrdered'
  BY <1>1 DEF JournalOrdered
<1>8. W!Undisturbed(a)' => FilesKnown(a)'
  BY <1>1, <1>2, OwnHistory
<1> QED
  BY <1>1, <1>2, <1>4, <1>5, <1>6, <1>7, <1>8, OwnHistory, OneMoves

(* What a call past its decision knows.                                     *)
LEMMA CommittedFacts ==
    ASSUME TransactionInv, NEW a \in PatchCalls, call[a].step \in CommittedSteps
    PROVE  /\ FilesTyped /\ PreflightKnown(a) /\ mutex = a /\ call[a].step \in HoldingSteps
           /\ ReadSoFar(a) = Size(a) /\ Len(call[a].expected) = Size(a)
           /\ call[a].conflict = "none"
           /\ call[a].step # "critical" => (W!Undisturbed(a) => Stands(a))
<1>1. FilesTyped /\ PlaceKnown(a) /\ PreflightKnown(a) /\ (W!Undisturbed(a) => FilesKnown(a))
  BY DEF TransactionInv
<1>2. /\ call[a].step \in HoldingSteps
      /\ call[a].step \notin {"idle", "proposed", "read", "decide", "done", "dead"}
  BY DEF HoldingSteps, CommittedSteps, Conclusions
<1> QED
  BY <1>1, <1>2 DEF PlaceKnown, FilesKnown, LooseEnd

LEMMA CheckTargetKept ==
    ASSUME TransactionInv, NEW a \in PatchCalls, W!CallStep(a), W!Patch!CheckTarget(a)
    PROVE  TransactionInv'
<1>1. /\ call[a].step = "check" /\ file' = file /\ journal' = journal /\ mutex' = mutex
      /\ \/ W!Patch!Step(a, [step |-> "write"])
         \/ call[a].at = 1 /\ W!Patch!Step(a, [step |-> "reject"])
         \/ call[a].at # 1 /\ W!Patch!Step(a, [step |-> "rollback", at |-> call[a].at - 1])
  BY DEF W!Patch!CheckTarget, W!Patch!At, W!Patch!Go
<1>2. /\ FilesTyped /\ ReadSoFar(a) = Size(a) /\ (W!Undisturbed(a) => Stands(a))
      /\ call[a].step \in CommittedSteps
  <2>1. call[a].step \in CommittedSteps
    BY <1>1 DEF CommittedSteps
  <2> QED
    BY <1>1, <2>1, CommittedFacts
<1>3. call[a].at \in 1..Size(a) /\ Size(a) \in Nat
  BY <1>1, PlanFacts DEF TransactionInv, PlaceKnown
<1>4. /\ call' \in [PatchCalls -> CallRecord] /\ \A b \in PatchCalls \ {a} : call'[b] = call[b]
      /\ call'[a].expected = call[a].expected /\ call'[a].before = call[a].before
      /\ call'[a].conflict = call[a].conflict /\ call'[a].attempt = call[a].attempt
      /\ \/ call'[a].step = "write" /\ call'[a].at = call[a].at
         \/ call'[a].step = "reject" /\ call'[a].at = call[a].at /\ call[a].at = 1
         \/ call'[a].step = "rollback" /\ call'[a].at = call[a].at - 1
  <2>0. {"write", "reject", "rollback"} \subseteq HoldingSteps
    BY DEF HoldingSteps, CommittedSteps, Conclusions
  <2>1. CASE W!Patch!Step(a, [step |-> "write"])
    BY <1>2, <2>0, <2>1, StepSets DEF CallFields
  <2>2. CASE call[a].at = 1 /\ W!Patch!Step(a, [step |-> "reject"])
    BY <1>2, <2>0, <2>2, StepSets DEF CallFields
  <2>3. CASE W!Patch!Step(a, [step |-> "rollback", at |-> call[a].at - 1])
    <3>1. PICK m \in Nat : m = call[a].at - 1
      BY <1>3
    <3>2. W!Patch!Step(a, [step |-> "rollback", at |-> m])
      BY <2>3, <3>1
    <3> QED
      BY <1>2, <2>0, <3>1, <3>2, StepSets DEF CallFields
  <2> QED
    BY <1>1, <2>1, <2>2, <2>3
<1>5. Position(a)' = Position(a)
  BY <1>1, <1>3, <1>4 DEF Position
<1>6. W!Undisturbed(a) /\ FilesKnown(a) => FilesKnown(a)'
  BY <1>1, <1>2, <1>3, <1>4, <1>5, StandsSame DEF FilesKnown
<1>7. call'[a].step \in CommittedSteps
  BY <1>4 DEF CommittedSteps, Conclusions
<1> QED
  BY <1>1, <1>2, <1>3, <1>4, <1>6, <1>7, GoesOn DEF FilesTyped

LEMMA WriteTargetKept ==
    ASSUME TransactionInv, NEW a \in PatchCalls, W!CallStep(a), W!Patch!WriteTarget(a)
    PROVE  TransactionInv'
<1>1. /\ call[a].step = "write" /\ journal' = journal /\ mutex' = mutex
      /\ \/ file' = W!Patch!Written(a) /\ W!Patch!Step(a, [step |-> "verify"])
         \/ file' = file /\ W!Patch!Step(a, [step |-> "rollback", at |-> call[a].at - 1])
  BY DEF W!Patch!WriteTarget, W!Patch!At, W!Patch!Go
<1>2. /\ FilesTyped /\ ReadSoFar(a) = Size(a) /\ (W!Undisturbed(a) => Stands(a))
      /\ call[a].step \in CommittedSteps /\ PreflightKnown(a) /\ Len(call[a].expected) = Size(a)
      /\ call[a].conflict = "none"
  <2>1. call[a].step \in CommittedSteps
    BY <1>1 DEF CommittedSteps
  <2> QED
    BY <1>1, <2>1, CommittedFacts
<1>3. call[a].at \in 1..Size(a) /\ Size(a) \in Nat
  BY <1>1, PlanFacts DEF TransactionInv, PlaceKnown
<1>4. /\ call' \in [PatchCalls -> CallRecord] /\ \A b \in PatchCalls \ {a} : call'[b] = call[b]
      /\ call'[a].expected = call[a].expected /\ call'[a].before = call[a].before
      /\ call'[a].conflict = call[a].conflict /\ call'[a].attempt = call[a].attempt
      /\ \/ file' = W!Patch!Written(a) /\ call'[a].step = "verify" /\ call'[a].at = call[a].at
         \/ file' = file /\ call'[a].step = "rollback" /\ call'[a].at = call[a].at - 1
  <2>0. {"verify", "rollback"} \subseteq HoldingSteps
    BY DEF HoldingSteps, CommittedSteps, Conclusions
  <2>1. CASE file' = W!Patch!Written(a) /\ W!Patch!Step(a, [step |-> "verify"])
    BY <1>2, <2>0, <2>1, StepSets DEF CallFields
  <2>2. CASE file' = file /\ W!Patch!Step(a, [step |-> "rollback", at |-> call[a].at - 1])
    <3>1. PICK m \in Nat : m = call[a].at - 1
      BY <1>3
    <3>2. W!Patch!Step(a, [step |-> "rollback", at |-> m])
      BY <2>2, <3>1
    <3> QED
      BY <1>2, <2>0, <2>2, <3>1, <3>2, StepSets DEF CallFields
  <2> QED
    BY <1>1, <2>1, <2>2
<1>5. W!Undisturbed(a) /\ FilesKnown(a) => FilesKnown(a)'
  <2>1. CASE file' = W!Patch!Written(a) /\ call'[a].step = "verify" /\ call'[a].at = call[a].at
    <3>1. Position(a)' = call[a].at + 1
      BY <2>1 DEF Position
    <3> QED
      BY <1>1, <1>2, <1>3, <1>4, <2>1, <3>1, StandsWritten DEF FilesKnown
  <2>2. CASE file' = file /\ call'[a].step = "rollback" /\ call'[a].at = call[a].at - 1
    <3>1. Position(a)' = Position(a)
      BY <1>1, <1>3, <2>2 DEF Position
    <3> QED
      BY <1>1, <1>2, <1>3, <1>4, <2>2, <3>1, StandsSame DEF FilesKnown
  <2> QED
    BY <1>4, <2>1, <2>2
<1>6. file' \in [FilePaths -> Content]
  <2> DEFINE w == W!Patch!Write(a)
  <2>1. /\ w.op \in {"create", "modify", "delete", "rename"} /\ w.path \in FilePaths /\ w.to \in FilePaths
        /\ W!Patch!After(a, call[a].at) \in Content /\ Missing \in Content
    <3>1. call[a].expected[call[a].at] \in WriterSets
      BY <1>2, <1>3, RecordFacts
    <3>2. W!Patch!After(a, call[a].at) \in Content
      <4>1. W!Patch!Text(call[a].expected[call[a].at]) \in WriterSets
        BY <3>1, TextFacts
      <4> QED
        BY <4>1 DEF W!Patch!After, WriterSets, Content
    <3> QED
      BY <1>3, <3>2, PlanFacts DEF W!Patch!Write, Content
  <2>2. file \in [FilePaths -> Content] /\ file[w.path] \in Content
    BY <1>2, <2>1 DEF FilesTyped
  <2> HIDE DEF w
  <2>3. W!Patch!Written(a) \in [FilePaths -> Content]
    BY <2>1, <2>2 DEF W!Patch!Written, w
  <2> QED
    BY <1>4, <2>2, <2>3
<1>7. call'[a].step \in CommittedSteps
  BY <1>4 DEF CommittedSteps, Conclusions
<1> QED
  BY <1>1, <1>2, <1>3, <1>4, <1>5, <1>6, <1>7, GoesOn

LEMMA VerifyTargetKept ==
    ASSUME TransactionInv, NEW a \in PatchCalls, W!CallStep(a), W!Patch!VerifyTarget(a)
    PROVE  TransactionInv'
<1>1. /\ call[a].step = "verify" /\ file' = file /\ journal' = journal /\ mutex' = mutex
      /\ \/ call[a].at = Size(a) /\ W!Patch!Step(a, [step |-> "applied"])
         \/ call[a].at # Size(a) /\ W!Patch!Step(a, [step |-> "check", at |-> call[a].at + 1])
         \/ W!Patch!Step(a, [step |-> "rollback"])
  BY DEF W!Patch!VerifyTarget, W!Patch!At, W!Patch!Go, Size
<1>2. /\ FilesTyped /\ ReadSoFar(a) = Size(a) /\ (W!Undisturbed(a) => Stands(a))
      /\ call[a].step \in CommittedSteps
  <2>1. call[a].step \in CommittedSteps
    BY <1>1 DEF CommittedSteps
  <2> QED
    BY <1>1, <2>1, CommittedFacts
<1>3. call[a].at \in 1..Size(a) /\ Size(a) \in Nat
  BY <1>1, PlanFacts DEF TransactionInv, PlaceKnown
<1>4. /\ call' \in [PatchCalls -> CallRecord] /\ \A b \in PatchCalls \ {a} : call'[b] = call[b]
      /\ call'[a].expected = call[a].expected /\ call'[a].before = call[a].before
      /\ call'[a].conflict = call[a].conflict /\ call'[a].attempt = call[a].attempt
      /\ \/ call'[a].step = "applied" /\ call'[a].at = call[a].at /\ call[a].at = Size(a)
         \/ call'[a].step = "check" /\ call'[a].at = call[a].at + 1 /\ call[a].at # Size(a)
         \/ call'[a].step = "rollback" /\ call'[a].at = call[a].at
  <2>0. {"applied", "check", "rollback"} \subseteq HoldingSteps
    BY DEF HoldingSteps, CommittedSteps, Conclusions
  <2>1. CASE call[a].at = Size(a) /\ W!Patch!Step(a, [step |-> "applied"])
    BY <1>2, <2>0, <2>1, StepSets DEF CallFields
  <2>2. CASE W!Patch!Step(a, [step |-> "rollback"])
    BY <1>2, <2>0, <2>2, StepSets DEF CallFields
  <2>3. CASE call[a].at # Size(a) /\ W!Patch!Step(a, [step |-> "check", at |-> call[a].at + 1])
    <3>1. PICK m \in Nat : m = call[a].at + 1
      BY <1>3
    <3>2. W!Patch!Step(a, [step |-> "check", at |-> m])
      BY <2>3, <3>1
    <3> QED
      BY <1>2, <2>0, <2>3, <3>1, <3>2, StepSets DEF CallFields
  <2> QED
    BY <1>1, <2>1, <2>2, <2>3
<1>5. Position(a)' = Position(a)
  BY <1>1, <1>3, <1>4 DEF Position
<1>6. W!Undisturbed(a) /\ FilesKnown(a) => FilesKnown(a)'
  BY <1>1, <1>2, <1>3, <1>4, <1>5, StandsSame DEF FilesKnown
<1>7. call'[a].step \in CommittedSteps
  BY <1>4 DEF CommittedSteps, Conclusions
<1> QED
  BY <1>1, <1>2, <1>3, <1>4, <1>6, <1>7, GoesOn DEF FilesTyped

LEMMA RollBackKept ==
    ASSUME TransactionInv, NEW a \in PatchCalls, W!CallStep(a), W!Patch!RollBack(a)
    PROVE  TransactionInv'
<1>1. /\ call[a].step = "rollback" /\ journal' = journal /\ mutex' = mutex
      /\ \/ call[a].at = 0 /\ file' = file /\ W!Patch!Step(a, [step |-> "rolledBack"])
         \/ call[a].at # 0 /\ file' = W!Patch!Restored(a) /\ W!Patch!Step(a, [at |-> call[a].at - 1])
         \/ file' = file /\ W!Patch!Step(a, [step |-> "critical"])
  BY DEF W!Patch!RollBack, W!Patch!At, W!Patch!Go
<1>2. /\ FilesTyped /\ ReadSoFar(a) = Size(a) /\ (W!Undisturbed(a) => Stands(a))
      /\ call[a].step \in CommittedSteps /\ PreflightKnown(a) /\ Len(call[a].expected) = Size(a)
      /\ call[a].conflict = "none"
  <2>1. call[a].step \in CommittedSteps
    BY <1>1 DEF CommittedSteps
  <2> QED
    BY <1>1, <2>1, CommittedFacts
<1>3. call[a].at \in 0..Size(a) /\ Size(a) \in Nat
  BY <1>1, PlanFacts DEF TransactionInv, PlaceKnown
<1>4. /\ call' \in [PatchCalls -> CallRecord] /\ \A b \in PatchCalls \ {a} : call'[b] = call[b]
      /\ call'[a].expected = call[a].expected /\ call'[a].before = call[a].before
      /\ call'[a].conflict = call[a].conflict /\ call'[a].attempt = call[a].attempt
      /\ \/ call[a].at = 0 /\ file' = file /\ call'[a].step = "rolledBack"
         \/ /\ call[a].at # 0 /\ file' = W!Patch!Restored(a)
            /\ call'[a].step = "rollback" /\ call'[a].at = call[a].at - 1
         \/ file' = file /\ call'[a].step = "critical"
  <2>0. {"rolledBack", "critical"} \subseteq HoldingSteps
    BY DEF HoldingSteps, CommittedSteps, Conclusions
  <2>1. CASE call[a].at = 0 /\ file' = file /\ W!Patch!Step(a, [step |-> "rolledBack"])
    BY <1>2, <2>0, <2>1, StepSets DEF CallFields
  <2>2. CASE file' = file /\ W!Patch!Step(a, [step |-> "critical"])
    BY <1>2, <2>0, <2>2, StepSets DEF CallFields
  <2>3. CASE call[a].at # 0 /\ file' = W!Patch!Restored(a) /\ W!Patch!Step(a, [at |-> call[a].at - 1])
    <3>1. PICK m \in Nat : m = call[a].at - 1
      BY <1>3, <2>3
    <3>2. W!Patch!Step(a, [at |-> m])
      BY <2>3, <3>1
    <3> QED
      BY <1>1, <1>2, <2>0, <2>3, <3>1, <3>2, StepSets DEF CallFields
  <2> QED
    BY <1>1, <2>1, <2>2, <2>3
<1>5. W!Undisturbed(a) /\ FilesKnown(a) => FilesKnown(a)'
  <2>1. CASE call[a].at = 0 /\ file' = file /\ call'[a].step = "rolledBack"
    <3>1. Position(a)' = Position(a)
      BY <1>1, <2>1 DEF Position
    <3> QED
      BY <1>1, <1>2, <1>3, <1>4, <2>1, <3>1, StandsSame DEF FilesKnown
  <2>2. CASE /\ call[a].at # 0 /\ file' = W!Patch!Restored(a)
             /\ call'[a].step = "rollback" /\ call'[a].at = call[a].at - 1
    <3>1. Position(a)' = call[a].at /\ call[a].at \in 1..Size(a)
      BY <1>3, <2>2 DEF Position
    <3> QED
      BY <1>1, <1>2, <1>3, <1>4, <2>2, <3>1, StandsRestored DEF FilesKnown
  <2>3. CASE call'[a].step = "critical"
    BY <2>3 DEF FilesKnown
  <2> QED
    BY <1>4, <2>1, <2>2, <2>3
<1>6. file' \in [FilePaths -> Content]
  <2>1. CASE file' = file
    BY <1>2, <2>1 DEF FilesTyped
  <2>2. CASE call[a].at # 0 /\ file' = W!Patch!Restored(a)
    <3> DEFINE w == W!Patch!Write(a)
    <3>1. /\ w.op \in {"create", "modify", "delete", "rename"} /\ w.path \in FilePaths /\ w.to \in FilePaths
          /\ call[a].before[call[a].at] \in Content /\ Missing \in Content
      BY <1>2, <1>3, <2>2, PlanFacts, RecordFacts DEF W!Patch!Write, Content
    <3>2. file \in [FilePaths -> Content] /\ file[w.to] \in Content
      BY <1>2, <3>1 DEF FilesTyped
    <3> HIDE DEF w
    <3>3. W!Patch!Restored(a) \in [FilePaths -> Content]
      BY <3>1, <3>2 DEF W!Patch!Restored, w
    <3> QED
      BY <2>2, <3>3
  <2> QED
    BY <1>4, <2>1, <2>2
<1>7. /\ call'[a].step \in CommittedSteps
      /\ call'[a].step \notin {"check", "write", "verify", "reject"}
      /\ call'[a].step = "rollback" => call'[a].at \in 0..Size(a)
  BY <1>3, <1>4 DEF CommittedSteps, Conclusions
<1> QED
  BY <1>1, <1>2, <1>3, <1>4, <1>5, <1>6, <1>7, GoesOn

(* The decision is journaled, and a call that is not refused goes on.       *)
LEMMA DecideKept ==
    ASSUME TransactionInv, NEW a \in PatchCalls, W!CallStep(a), W!Patch!Decide(a)
    PROVE  TransactionInv'
<1>1. /\ FilesTyped /\ PlaceKnown(a) /\ PreflightKnown(a) /\ AttemptKnown(a) /\ JournalOrdered
      /\ W!Undisturbed(a) => FilesKnown(a)
  BY DEF TransactionInv
<1>2. /\ call[a].step = "decide" /\ file' = file
      /\ \/ /\ journal' = Append(journal, [attempt |-> call[a].attempt, state |-> "rejected"])
            /\ W!Patch!Step(a, [step |-> "done", result |-> "rejected"]) /\ mutex' = Unlocked
         \/ /\ journal' = Append(journal, [attempt |-> call[a].attempt, state |-> "planned"])
            /\ call[a].conflict = "none"
            /\ W!Patch!Step(a, [step |-> "check"]) /\ mutex' = mutex
         \/ /\ journal' = journal
            /\ W!Patch!Step(a, [step |-> "done", result |-> "error"]) /\ mutex' = Unlocked
  BY DEF W!Patch!Decide, W!Patch!At, W!Patch!Go, W!Patch!Return, W!Patch!AppendJournalEvent
<1>3. /\ call[a].step \in HoldingSteps /\ mutex = a /\ call[a].at = 1 /\ ReadSoFar(a) = Size(a)
      /\ Len(call[a].expected) = Size(a) /\ Size(a) \in Nat /\ 1 \in 1..Size(a)
      /\ call[a].attempt \in Nat /\ \A i \in DOMAIN journal : journal[i].attempt < call[a].attempt
      /\ call[a].attempt > 0
  <2>1. call[a].step \in HoldingSteps
    BY <1>2 DEF HoldingSteps
  <2> QED
    BY <1>1, <1>2, <2>1, PlanFacts, RecordFacts DEF PlaceKnown, AttemptKnown
<1>4. /\ call' \in [PatchCalls -> CallRecord] /\ \A b \in PatchCalls \ {a} : call'[b] = call[b]
      /\ call'[a].expected = call[a].expected /\ call'[a].before = call[a].before
      /\ call'[a].conflict = call[a].conflict /\ call'[a].attempt = call[a].attempt
      /\ call'[a].at = call[a].at
      /\ \/ /\ call'[a].step = "done" /\ call'[a].result \in {"rejected", "error"}
            /\ mutex' = Unlocked
            /\ \/ journal' = Append(journal, [attempt |-> call[a].attempt, state |-> "rejected"])
               \/ journal' = journal
         \/ /\ call'[a].step = "check" /\ mutex' = mutex /\ call[a].conflict = "none"
            /\ journal' = Append(journal, [attempt |-> call[a].attempt, state |-> "planned"])
  <2>0. "check" \in HoldingSteps /\ {"rejected", "error"} \subseteq Answers
    BY DEF HoldingSteps, CommittedSteps, Answers
  <2>1. CASE W!Patch!Step(a, [step |-> "done", result |-> "rejected"])
    BY <1>1, <1>2, <2>0, <2>1, StepSets DEF CallFields
  <2>2. CASE W!Patch!Step(a, [step |-> "check"])
    BY <1>1, <1>2, <2>0, <2>2, StepSets DEF CallFields
  <2>3. CASE W!Patch!Step(a, [step |-> "done", result |-> "error"])
    BY <1>1, <1>2, <2>0, <2>3, StepSets DEF CallFields
  <2> QED
    BY <1>2, <2>1, <2>2, <2>3
<1>5. \/ journal' = journal
      \/ \E e \in Event : /\ journal' = Append(journal, e) /\ e.attempt = call[a].attempt
                          /\ call'[a].step = "check" => e.state = "planned"
  BY <1>3, <1>4 DEF Event, Answers
<1>6. JournalOrdered'
  BY <1>1, <1>3, <1>5, JournalGrows DEF JournalOrdered
<1>7. AttemptKnown(a)'
  <2>1. CASE call'[a].step = "check"
    <3>1. PICK e \in Event : e = [attempt |-> call[a].attempt, state |-> "planned"]
      BY <1>3 DEF Event
    <3>2. journal' = Append(journal, e)
      BY <1>4, <2>1, <3>1
    <3>3. /\ journal' # <<>> /\ journal'[Len(journal')] = [attempt |-> call'[a].attempt, state |-> "planned"]
          /\ \A i \in DOMAIN journal' : i < Len(journal') => journal'[i].attempt < call'[a].attempt
      BY <1>1, <1>3, <1>4, <3>1, <3>2, JournalGrows
    <3> QED
      BY <1>3, <1>4, <2>1, <3>3 DEF AttemptKnown
  <2>2. CASE call'[a].step = "done"
    BY <2>2 DEF AttemptKnown, HoldingSteps, CommittedSteps, Conclusions
  <2> QED
    BY <1>4, <2>1, <2>2
<1>8. ReadSoFar(a)' = Size(a)
  BY <1>3, <1>4 DEF ReadSoFar
<1>9. PlaceKnown(a)'
  <2>1. mutex' = a <=> call'[a].step = "check"
    BY <1>3, <1>4, WorkspaceAssumption
  <2>2. CASE call'[a].step = "check"
    BY <1>3, <1>4, <1>8, <2>1, <2>2 DEF PlaceKnown, HoldingSteps, CommittedSteps, Conclusions
  <2>3. CASE call'[a].step = "done"
    BY <1>3, <1>4, <1>8, <2>1, <2>3 DEF PlaceKnown, HoldingSteps, CommittedSteps, Conclusions
  <2> QED
    BY <1>4, <2>2, <2>3
<1>10. PreflightKnown(a)'
  BY <1>1, <1>3, <1>4, <1>8
  DEF PreflightKnown, ReadFine, W!Patch!Text, W!Patch!TouchesTwice, W!Patch!Writes, W!Patch!Destination
<1>11. W!Undisturbed(a)' => FilesKnown(a)'
  <2>1. W!Undisturbed(a)' => Stands(a)
    BY <1>1, <1>2, OwnHistory DEF FilesKnown, LooseEnd
  <2>2. Position(a)' = Position(a)
    BY <1>2, <1>3, <1>4 DEF Position
  <2> QED
    BY <1>1, <1>2, <1>3, <1>4, <2>1, <2>2, StandsSame DEF FilesKnown
<1>12. file' \in [FilePaths -> Content]
  BY <1>1, <1>2 DEF FilesTyped
<1> QED
  BY <1>1, <1>3, <1>4, <1>5, <1>6, <1>7, <1>9, <1>10, <1>11, <1>12, OwnHistory, OneMoves

(* The call returns, and what it leaves half done is in the journal.        *)
LEMMA ConcludeKept ==
    ASSUME TransactionInv, NEW a \in PatchCalls, W!CallStep(a), W!Patch!Conclude(a)
    PROVE  TransactionInv'
<1>1. /\ call[a].step \in Conclusions /\ file' = file /\ mutex' = Unlocked
      /\ \E result \in Answers :
             /\ W!Patch!Step(a, [step |-> "done", result |-> result])
             /\ result # "limit"
             /\ call[a].step \in {"reject", "rolledBack"} =>
                    result \notin {"applied", "rollback_failed_critical"}
             /\ call[a].step = "applied" <=> result = "applied"
             /\ call[a].step = "critical" =>
                    result \in {"rollback_failed_critical", "error"}
             /\ \/ journal' = journal
                \/ \E e \in {[attempt |-> call[a].attempt, state |-> s] : s \in Answers} :
                       /\ journal' = Append(journal, e)
                       /\ call[a].step = "critical" => e.state = "rollback_failed_critical"
  <2>1. DOMAIN W!Patch!Conclusion = Conclusions
    BY DEF W!Patch!Conclusion, Conclusions
  <2>2. \A s \in Conclusions :
            /\ W!Patch!Conclusion[s] \in Answers /\ W!Patch!Conclusion[s] # "limit"
            /\ s \in {"reject", "rolledBack"} =>
                   W!Patch!Conclusion[s] \notin {"applied", "rollback_failed_critical"}
            /\ s = "applied" <=> W!Patch!Conclusion[s] = "applied"
            /\ s = "critical" => W!Patch!Conclusion[s] = "rollback_failed_critical"
    BY DEF W!Patch!Conclusion, Conclusions, Answers
  <2>3. call[a].step \in Conclusions /\ file' = file /\ mutex' = Unlocked
    BY <2>1 DEF W!Patch!Conclude, W!Patch!Return
  <2>4. PICK r \in Answers : r = W!Patch!Conclusion[call[a].step]
    BY <2>2, <2>3
  <2>5. CASE /\ W!Patch!AppendJournalEvent(a, W!Patch!Conclusion[call[a].step])
             /\ W!Patch!Return(a, W!Patch!Conclusion[call[a].step])
    <3>1. /\ journal' = Append(journal, [attempt |-> call[a].attempt, state |-> r])
          /\ W!Patch!Step(a, [step |-> "done", result |-> r])
      BY <2>4, <2>5 DEF W!Patch!AppendJournalEvent, W!Patch!Return
    <3>2. /\ r # "limit"
          /\ call[a].step \in {"reject", "rolledBack"} => r \notin {"applied", "rollback_failed_critical"}
          /\ call[a].step = "applied" <=> r = "applied"
          /\ call[a].step = "critical" => r = "rollback_failed_critical"
      BY <2>2, <2>3, <2>4
    <3> QED
      BY <2>3, <2>4, <3>1, <3>2
  <2>6. CASE /\ W!Patch!Return(a, IF W!Patch!At(a, "applied") THEN "applied" ELSE "error")
             /\ journal' = journal
    <3>1. PICK s \in Answers : s = IF call[a].step = "applied" THEN "applied" ELSE "error"
      BY DEF Answers
    <3>2. W!Patch!Step(a, [step |-> "done", result |-> s])
      BY <2>6, <3>1 DEF W!Patch!Return, W!Patch!At
    <3> QED
      BY <2>3, <2>6, <3>1, <3>2
  <2> QED
    BY <2>5, <2>6 DEF W!Patch!Conclude
<1>2. PICK result \in Answers :
             /\ W!Patch!Step(a, [step |-> "done", result |-> result])
             /\ result # "limit"
             /\ call[a].step \in {"reject", "rolledBack"} =>
                    result \notin {"applied", "rollback_failed_critical"}
             /\ call[a].step = "applied" <=> result = "applied"
             /\ call[a].step = "critical" =>
                    result \in {"rollback_failed_critical", "error"}
             /\ \/ journal' = journal
                \/ \E e \in {[attempt |-> call[a].attempt, state |-> s] : s \in Answers} :
                       /\ journal' = Append(journal, e)
                       /\ call[a].step = "critical" => e.state = "rollback_failed_critical"
  BY <1>1
<1>3. /\ FilesTyped /\ PlaceKnown(a) /\ PreflightKnown(a) /\ AttemptKnown(a) /\ JournalOrdered
      /\ W!Undisturbed(a) => FilesKnown(a)
  BY DEF TransactionInv
<1>4. call[a].step \in CommittedSteps /\ call[a].step \in HoldingSteps
  BY <1>1 DEF CommittedSteps, HoldingSteps
<1>5. /\ mutex = a /\ ReadSoFar(a) = Size(a) /\ Len(call[a].expected) = Size(a)
      /\ call[a].conflict = "none" /\ Size(a) \in Nat
      /\ call[a].step # "critical" => (W!Undisturbed(a) => Stands(a))
      /\ call[a].attempt \in Nat
  BY <1>3, <1>4, CommittedFacts, PlanFacts, RecordFacts
<1>6. /\ journal # <<>>
      /\ journal[Len(journal)] = [attempt |-> call[a].attempt, state |-> "planned"]
      /\ \A i \in DOMAIN journal : i < Len(journal) => journal[i].attempt < call[a].attempt
  BY <1>3, <1>4 DEF AttemptKnown
<1>7. /\ call' \in [PatchCalls -> CallRecord] /\ \A b \in PatchCalls \ {a} : call'[b] = call[b]
      /\ call'[a].step = "done" /\ call'[a].result = result
      /\ call'[a].expected = call[a].expected /\ call'[a].before = call[a].before
      /\ call'[a].conflict = call[a].conflict /\ call'[a].attempt = call[a].attempt
      /\ call'[a].at = call[a].at
  BY <1>2, <1>3, StepSets DEF CallFields
<1>8. \/ journal' = journal
      \/ \E e \in Event : /\ journal' = Append(journal, e) /\ e.attempt = call[a].attempt
                          /\ call[a].step = "critical" => e.state = "rollback_failed_critical"
  BY <1>2, <1>5 DEF Event
<1>9. /\ Len(journal) \in Nat /\ DOMAIN journal = 1..Len(journal)
      /\ \A j \in 1..Len(journal) : journal[j].attempt \in Nat
      /\ Len(journal) \in 1..Len(journal)
  BY <1>3, <1>6, JournalFacts
<1>10. \A i \in DOMAIN journal : journal[i].attempt <= call[a].attempt
  <2>1. ASSUME NEW i \in DOMAIN journal PROVE journal[i].attempt <= call[a].attempt
    <3>1. CASE i = Len(journal)
      BY <1>5, <1>6, <3>1
    <3>2. CASE i < Len(journal)
      BY <1>5, <1>6, <1>9, <3>2
    <3> QED
      BY <1>9, <3>1, <3>2
  <2> QED
    BY <2>1
<1>11. JournalOrdered'
  <2>1. CASE journal' = journal
    BY <1>3, <2>1 DEF JournalOrdered
  <2>2. ASSUME NEW e \in Event, journal' = Append(journal, e), e.attempt = call[a].attempt
        PROVE  JournalOrdered'
    <3>1. /\ Len(journal) \in Nat /\ DOMAIN journal = 1..Len(journal)
          /\ DOMAIN journal' = 1..(Len(journal) + 1) /\ journal'[Len(journal) + 1] = e
          /\ \A j \in 1..Len(journal) : journal'[j] = journal[j]
      BY <1>3, <2>2, JournalGrows
    <3>2. ASSUME NEW i \in DOMAIN journal', NEW j \in DOMAIN journal', i < j
          PROVE  journal'[i].attempt <= journal'[j].attempt
      <4>1. i \in 1..Len(journal) /\ journal'[i] = journal[i]
        BY <3>1, <3>2
      <4>2. CASE j = Len(journal) + 1
        BY <1>10, <2>2, <3>1, <4>1, <4>2
      <4>3. CASE j \in 1..Len(journal)
        BY <1>3, <3>1, <3>2, <4>1, <4>3 DEF JournalOrdered
      <4> QED
        BY <3>1, <4>2, <4>3
    <3> QED
      BY <3>2 DEF JournalOrdered
  <2> QED
    BY <1>8, <2>1, <2>2
<1>12. call'[a].step \notin HoldingSteps
  BY <1>7 DEF HoldingSteps, CommittedSteps, Conclusions
<1>13. ReadSoFar(a)' = Size(a)
  BY <1>5, <1>7 DEF ReadSoFar
<1>14. PlaceKnown(a)'
  <2>1. mutex' # a
    BY <1>1, WorkspaceAssumption
  <2>2. result # "none" /\ result # "limit"
    BY <1>2 DEF Answers
  <2> QED
    BY <1>5, <1>7, <1>12, <1>13, <2>1, <2>2 DEF PlaceKnown, CommittedSteps, Conclusions
<1>15. PreflightKnown(a)' /\ AttemptKnown(a)'
  <2>1. PreflightKnown(a)'
    BY <1>3, <1>5, <1>7, <1>13
    DEF PreflightKnown, ReadFine, W!Patch!Text, W!Patch!TouchesTwice, W!Patch!Writes, W!Patch!Destination
  <2>2. AttemptKnown(a)'
    BY <1>7, <1>12 DEF AttemptKnown, HoldingSteps
  <2> QED
    BY <2>1, <2>2
<1>16. W!Undisturbed(a)' => FilesKnown(a)'
  <2>1. CASE call[a].step = "critical"
    <3>1. Reported(a)'
      <4>1. CASE journal' = journal
        <5>1. \A j \in DOMAIN journal : ~(j > Len(journal))
          BY <1>9
        <5> QED
          BY <1>6, <1>7, <1>9, <4>1, <5>1 DEF Reported
      <4>2. ASSUME NEW e \in Event, journal' = Append(journal, e), e.attempt = call[a].attempt,
                   e.state = "rollback_failed_critical"
            PROVE  Reported(a)'
        <5>1. /\ DOMAIN journal' = 1..(Len(journal) + 1) /\ journal'[Len(journal) + 1] = e
          BY <1>3, <4>2, JournalGrows
        <5>2. Len(journal) + 1 \in DOMAIN journal' /\ \A j \in DOMAIN journal' : ~(j > Len(journal) + 1)
          BY <1>9, <5>1
        <5> QED
          BY <1>7, <4>2, <5>1, <5>2 DEF Reported
      <4> QED
        BY <1>8, <2>1, <4>1, <4>2
    <3>2. \A b \in PatchCalls \ {a} : call'[b].step \notin HoldingSteps
      BY <1>5, <1>7 DEF TransactionInv, PlaceKnown
    <3>3. StaysReported(a)'
      BY <3>1, <3>2 DEF StaysReported
    <3> QED
      BY <1>2, <1>7, <2>1, <3>3 DEF FilesKnown, LooseEnd
  <2>2. CASE call[a].step # "critical"
    <3>1. Position(a)' = Position(a)
      <4>1. CASE call[a].step = "applied"
        BY <1>2, <1>7, <4>1 DEF Position, Size
      <4>2. CASE call[a].step \in {"reject", "rolledBack"}
        BY <1>2, <1>7, <4>2 DEF Position
      <4> QED
        BY <1>1, <2>2, <4>1, <4>2 DEF Conclusions
    <3> QED
      BY <1>1, <1>3, <1>5, <1>7, <2>2, <3>1, OwnHistory, StandsSame DEF FilesKnown, Conclusions
  <2> QED
    BY <2>1, <2>2
<1>17. /\ file' \in [FilePaths -> Content]
       /\ mutex' = mutex \/ (mutex = a /\ mutex' = Unlocked)
  BY <1>1, <1>3, <1>5 DEF FilesTyped
<1>18. \/ journal' = journal
       \/ /\ call[a].step \in HoldingSteps
          /\ \E e \in Event : journal' = Append(journal, e) /\ e.attempt = call[a].attempt
  BY <1>4, <1>8
<1>19. editor' = editor /\ W!Recorded(a, call[a].step = "check", call[a].step = "proposed")
  BY <1>3, OwnHistory
<1>20. /\ \/ mutex' = mutex
          \/ mutex = a /\ mutex' = Unlocked
          \/ mutex = Unlocked /\ mutex' = a
       /\ call'[a].step \in HoldingSteps =>
              \/ call[a].step \in HoldingSteps /\ call'[a].attempt = call[a].attempt
              \/ \A i \in DOMAIN journal : journal[i].attempt < call'[a].attempt
  BY <1>12, <1>17
<1> QED
  BY <1>7, <1>11, <1>14, <1>15, <1>16, <1>17, <1>18, <1>19, <1>20, OneMoves

(* A call that dies is reported if it had begun to write.                   *)
LEMMA CrashKept ==
    ASSUME TransactionInv, W!Crash
    PROVE  TransactionInv'
<1>1. /\ file' = file /\ journal' = journal /\ mutex' = Unlocked
      /\ editor' = editor /\ disturbed' = disturbed /\ unseen' = unseen
      /\ call' = [a \in PatchCalls |->
             IF call[a].step \in {"idle", "done", "dead"} THEN call[a]
             ELSE [call[a] EXCEPT !.step = "dead"]]
  BY DEF W!Crash, W!Patch!Crash
<1>2. FilesTyped /\ JournalOrdered
  BY DEF TransactionInv
<1>3. ASSUME NEW a \in PatchCalls
      PROVE  /\ call'[a] \in CallRecord
             /\ call'[a].step \in {"idle", "done", "dead"}
             /\ call'[a].step = IF call[a].step \in {"idle", "done", "dead"} THEN call[a].step ELSE "dead"
             /\ call'[a].expected = call[a].expected /\ call'[a].before = call[a].before
             /\ call'[a].conflict = call[a].conflict /\ call'[a].attempt = call[a].attempt
             /\ call'[a].at = call[a].at /\ call'[a].result = call[a].result
  <2>1. call[a] \in CallRecord
    BY <1>2 DEF FilesTyped
  <2>2. CASE call[a].step \in {"idle", "done", "dead"}
    BY <1>1, <2>1, <2>2
  <2>3. CASE call[a].step \notin {"idle", "done", "dead"}
    <3>1. call'[a] = [call[a] EXCEPT !.step = "dead"]
      BY <1>1, <2>3
    <3> QED
      BY <2>1, <2>3, <3>1 DEF CallRecord
  <2> QED
    BY <2>2, <2>3
<1>4. FilesTyped'
  <2>1. call' \in [PatchCalls -> CallRecord]
    BY <1>1, <1>3
  <2> QED
    BY <1>1, <1>2, <2>1 DEF FilesTyped
<1>5. JournalOrdered'
  BY <1>1, <1>2 DEF JournalOrdered
<1>6. \A a \in PatchCalls : call'[a].step \notin HoldingSteps
  BY <1>3 DEF HoldingSteps, CommittedSteps, Conclusions
<1>7. ASSUME NEW a \in PatchCalls
      PROVE  /\ PlaceKnown(a)' /\ PreflightKnown(a)' /\ AttemptKnown(a)'
             /\ W!Undisturbed(a)' => FilesKnown(a)'
  <2>1. /\ PlaceKnown(a) /\ PreflightKnown(a) /\ AttemptKnown(a)
        /\ W!Undisturbed(a) => FilesKnown(a)
    BY DEF TransactionInv
  <2>2. /\ ReadSoFar(a) \in Nat /\ Size(a) \in Nat /\ ReadSoFar(a)' = ReadSoFar(a)
        /\ call[a].step \in HoldingSteps \cup {"idle", "proposed", "done", "dead"}
        /\ call[a].attempt \in Nat
    BY <1>2, <1>3, RecordFacts, PlanFacts DEF ReadSoFar
  <2>3. ReadSoFar(a) <= Size(a)
    <3>1. call[a].step \in {"idle", "proposed"} => ReadSoFar(a) = 0
      BY <2>1 DEF PlaceKnown, ReadSoFar
    <3>2. call[a].step = "read" => ReadSoFar(a) <= Size(a)
      BY <2>1, <2>2 DEF PlaceKnown
    <3>3. call[a].step \in {"done", "dead"} \cup {"decide"} \cup CommittedSteps => ReadSoFar(a) <= Size(a)
      BY <2>1, <2>2 DEF PlaceKnown
    <3> QED
      BY <2>2, <3>1, <3>2, <3>3 DEF HoldingSteps
  <2>4. PlaceKnown(a)'
    <3>1. mutex' # a
      BY <1>1, WorkspaceAssumption
    <3>2. call'[a].step # "idle" => Len(call'[a].expected) = Size(a)
      BY <1>3, <2>1 DEF PlaceKnown
    <3>3. /\ call'[a].step = "idle" => call[a].step = "idle"
          /\ call'[a].step = "done" => call[a].step = "done"
      BY <1>3
    <3> QED
      BY <1>3, <1>6, <2>1, <2>2, <2>3, <3>1, <3>2, <3>3
      DEF PlaceKnown, HoldingSteps, CommittedSteps, Conclusions
  <2>5. PreflightKnown(a)'
    <3>1. W!Patch!TouchesTwice(a)' <=> W!Patch!TouchesTwice(a)
      BY DEF W!Patch!TouchesTwice, W!Patch!Writes, W!Patch!Destination
    <3>2. ASSUME NEW i \in 1..ReadSoFar(a), ReadFine(a, i)
          PROVE  ReadFine(a, i)'
      BY <1>3, <3>2 DEF ReadFine, W!Patch!Text
    <3> QED
      BY <1>3, <2>1, <2>2, <3>1, <3>2 DEF PreflightKnown
  <2>6. AttemptKnown(a)'
    BY <1>6 DEF AttemptKnown, HoldingSteps
  <2>7. ASSUME W!Undisturbed(a)'
        PROVE  FilesKnown(a)'
    <3>1. FilesKnown(a)
      <4>1. W!Patch!Touched(a)' = W!Patch!Touched(a)
        BY DEF W!Patch!Touched, W!Patch!Writes, W!Patch!Destination
      <4> QED
        BY <1>1, <2>1, <2>7, <4>1 DEF W!Undisturbed
    <3>2. StaysReported(a)' <=> Reported(a)'
      BY <1>6 DEF StaysReported
    <3>3. CASE call[a].step \in CommittedSteps
      <4>1. /\ journal # <<>>
            /\ journal[Len(journal)] = [attempt |-> call[a].attempt, state |-> "planned"]
        BY <2>1, <3>3 DEF AttemptKnown
      <4>2. DOMAIN journal = 1..Len(journal) /\ Len(journal) \in 1..Len(journal)
        BY <1>2, <4>1, JournalFacts
      <4>3. \A j \in DOMAIN journal : ~(j > Len(journal))
        BY <1>2, <4>2, JournalFacts
      <4>4. Reported(a)'
        BY <1>1, <1>3, <4>1, <4>2, <4>3 DEF Reported
      <4>5. call'[a].step = "dead"
        BY <1>3, <3>3 DEF CommittedSteps, Conclusions
      <4> QED
        BY <3>2, <4>4, <4>5 DEF FilesKnown, LooseEnd
    <3>4. CASE call[a].step \notin CommittedSteps
      <4>1. Reported(a) => Reported(a)'
        BY <1>1, <1>3 DEF Reported
      <4>2. CASE Stands(a)
        <5>1. Position(a)' = Position(a)
          <6>1. CASE call[a].step \in {"idle", "done", "dead"}
            BY <1>3, <6>1 DEF Position, CommittedSteps, Conclusions
          <6>2. CASE call[a].step \notin {"idle", "done", "dead"}
            <7>1. call[a].step \notin {"check", "write", "verify", "rollback", "applied"}
              BY <3>4 DEF CommittedSteps, Conclusions
            <7>2. call'[a].step = "dead"
              BY <1>3, <6>2
            <7> QED
              BY <6>2, <7>1, <7>2 DEF Position
          <6> QED
            BY <6>1, <6>2
        <5> QED
          BY <1>1, <1>2, <1>3, <2>3, <4>2, <5>1, StandsSame DEF FilesKnown
      <4>3. CASE LooseEnd(a) /\ StaysReported(a)
        BY <1>3, <3>2, <4>1, <4>3 DEF FilesKnown, LooseEnd, StaysReported
      <4>4. CASE call[a].step = "critical"
        BY <3>4, <4>4 DEF CommittedSteps, Conclusions
      <4> QED
        BY <3>1, <4>2, <4>3, <4>4 DEF FilesKnown
    <3> QED
      BY <3>3, <3>4
  <2> QED
    BY <2>4, <2>5, <2>6, <2>7
<1> QED
  BY <1>4, <1>5, <1>7 DEF TransactionInv

(* An editor moves.                                                         *)
LEMMA EditorFacts ==
    ASSUME FilesTyped, NEW e \in Editors, W!Service!Edit(e)
    PROVE  file' \in [FilePaths -> Content] /\ editor' \in [Editors -> Session]
<1>1. /\ editor \in [Editors -> Session] /\ editor[e] \in Session
      /\ file \in [FilePaths -> Content]
      /\ \A p \in FilePaths : file[p] \in Content /\ (file[p] # Missing => file[p] \in WriterSets)
  BY DEF FilesTyped, Content
<1>2. CASE \E p \in FilePaths : W!Service!OpenText(e, p)
  <2>1. PICK p \in FilePaths : W!Service!OpenText(e, p)
    BY <1>2
  <2>2. PICK now \in Session : now = [step |-> "open", path |-> p, baseline |-> file[p]]
    BY <1>1, <2>1 DEF Session, W!Service!OpenText
  <2>3. editor' = [editor EXCEPT ![e] = now] /\ file' = file
    BY <2>1, <2>2 DEF W!Service!OpenText
  <2> QED
    BY <1>1, <2>3
<1>3. ASSUME NEW s, s \in {"replace", "refused", "saved", "failed"}, W!Service!Turn(e, s)
      PROVE  editor' \in [Editors -> Session]
  <2>1. PICK now \in Session : now = [editor[e] EXCEPT !.step = s]
    BY <1>1, <1>3 DEF Session
  <2>2. editor' = [editor EXCEPT ![e] = now]
    BY <1>3, <2>1 DEF W!Service!Turn
  <2> QED
    BY <1>1, <2>2
<1>4. CASE W!Service!SaveCheck(e)
  <2>1. file' = file /\ \E s \in {"replace", "refused"} : W!Service!Turn(e, s)
    BY <1>4 DEF W!Service!SaveCheck
  <2> QED
    BY <1>1, <1>3, <2>1
<1>5. CASE W!Service!SaveReplace(e)
  <2>1. /\ \E s \in {"saved", "failed"} : W!Service!Turn(e, s)
        /\ \/ file' = file
           \/ file' = [file EXCEPT ![editor[e].path] = editor[e].baseline \cup {e}]
    BY <1>5 DEF W!Service!SaveReplace
  <2>2. editor[e].baseline \in WriterSets
    BY <1>1 DEF Session
  <2>3. editor[e].baseline \cup {e} \in Content
    BY <2>2 DEF WriterSets, Content
  <2> QED
    BY <1>1, <1>3, <2>1, <2>3
<1> QED
  BY <1>2, <1>4, <1>5 DEF W!Service!Edit

LEMMA EditorKept ==
    ASSUME TransactionInv, NEW e \in Editors, W!EditorStep(e)
    PROVE  TransactionInv'
<1>1. /\ W!Service!Edit(e) /\ W!Recorded(e, editor[e].step = "open", FALSE)
      /\ journal' = journal /\ mutex' = mutex /\ call' = call
  BY DEF W!EditorStep, W!patchVars
<1>2. FilesTyped /\ JournalOrdered
  BY DEF TransactionInv
<1>3. FilesTyped'
  <2>1. file' \in [FilePaths -> Content] /\ editor' \in [Editors -> Session]
    BY <1>1, <1>2, EditorFacts
  <2>2. /\ disturbed' \in [PatchCalls -> SUBSET FilePaths]
        /\ unseen' \in [PatchCalls \cup Editors -> SUBSET FilePaths]
    BY <1>1, <1>2, HistoryKept
  <2> QED
    BY <1>1, <1>2, <2>1, <2>2 DEF FilesTyped
<1>4. JournalOrdered'
  BY <1>1, <1>2 DEF JournalOrdered
<1>5. ASSUME NEW b \in PatchCalls
      PROVE  /\ PlaceKnown(b)' /\ PreflightKnown(b)' /\ AttemptKnown(b)'
             /\ W!Undisturbed(b)' => FilesKnown(b)'
  <2>1. /\ call'[b] = call[b] /\ DOMAIN call' = PatchCalls /\ b # e
        /\ call[b].step \in HoldingSteps <=> mutex' = b
        /\ W!Undisturbed(b) => FilesKnown(b)
    BY <1>1, <1>2, WorkspaceAssumption DEF TransactionInv, PlaceKnown, FilesTyped
  <2>2. \A c \in PatchCalls \ {b} : call'[c].step \in HoldingSteps /\ StaysReported(b) =>
            call[b].attempt < call'[c].attempt
    BY <1>1 DEF StaysReported
  <2>3. /\ PlaceKnown(b)' /\ PreflightKnown(b)' /\ AttemptKnown(b)'
        /\ FilesKnown(b) /\ (\A p \in TouchedFiles(b) : file'[p] = file[p]) => FilesKnown(b)'
    BY <1>1, <2>1, <2>2, BystanderKept
  <2>4. W!Undisturbed(b)' => /\ W!Undisturbed(b)
                            /\ \A p \in TouchedFiles(b) : file'[p] = file[p]
    BY <1>1, <1>2, <2>1, UndisturbedBefore DEF TouchedFiles
  <2> QED
    BY <2>1, <2>3, <2>4
<1> QED
  BY <1>3, <1>4, <1>5 DEF TransactionInv

LEMMA TransactionBegins ==
    ASSUME W!Init
    PROVE  TransactionInv
<1>1. /\ file \in [FilePaths -> {Missing, {}}] /\ journal = <<>> /\ mutex = Unlocked
      /\ call = [a \in PatchCalls |-> W!Patch!NewCall]
      /\ editor = [e \in Editors |-> W!Service!NewSession]
      /\ disturbed = [a \in PatchCalls |-> {}]
      /\ unseen = [w \in PatchCalls \cup Editors |-> {}]
  BY DEF W!Init, W!Patch!Init, W!Service!Init, W!Writers
<1>2. \A a \in PatchCalls :
          /\ call[a] \in CallRecord
          /\ call[a].step = "idle" /\ call[a].before = <<>> /\ call[a].at = 1
          /\ call[a].conflict = "none"
  BY <1>1 DEF W!Patch!NewCall, CallRecord
<1>3. FilesTyped
  <2>1. {} \in Content /\ Missing \in Content /\ {} \in WriterSets
    BY DEF Content, WriterSets
  <2>2. W!Service!NewSession \in Session
    BY <2>1 DEF W!Service!NewSession, Session
  <2>3. file \in [FilePaths -> Content] /\ journal \in Seq(Event)
    <3>1. {Missing, {}} \subseteq Content
      BY <2>1
    <3>2. file \in [FilePaths -> Content]
      BY <1>1, <3>1
    <3>3. journal \in Seq(Event)
      BY <1>1
    <3> QED
      BY <3>2, <3>3
  <2>4. call \in [PatchCalls -> CallRecord]
    BY <1>1, <1>2
  <2>5. editor \in [Editors -> Session]
    BY <1>1, <2>2
  <2> QED
    BY <1>1, <2>3, <2>4, <2>5 DEF FilesTyped
<1>4. JournalOrdered
  BY <1>1 DEF JournalOrdered
<1>5. ASSUME NEW a \in PatchCalls
      PROVE  PlaceKnown(a) /\ PreflightKnown(a) /\ AttemptKnown(a) /\ FilesKnown(a)
  <2>1. call[a].step \notin HoldingSteps /\ call[a].step \notin CommittedSteps
        /\ mutex # a
    BY <1>1, <1>2, WorkspaceAssumption DEF HoldingSteps, CommittedSteps, Conclusions
  <2>2. FilesKnown(a)
    BY <1>2 DEF FilesKnown, Stands, ReadSoFar
  <2>3. PlaceKnown(a)
    BY <1>2, <2>1 DEF PlaceKnown
  <2>4. PreflightKnown(a) /\ AttemptKnown(a)
    BY <1>2, <2>1 DEF PreflightKnown, AttemptKnown, HoldingSteps
  <2> QED
    BY <2>2, <2>3, <2>4
<1> QED
  BY <1>3, <1>4, <1>5 DEF TransactionInv

LEMMA TransactionInductive == TransactionInv /\ [W!Next]_wVars => TransactionInv'
<1> SUFFICES ASSUME TransactionInv, [W!Next]_wVars PROVE TransactionInv'
  OBVIOUS
<1>1. ASSUME NEW a \in PatchCalls, W!CallStep(a) PROVE TransactionInv'
  <2>1. CASE W!Patch!Propose(a)
    BY <1>1, <2>1, ProposeKept
  <2>2. CASE W!Patch!BeginApply(a)
    BY <1>1, <2>2, BeginApplyKept
  <2>3. CASE W!Patch!ReadTarget(a)
    BY <1>1, <2>3, ReadTargetKept
  <2>4. CASE W!Patch!Decide(a)
    BY <1>1, <2>4, DecideKept
  <2>5. CASE W!Patch!CheckTarget(a)
    BY <1>1, <2>5, CheckTargetKept
  <2>6. CASE W!Patch!WriteTarget(a)
    BY <1>1, <2>6, WriteTargetKept
  <2>7. CASE W!Patch!VerifyTarget(a)
    BY <1>1, <2>7, VerifyTargetKept
  <2>8. CASE W!Patch!RollBack(a)
    BY <1>1, <2>8, RollBackKept
  <2>9. CASE W!Patch!Conclude(a)
    BY <1>1, <2>9, ConcludeKept
  <2> QED
    BY <1>1, <2>1, <2>2, <2>3, <2>4, <2>5, <2>6, <2>7, <2>8, <2>9, Zenon DEF W!CallStep, W!Patch!Apply
<1>2. ASSUME NEW e \in Editors, W!EditorStep(e) PROVE TransactionInv'
  BY <1>2, EditorKept
<1>3. CASE W!Crash
  BY <1>3, CrashKept
<1>4. CASE UNCHANGED wVars
  <2>1. /\ file' = file /\ journal' = journal /\ mutex' = mutex /\ call' = call
        /\ editor' = editor /\ disturbed' = disturbed /\ unseen' = unseen
    BY <1>4 DEF wVars
  <2>2. FilesTyped' /\ JournalOrdered'
    BY <2>1 DEF TransactionInv, FilesTyped, JournalOrdered
  <2>3. ASSUME NEW a \in PatchCalls
        PROVE  /\ PlaceKnown(a)' /\ PreflightKnown(a)' /\ AttemptKnown(a)'
               /\ W!Undisturbed(a)' => FilesKnown(a)'
    <3>1. /\ PlaceKnown(a) /\ PreflightKnown(a) /\ AttemptKnown(a)
          /\ W!Undisturbed(a) => FilesKnown(a)
      BY DEF TransactionInv
    <3>2. PlaceKnown(a)' <=> PlaceKnown(a)
      BY <2>1 DEF PlaceKnown, ReadSoFar
    <3>3. PreflightKnown(a)' <=> PreflightKnown(a)
      BY <2>1 DEF PreflightKnown, ReadSoFar, ReadFine, W!Patch!Text, W!Patch!TouchesTwice,
                  W!Patch!Writes, W!Patch!Destination
    <3>4. AttemptKnown(a)' <=> AttemptKnown(a)
      BY <2>1 DEF AttemptKnown
    <3>5. W!Undisturbed(a)' <=> W!Undisturbed(a)
      BY <2>1 DEF W!Undisturbed, W!Patch!Touched, W!Patch!Writes, W!Patch!Destination
    <3>6. Stands(a)' <=> Stands(a)
      BY <2>1 DEF Stands, ReadSoFar, Position, W!InPlace, W!Untouched, W!Patch!After, W!Patch!Text
    <3>7. StaysReported(a)' <=> StaysReported(a)
      BY <2>1 DEF StaysReported, Reported
    <3>8. FilesKnown(a)' <=> FilesKnown(a)
      BY <2>1, <3>6, <3>7 DEF FilesKnown, LooseEnd
    <3> QED
      BY <3>1, <3>2, <3>3, <3>4, <3>5, <3>8
  <2> QED
    BY <2>2, <2>3 DEF TransactionInv
<1> QED
  BY <1>1, <1>2, <1>3, <1>4, Zenon DEF W!Next

------------------------------------------------------------------------------
(* Who writes what it has compared *)

LEMMA StepNames ==
    ASSUME FilesTyped, NEW a \in PatchCalls, NEW fields, W!Patch!Step(a, fields)
    PROVE  /\ \A b \in PatchCalls \ {a} : call'[b] = call[b]
           /\ \A k \in CallFields :
                  call'[a][k] = IF k \in DOMAIN fields THEN fields[k] ELSE call[a][k]
<1>1. call \in [PatchCalls -> CallRecord] /\ call[a] \in CallRecord
  BY DEF FilesTyped
<1>2. DOMAIN call[a] = CallFields
  BY <1>1 DEF CallRecord, CallFields
<1>3. call' = [call EXCEPT ![a] = [k \in DOMAIN call[a] |-> IF k \in DOMAIN fields THEN fields[k] ELSE call[a][k]]]
  BY DEF W!Patch!Step
<1> QED
  BY <1>1, <1>2, <1>3

(* Where a step of a call leads.                                            *)
LEMMA WhereItLeads ==
    ASSUME FilesTyped, NEW a \in PatchCalls, W!CallStep(a)
    PROVE  /\ \A b \in PatchCalls \ {a} : call'[b] = call[b]
           /\ call'[a].step = "write" =>
                  /\ call[a].step = "check" /\ W!Patch!StillAsExpected(a) /\ file' = file
                  /\ \A k \in CallFields \ {"step"} : call'[a][k] = call[a][k]
           /\ call'[a].step = "done" =>
                  /\ call'[a].before = call[a].before
                  /\ W!Patch!BeginApply(a) \/ W!Patch!Decide(a) \/ W!Patch!Conclude(a)
           /\ call[a].step = "write" =>
                  \/ file' = file
                  \/ W!Patch!WriteTarget(a) /\ file' = W!Patch!Written(a)
<1>0. {"step", "before"} \subseteq CallFields
  BY DEF CallFields
<1>1. CASE W!Patch!Propose(a)
  <2> DEFINE texts == [i \in W!Patch!Writes(a) |-> W!Patch!Text(file[Plan[a][i].path])]
  <2>1. W!Patch!Step(a, [step |-> "proposed", expected |-> texts]) /\ call[a].step = "idle"
    BY <1>1 DEF W!Patch!Propose, W!Patch!At
  <2> HIDE DEF texts
  <2> QED
    BY <1>0, <2>1, StepNames
<1>2. CASE W!Patch!BeginApply(a)
  <2> DEFINE next == W!Patch!NextAttempt
  <2>1. \/ W!Patch!Step(a, [step |-> "done", result |-> "limit"])
        \/ W!Patch!Step(a, [step |-> "read", attempt |-> next])
    BY <1>2 DEF W!Patch!BeginApply, W!Patch!Return
  <2>2. call[a].step = "proposed"
    BY <1>2 DEF W!Patch!BeginApply, W!Patch!At
  <2> HIDE DEF next
  <2>3. CASE W!Patch!Step(a, [step |-> "done", result |-> "limit"])
    BY <1>0, <1>2, <2>2, <2>3, StepNames
  <2>4. CASE W!Patch!Step(a, [step |-> "read", attempt |-> next])
    BY <1>0, <1>2, <2>2, <2>4, StepNames
  <2> QED
    BY <2>1, <2>3, <2>4
<1>3. CASE W!Patch!ReadTarget(a)
  <2>1. call[a].step = "read"
        /\ \E s \in {"decide", "read"} : \E n, before, conflict :
              W!Patch!Step(a, [step |-> s, at |-> n, before |-> before, conflict |-> conflict])
    BY <1>3, Zenon DEF W!Patch!ReadTarget, W!Patch!At
  <2>2. PICK s \in {"decide", "read"} : \E n, before, conflict :
              W!Patch!Step(a, [step |-> s, at |-> n, before |-> before, conflict |-> conflict])
    BY <2>1
  <2>3. PICK n, before, conflict :
              W!Patch!Step(a, [step |-> s, at |-> n, before |-> before, conflict |-> conflict])
    BY <2>2
  <2> QED
    BY <1>0, <2>1, <2>2, <2>3, StepNames
<1>4. CASE W!Patch!Decide(a)
  <2>1. \/ W!Patch!Step(a, [step |-> "done", result |-> "rejected"])
        \/ W!Patch!Step(a, [step |-> "check"])
        \/ W!Patch!Step(a, [step |-> "done", result |-> "error"])
    BY <1>4 DEF W!Patch!Decide, W!Patch!Go, W!Patch!Return
  <2>2. call[a].step = "decide"
    BY <1>4 DEF W!Patch!Decide, W!Patch!At
  <2>3. CASE W!Patch!Step(a, [step |-> "done", result |-> "rejected"])
    BY <1>0, <1>4, <2>2, <2>3, StepNames
  <2>4. CASE W!Patch!Step(a, [step |-> "check"])
    BY <1>0, <2>2, <2>4, StepNames
  <2>5. CASE W!Patch!Step(a, [step |-> "done", result |-> "error"])
    BY <1>0, <1>4, <2>2, <2>5, StepNames
  <2> QED
    BY <2>1, <2>3, <2>4, <2>5
<1>5. CASE W!Patch!CheckTarget(a)
  <2>1. /\ call[a].step = "check" /\ file' = file
        /\ \/ W!Patch!Step(a, [step |-> "write"]) /\ W!Patch!StillAsExpected(a)
           \/ W!Patch!Step(a, [step |-> "reject"])
           \/ W!Patch!Step(a, [step |-> "rollback", at |-> call[a].at - 1])
    BY <1>5 DEF W!Patch!CheckTarget, W!Patch!At, W!Patch!Go
  <2>2. CASE W!Patch!Step(a, [step |-> "write"]) /\ W!Patch!StillAsExpected(a)
    BY <1>0, <2>1, <2>2, StepNames
  <2>3. CASE W!Patch!Step(a, [step |-> "reject"])
    BY <1>0, <2>1, <2>3, StepNames
  <2>4. CASE W!Patch!Step(a, [step |-> "rollback", at |-> call[a].at - 1])
    <3>1. PICK m : m = call[a].at - 1
      OBVIOUS
    <3> QED
      BY <1>0, <2>1, <2>4, <3>1, StepNames
  <2> QED
    BY <2>1, <2>2, <2>3, <2>4
<1>6. CASE W!Patch!WriteTarget(a)
  <2>1. /\ call[a].step = "write"
        /\ \/ file' = W!Patch!Written(a) /\ W!Patch!Step(a, [step |-> "verify"])
           \/ file' = file /\ W!Patch!Step(a, [step |-> "rollback", at |-> call[a].at - 1])
    BY <1>6 DEF W!Patch!WriteTarget, W!Patch!At, W!Patch!Go
  <2>2. CASE file' = W!Patch!Written(a) /\ W!Patch!Step(a, [step |-> "verify"])
    BY <1>0, <1>6, <2>1, <2>2, StepNames
  <2>3. CASE file' = file /\ W!Patch!Step(a, [step |-> "rollback", at |-> call[a].at - 1])
    <3>1. PICK m : m = call[a].at - 1
      OBVIOUS
    <3> QED
      BY <1>0, <2>1, <2>3, <3>1, StepNames
  <2> QED
    BY <2>1, <2>2, <2>3
<1>7. CASE W!Patch!VerifyTarget(a)
  <2>1. /\ call[a].step = "verify"
        /\ \/ W!Patch!Step(a, [step |-> "applied"])
           \/ W!Patch!Step(a, [step |-> "check", at |-> call[a].at + 1])
           \/ W!Patch!Step(a, [step |-> "rollback"])
    BY <1>7 DEF W!Patch!VerifyTarget, W!Patch!At, W!Patch!Go
  <2>2. CASE W!Patch!Step(a, [step |-> "applied"])
    BY <1>0, <2>1, <2>2, StepNames
  <2>3. CASE W!Patch!Step(a, [step |-> "check", at |-> call[a].at + 1])
    <3>1. PICK m : m = call[a].at + 1
      OBVIOUS
    <3> QED
      BY <1>0, <2>1, <2>3, <3>1, StepNames
  <2>4. CASE W!Patch!Step(a, [step |-> "rollback"])
    BY <1>0, <2>1, <2>4, StepNames
  <2> QED
    BY <2>1, <2>2, <2>3, <2>4
<1>8. CASE W!Patch!RollBack(a)
  <2>1. /\ call[a].step = "rollback"
        /\ \/ W!Patch!Step(a, [step |-> "rolledBack"])
           \/ W!Patch!Step(a, [at |-> call[a].at - 1])
           \/ W!Patch!Step(a, [step |-> "critical"])
    BY <1>8 DEF W!Patch!RollBack, W!Patch!At, W!Patch!Go
  <2>2. CASE W!Patch!Step(a, [step |-> "rolledBack"])
    BY <1>0, <2>1, <2>2, StepNames
  <2>3. CASE W!Patch!Step(a, [at |-> call[a].at - 1])
    <3>1. PICK m : m = call[a].at - 1
      OBVIOUS
    <3> QED
      BY <1>0, <2>1, <2>3, <3>1, StepNames
  <2>4. CASE W!Patch!Step(a, [step |-> "critical"])
    BY <1>0, <2>1, <2>4, StepNames
  <2> QED
    BY <2>1, <2>2, <2>3, <2>4
<1>9. CASE W!Patch!Conclude(a)
  <2>1. \E result : W!Patch!Step(a, [step |-> "done", result |-> result])
    BY <1>9, Zenon DEF W!Patch!Conclude, W!Patch!Return
  <2>2. PICK result : W!Patch!Step(a, [step |-> "done", result |-> result])
    BY <2>1
  <2>3. call[a].step \in DOMAIN W!Patch!Conclusion
    BY <1>9 DEF W!Patch!Conclude
  <2>4. call[a].step # "write"
    BY <2>3 DEF W!Patch!Conclusion
  <2> QED
    BY <1>0, <1>9, <2>2, <2>4, StepNames
<1> QED
  BY <1>1, <1>2, <1>3, <1>4, <1>5, <1>6, <1>7, <1>8, <1>9, Zenon DEF W!CallStep, W!Patch!Apply

(* What one has compared and not seen written since is as it was.           *)
LEMMA ComparedKept ==
    ASSUME FilesTyped, NEW w, NEW compared, NEW begins, W!Recorded(w, compared, begins),
           NEW v \in PatchCalls \cup Editors, v # w, NEW p \in FilePaths, Compared(v, p),
           W!KnownText(v, p)' = W!KnownText(v, p)
    PROVE  Compared(v, p)'
<1>1. unseen'[v] = unseen[v] \cup W!Written
  BY DEF W!Recorded, W!Writers
<1>2. CASE file'[p] = file[p]
  BY <1>1, <1>2 DEF Compared, W!Patch!Text
<1>3. CASE file'[p] # file[p]
  BY <1>1, <1>3 DEF Compared, W!Written
<1> QED
  BY <1>2, <1>3

LEMMA NextTargetsFacts ==
    ASSUME TransactionInv, NEW a \in PatchCalls, call[a].step \in {"check", "write"}
    PROVE  /\ call[a].at \in 1..Size(a) /\ NextTargets(a) \subseteq FilePaths
           /\ ReadFine(a, call[a].at) /\ call[a].before[call[a].at] \in Content
           /\ W!Patch!Write(a) = Plan[a][call[a].at] /\ a \notin Editors
<1>1. call[a].step \in CommittedSteps
  BY DEF CommittedSteps
<1>2. /\ FilesTyped /\ PreflightKnown(a) /\ ReadSoFar(a) = Size(a) /\ call[a].conflict = "none"
  BY <1>1, CommittedFacts
<1>3. call[a].at \in 1..Size(a) /\ Size(a) \in Nat /\ Size(a) # 0
  BY PlanFacts DEF TransactionInv, PlaceKnown
<1>4. call[a].before # <<>>
  <2>1. Len(<<>>) = 0
    OBVIOUS
  <2> QED
    BY <1>2, <1>3, <2>1 DEF ReadSoFar
<1>5. ReadFine(a, call[a].at) /\ call[a].before[call[a].at] \in Content
  BY <1>2, <1>3, <1>4, RecordFacts DEF PreflightKnown
<1>6. NextTargets(a) \subseteq FilePaths
  BY <1>3, PlanFacts DEF NextTargets, W!Patch!Write, W!Patch!Destination
<1> QED
  BY <1>3, <1>5, <1>6, WorkspaceAssumption DEF W!Patch!Write

(* revalidate_before_apply compares both files a write replaces.            *)
LEMMA CheckCompares ==
    ASSUME TransactionInv, NEW a \in PatchCalls, call[a].step = "check", W!Patch!StillAsExpected(a),
           NEW p \in NextTargets(a)
    PROVE  W!Patch!Text(file[p]) = W!KnownText(a, p)
<1> DEFINE n == call[a].at
           w == Plan[a][n]
<1>1. /\ n \in 1..Size(a) /\ NextTargets(a) \subseteq FilePaths /\ ReadFine(a, n)
      /\ call[a].before[n] \in Content /\ W!Patch!Write(a) = w /\ a \notin Editors
  BY NextTargetsFacts
<1>2. /\ w.op = "create" => call[a].before[n] = Missing
      /\ call[a].expected[n] = W!Patch!Text(call[a].before[n])
  BY <1>1 DEF ReadFine
<1>3. /\ w.op = "create" => file[w.path] = Missing
      /\ w.op # "create" => file[w.path] # Missing /\ file[w.path] = call[a].expected[n]
      /\ w.op = "rename" => file[w.to] = Missing
  BY <1>1 DEF W!Patch!StillAsExpected
<1>4. CASE p = w.path
  <2>1. W!KnownText(a, p) = call[a].expected[n]
    BY <1>1, <1>4 DEF W!KnownText
  <2> QED
    BY <1>2, <1>3, <1>4, <2>1 DEF W!Patch!Text
<1>5. CASE p # w.path
  <2>1. w.op = "rename" /\ p = w.to
    BY <1>1, <1>5 DEF NextTargets, W!Patch!Destination
  <2> QED
    BY <1>1, <1>3, <1>5, <2>1 DEF W!KnownText, W!Patch!Text
<1> QED
  BY <1>4, <1>5

LEMMA OverwriteCallStep ==
    ASSUME TransactionInv, OverwriteInv, NEW a \in PatchCalls, W!CallStep(a)
    PROVE  OverwriteInv'
<1>1. FilesTyped /\ editor' = editor /\ W!Recorded(a, call[a].step = "check", call[a].step = "proposed")
  BY OwnHistory DEF TransactionInv
<1>2. /\ \A b \in PatchCalls \ {a} : call'[b] = call[b]
      /\ call'[a].step = "write" =>
             /\ call[a].step = "check" /\ W!Patch!StillAsExpected(a) /\ file' = file
             /\ \A k \in CallFields \ {"step"} : call'[a][k] = call[a][k]
  BY <1>1, WhereItLeads
<1>3. ASSUME NEW e \in Editors
      PROVE  EditorCompared(e)'
  <2>1. EditorCompared(e) /\ editor'[e] = editor[e] /\ e # a
    BY <1>1, WorkspaceAssumption DEF OverwriteInv
  <2>2. ASSUME NEW p \in FilePaths, editor[e].step = "replace", e \notin Overriding, p = editor[e].path
        PROVE  Compared(e, p)'
    <3>1. Compared(e, p) /\ W!KnownText(e, p)' = W!KnownText(e, p)
      BY <2>1, <2>2 DEF EditorCompared, W!KnownText
    <3> QED
      BY <1>1, <2>1, <3>1, ComparedKept
  <2> QED
    BY <2>1, <2>2 DEF EditorCompared
<1>4. ASSUME NEW b \in PatchCalls \ {a}, call'[b].step = "write", NEW p \in NextTargets(b)'
      PROVE  Compared(b, p)'
  <2>1. call[b].step = "write" /\ NextTargets(b)' = NextTargets(b)
    BY <1>2, <1>4 DEF NextTargets, W!Patch!Write, W!Patch!Destination
  <2>2. p \in FilePaths /\ p \in NextTargets(b) /\ Compared(b, p)
    BY <1>4, <2>1, NextTargetsFacts DEF OverwriteInv, CallCompared
  <2>3. W!KnownText(b, p)' = W!KnownText(b, p)
    BY <1>2, <2>1, <2>2, NextTargetsFacts DEF W!KnownText, W!Patch!Write
  <2> QED
    BY <1>1, <2>2, <2>3, ComparedKept
<1>5. ASSUME call'[a].step = "write", NEW p \in NextTargets(a)'
      PROVE  Compared(a, p)'
  <2>1. /\ call[a].step = "check" /\ W!Patch!StillAsExpected(a) /\ file' = file
        /\ call'[a].at = call[a].at /\ call'[a].expected = call[a].expected
    BY <1>2, <1>5 DEF CallFields
  <2>2. NextTargets(a)' = NextTargets(a)
    BY <2>1 DEF NextTargets, W!Patch!Write, W!Patch!Destination
  <2>3. W!Patch!Text(file[p]) = W!KnownText(a, p)
    BY <1>5, <2>1, <2>2, CheckCompares
  <2>4. W!KnownText(a, p)' = W!KnownText(a, p)
    BY <2>1, NextTargetsFacts DEF W!KnownText, W!Patch!Write
  <2> QED
    BY <2>1, <2>3, <2>4 DEF Compared, W!Patch!Text
<1> QED
  BY <1>3, <1>4, <1>5 DEF OverwriteInv, CallCompared

LEMMA OverwriteEditorStep ==
    ASSUME TransactionInv, OverwriteInv, NEW e \in Editors, W!EditorStep(e)
    PROVE  OverwriteInv'
<1>1. /\ FilesTyped /\ call' = call /\ W!Service!Edit(e)
      /\ W!Recorded(e, editor[e].step = "open", FALSE)
      /\ editor \in [Editors -> Session] /\ EditorCompared(e)
  BY DEF W!EditorStep, W!patchVars, TransactionInv, FilesTyped, OverwriteInv
<1>2. \A d \in Editors \ {e} : editor'[d] = editor[d]
  BY <1>1 DEF W!Service!Edit, W!Service!OpenText, W!Service!SaveCheck, W!Service!SaveReplace, W!Service!Turn
<1>3. ASSUME NEW d \in Editors \ {e}
      PROVE  EditorCompared(d)'
  <2>1. EditorCompared(d) /\ editor'[d] = editor[d]
    BY <1>2 DEF OverwriteInv
  <2>2. ASSUME NEW p \in FilePaths, editor[d].step = "replace", d \notin Overriding, p = editor[d].path
        PROVE  Compared(d, p)'
    <3>1. Compared(d, p) /\ W!KnownText(d, p)' = W!KnownText(d, p)
      BY <2>1, <2>2 DEF EditorCompared, W!KnownText
    <3> QED
      BY <1>1, <3>1, ComparedKept
  <2> QED
    BY <2>1, <2>2 DEF EditorCompared
<1>4. ASSUME NEW b \in PatchCalls
      PROVE  CallCompared(b)'
  <2>1. SUFFICES ASSUME call[b].step = "write", NEW p \in NextTargets(b)
                 PROVE  Compared(b, p)'
    <3>1. NextTargets(b)' = NextTargets(b)
      BY <1>1 DEF NextTargets, W!Patch!Write, W!Patch!Destination
    <3> QED
      BY <1>1, <3>1 DEF CallCompared
  <2>2. p \in FilePaths /\ Compared(b, p) /\ b # e /\ b \notin Editors
    BY <2>1, NextTargetsFacts DEF OverwriteInv, CallCompared
  <2>3. W!KnownText(b, p)' = W!KnownText(b, p)
    BY <1>1, <2>2 DEF W!KnownText, W!Patch!Write
  <2> QED
    BY <1>1, <2>2, <2>3, ComparedKept
<1>5. EditorCompared(e)'
  <2>1. CASE \E p \in FilePaths : W!Service!OpenText(e, p)
    <3>1. PICK p \in FilePaths : W!Service!OpenText(e, p)
      BY <2>1
    <3>2. editor'[e].step = "open" /\ editor'[e].path = p
      BY <1>1, <3>1 DEF W!Service!OpenText
    <3> QED
      BY <3>2 DEF EditorCompared
  <2>2. CASE W!Service!SaveCheck(e)
    <3>1. /\ editor[e].step = "open" /\ editor[e].path \in FilePaths /\ file' = file
          /\ editor'[e].path = editor[e].path /\ editor'[e].baseline = editor[e].baseline
          /\ editor'[e].step = "replace" /\ e \notin Overriding =>
                 file[editor[e].path] = editor[e].baseline
      BY <1>1, <2>2 DEF W!Service!SaveCheck, W!Service!In, W!Service!Turn, EditorCompared, Session
    <3>2. editor[e].baseline \in WriterSets
      BY <1>1 DEF Session
    <3>3. editor[e].baseline # Missing
      BY <3>2, TextFacts
    <3> QED
      BY <3>1, <3>3 DEF EditorCompared, Compared, W!KnownText, W!Patch!Text
  <2>3. CASE W!Service!SaveReplace(e)
    <3>1. editor'[e].step \in {"saved", "failed"}
      BY <1>1, <2>3 DEF W!Service!SaveReplace, W!Service!Turn, Session
    <3> QED
      BY <3>1 DEF EditorCompared
  <2> QED
    BY <1>1, <2>1, <2>2, <2>3 DEF W!Service!Edit
<1> QED
  BY <1>3, <1>4, <1>5 DEF OverwriteInv

LEMMA OverwriteInductive == TransactionInv /\ OverwriteInv /\ [W!Next]_wVars => OverwriteInv'
<1> SUFFICES ASSUME TransactionInv, OverwriteInv, [W!Next]_wVars PROVE OverwriteInv'
  OBVIOUS
<1>1. ASSUME NEW a \in PatchCalls, W!CallStep(a) PROVE OverwriteInv'
  BY <1>1, OverwriteCallStep
<1>2. ASSUME NEW e \in Editors, W!EditorStep(e) PROVE OverwriteInv'
  BY <1>2, OverwriteEditorStep
<1>3. ASSUME file' = file, editor' = editor, unseen' = unseen,
             \A a \in PatchCalls : call'[a].step = "write" => call'[a] = call[a]
      PROVE  OverwriteInv'
  <2>1. ASSUME NEW e \in Editors PROVE EditorCompared(e)'
    <3>1. EditorCompared(e)
      BY DEF OverwriteInv
    <3> QED
      BY <1>3, <3>1 DEF EditorCompared, Compared, W!KnownText, W!Patch!Text
  <2>2. ASSUME NEW a \in PatchCalls PROVE CallCompared(a)'
    <3>1. SUFFICES ASSUME call'[a].step = "write", call'[a] = call[a] PROVE CallCompared(a)'
      BY <1>3 DEF CallCompared
    <3>2. CallCompared(a) /\ NextTargets(a)' = NextTargets(a) /\ a \notin Editors
      BY <3>1, WorkspaceAssumption DEF OverwriteInv, NextTargets, W!Patch!Write, W!Patch!Destination
    <3>3. \A p : W!KnownText(a, p)' = W!KnownText(a, p)
      BY <3>1, <3>2 DEF W!KnownText, W!Patch!Write
    <3> QED
      BY <1>3, <3>1, <3>2, <3>3 DEF CallCompared, Compared, W!Patch!Text
  <2> QED
    BY <2>1, <2>2 DEF OverwriteInv
<1>4. CASE W!Crash
  <2>1. \A a \in PatchCalls : call'[a].step = "write" => call'[a] = call[a]
    <3>1. ASSUME NEW a \in PatchCalls, call'[a].step = "write" PROVE call'[a] = call[a]
      <4>1. call[a] \in CallRecord
        BY DEF TransactionInv, FilesTyped
      <4> QED
        BY <1>4, <3>1, <4>1 DEF W!Crash, W!Patch!Crash, CallRecord
    <3> QED
      BY <3>1
  <2> QED
    BY <1>3, <1>4, <2>1 DEF W!Crash, W!Patch!Crash
<1>5. CASE UNCHANGED wVars
  BY <1>3, <1>5 DEF wVars
<1> QED
  BY <1>1, <1>2, <1>4, <1>5, Zenon DEF W!Next

LEMMA OverwriteBegins ==
    ASSUME W!Init
    PROVE  OverwriteInv
<1>1. /\ \A a \in PatchCalls : call[a].step = "idle"
      /\ \A e \in Editors : editor[e].step = "closed"
  BY DEF W!Init, W!Patch!Init, W!Service!Init, W!Patch!NewCall, W!Service!NewSession
<1> QED
  BY <1>1 DEF OverwriteInv, CallCompared, EditorCompared

LEMMA WorkspaceStep ==
    ASSUME [ServicesNext]_allVars
    PROVE  [W!Next]_wVars
BY DEF ServicesNext, InPush, InWorkspace, InIntegration, InAgent, InLive, InTerminal,
       InImport, InRevision, allVars, wVars

LEMMA WorkspaceHolds == ServicesSpec => [](TransactionInv /\ OverwriteInv)
<1>1. ServicesInit => TransactionInv /\ OverwriteInv
  BY TransactionBegins, OverwriteBegins DEF ServicesInit
<1>2. TransactionInv /\ OverwriteInv /\ [ServicesNext]_allVars => (TransactionInv /\ OverwriteInv)'
  BY TransactionInductive, OverwriteInductive, WorkspaceStep
<1> QED
  BY <1>1, <1>2, PTL DEF ServicesSpec

------------------------------------------------------------------------------
(* The properties *)

(* What a write replaces is what its writer knew of the file, or was        *)
(* written between the writer's last comparison and its write.              *)
THEOREM NoSilentOverwriteHolds == ServicesSpec => NoSilentOverwrite
<1> DEFINE Overwrites ==
        \A w \in W!Writers, p \in FilePaths :
            W!Writing(w) /\ file'[p] # file[p] =>
                p \in unseen[w] \/ W!Patch!Text(file[p]) = W!KnownText(w, p)
<1>1. TransactionInv /\ OverwriteInv /\ [ServicesNext]_allVars => [Overwrites]_W!vars
  <2> SUFFICES ASSUME TransactionInv, OverwriteInv, [W!Next]_wVars PROVE Overwrites
    BY WorkspaceStep
  <2> SUFFICES ASSUME NEW w \in W!Writers, NEW p \in FilePaths, W!Writing(w), file'[p] # file[p]
               PROVE  Compared(w, p)
    BY DEF Compared
  <2>0. FilesTyped
    BY DEF TransactionInv
  <2>1. ASSUME NEW a \in PatchCalls, W!CallStep(a) PROVE Compared(w, p)
    <3>1. /\ \A b \in PatchCalls \ {a} : call'[b] = call[b]
          /\ editor' = editor
      BY <2>0, <2>1, WhereItLeads, OwnHistory
    <3>2. w = a /\ call[a].step = "write"
      BY <2>1, <3>1 DEF W!Writing
    <3>3. file' = W!Patch!Written(a)
      BY <2>0, <2>1, <3>2, WhereItLeads
    <3>4. p \in NextTargets(a)
      <4> DEFINE v == W!Patch!Write(a)
      <4>1. v.op \in {"create", "modify", "delete", "rename"}
        BY <3>2, NextTargetsFacts, PlanFacts
      <4>2. file \in [FilePaths -> Content]
        BY <2>0 DEF FilesTyped
      <4> HIDE DEF v
      <4> QED
        BY <3>3, <4>1, <4>2 DEF W!Patch!Written, NextTargets, W!Patch!Destination, v
    <3> QED
      BY <3>2, <3>4 DEF OverwriteInv, CallCompared
  <2>2. ASSUME NEW e \in Editors, W!EditorStep(e) PROVE Compared(w, p)
    <3>1. call' = call /\ W!Service!Edit(e) /\ editor \in [Editors -> Session] /\ file \in [FilePaths -> Content]
      BY <2>0, <2>2 DEF W!EditorStep, W!patchVars, FilesTyped
    <3>2. W!Service!SaveReplace(e)
      BY <3>1 DEF W!Service!Edit, W!Service!OpenText, W!Service!SaveCheck
    <3>3. /\ editor[e].step = "replace" /\ p = editor[e].path
          /\ \A d \in Editors \ {e} : editor'[d] = editor[d]
      BY <3>1, <3>2 DEF W!Service!SaveReplace, W!Service!In, W!Service!Turn
    <3>4. w = e /\ e \notin Overriding
      BY <3>1, <3>3 DEF W!Writing
    <3> QED
      BY <3>3, <3>4 DEF OverwriteInv, EditorCompared
  <2>3. CASE W!Crash \/ UNCHANGED wVars
    BY <2>3 DEF W!Crash, W!Patch!Crash, wVars
  <2> QED
    BY <2>1, <2>2, <2>3, Zenon DEF W!Next
<1> QED
  BY <1>1, WorkspaceHolds, PTL DEF ServicesSpec, NoSilentOverwrite, W!NoSilentOverwrite

(* What stays reported is what recovery_report shows an operator.           *)
LEMMA ReportIsShown ==
    ASSUME FilesTyped, NEW a \in PatchCalls, Reported(a),
           \A i \in DOMAIN journal : journal[i].attempt <= call[a].attempt
    PROVE  W!Patch!RequiresReview
<1>1. PICK i \in DOMAIN journal :
          /\ journal[i].attempt = call[a].attempt
          /\ journal[i].state \in {"planned", "rollback_failed_critical"}
          /\ \A j \in DOMAIN journal : j > i => journal[j].attempt > call[a].attempt
  BY DEF Reported
<1>2. /\ Len(journal) \in Nat /\ DOMAIN journal = 1..Len(journal) /\ i \in 1..Len(journal)
      /\ \A j \in 1..Len(journal) : journal[j].attempt \in Nat
      /\ call[a].attempt \in Nat
  BY <1>1, JournalFacts, RecordFacts
<1>3. \A j \in DOMAIN journal : i >= j
  <2>1. ASSUME NEW j \in DOMAIN journal, j > i PROVE FALSE
    <3>1. journal[j].attempt > call[a].attempt /\ journal[j].attempt <= call[a].attempt
      BY <1>1, <2>1
    <3> QED
      BY <1>2, <3>1
  <2> QED
    BY <1>2, <2>1
<1>4. W!Patch!Max(W!Patch!Attempts) = call[a].attempt
  <2>1. /\ call[a].attempt \in W!Patch!Attempts
        /\ \A y \in W!Patch!Attempts : call[a].attempt >= y
    BY <1>1, <1>2 DEF W!Patch!Attempts
  <2>2. W!Patch!Attempts \subseteq Nat
    BY <1>2 DEF W!Patch!Attempts
  <2> DEFINE max == W!Patch!Max(W!Patch!Attempts)
  <2>3. max = CHOOSE x \in W!Patch!Attempts : \A y \in W!Patch!Attempts : x >= y
    BY Zenon DEF W!Patch!Max
  <2>4. max \in W!Patch!Attempts /\ \A y \in W!Patch!Attempts : max >= y
    BY <2>1, <2>3, Zenon
  <2> HIDE DEF max
  <2>5. max = call[a].attempt
    BY <1>2, <2>1, <2>2, <2>4
  <2> QED
    BY <2>5 DEF max
<1>5. W!Patch!Max(W!Patch!LatestEvents) = i
  <2>1. i \in W!Patch!LatestEvents /\ \A y \in W!Patch!LatestEvents : i >= y
    BY <1>1, <1>3, <1>4 DEF W!Patch!LatestEvents
  <2>2. W!Patch!LatestEvents \subseteq Nat
    BY <1>2 DEF W!Patch!LatestEvents
  <2> DEFINE max == W!Patch!Max(W!Patch!LatestEvents)
  <2>3. max = CHOOSE x \in W!Patch!LatestEvents : \A y \in W!Patch!LatestEvents : x >= y
    BY Zenon DEF W!Patch!Max
  <2>4. max \in W!Patch!LatestEvents /\ \A y \in W!Patch!LatestEvents : max >= y
    BY <2>1, <2>3, Zenon
  <2> HIDE DEF max
  <2>5. max = i
    BY <1>2, <2>1, <2>2, <2>4
  <2> QED
    BY <2>5 DEF max
<1> QED
  BY <1>1, <1>5 DEF W!Patch!RequiresReview

(* Where everything stands, all of the plan is done or nothing of it.       *)
LEMMA AllStands ==
    ASSUME NEW a \in PatchCalls, ReadSoFar(a) = Size(a), Stands(a)
    PROVE  /\ Position(a) = 1 => W!NothingDone(a)
           /\ Position(a) = Size(a) + 1 => W!AllDone(a)
<1>1. Size(a) \in Nat /\ DOMAIN Plan[a] = 1..Size(a)
  BY PlanFacts
<1> QED
  BY <1>1 DEF Stands, W!NothingDone, W!AllDone, W!DoneUpTo, Size

LEMMA EndPosition ==
    ASSUME NEW a \in PatchCalls, call[a].step \in {"dead", "done"}
    PROVE  Position(a) = IF call[a].step = "done" /\ call[a].result = "applied" THEN Size(a) + 1 ELSE 1
BY DEF Position

(* A transaction that stopped between its first and its last write is one   *)
(* that the recovery report asks an operator to look at.                    *)
THEOREM PartialWriteReportedHolds == ServicesSpec => []PartialWriteReported
<1>1. TransactionInv => PartialWriteReported
  <2> SUFFICES ASSUME TransactionInv, NEW a \in PatchCalls,
                      call[a].step = "dead" \/ W!Concluded(a), W!Undisturbed(a),
                      \A i \in DOMAIN journal : journal[i].attempt <= call[a].attempt,
                      Len(call[a].before) = Len(Plan[a])
               PROVE  W!AllDone(a) \/ W!NothingDone(a) \/ W!Patch!RequiresReview
    BY DEF PartialWriteReported, W!PartialWriteReported
  <2>1. call[a].step \in {"dead", "done"} /\ ReadSoFar(a) = Size(a) /\ FilesTyped /\ FilesKnown(a)
    BY DEF W!Concluded, ReadSoFar, Size, TransactionInv
  <2>2. CASE Stands(a)
    BY <2>1, <2>2, AllStands, EndPosition
  <2>3. CASE StaysReported(a)
    BY <2>1, <2>3, ReportIsShown DEF StaysReported
  <2> QED
    BY <2>1, <2>2, <2>3 DEF FilesKnown
<1> QED
  BY <1>1, WorkspaceHolds, PTL

(* A patch lands whole or not at all: when a call that nobody interfered    *)
(* with returns, what it says of its writes is true of the files, or it     *)
(* says, or the journal does, that an operator must look.                   *)
THEOREM AllOrNothingHolds == ServicesSpec => AllOrNothing
<1> DEFINE Truthful ==
               \A a \in PatchCalls :
                   W!Concluded(a) /\ (\A i \in DOMAIN journal : journal[i].attempt <= call[a].attempt) =>
                       W!TruthfulReturn(a)
           Returns == \A a \in PatchCalls : ~W!Concluded(a) /\ W!Concluded(a)' => W!TruthfulReturn(a)'
<1>1. ASSUME TransactionInv, TransactionInv', NEW a \in PatchCalls, W!CallStep(a),
             ~W!Concluded(a), W!Concluded(a)'
      PROVE  \A i \in DOMAIN journal' : journal'[i].attempt <= call'[a].attempt
  <2>1. FilesTyped /\ PlaceKnown(a) /\ AttemptKnown(a) /\ call[a].attempt \in Nat
    BY <1>1, RecordFacts DEF TransactionInv
  <2>2. call'[a].step = "done" /\ call'[a].before # <<>>
    BY <1>1 DEF W!Concluded
  <2>3. W!Patch!Decide(a) \/ W!Patch!Conclude(a)
    <3>1. CASE W!Patch!BeginApply(a)
      BY <1>1, <2>1, <2>2, <3>1, WhereItLeads DEF W!Patch!BeginApply, W!Patch!At, PlaceKnown
    <3> QED
      BY <1>1, <2>1, <2>2, <3>1, WhereItLeads
  <2>4. /\ call[a].step \in {"decide"} \cup Conclusions
        /\ \/ journal' = journal
           \/ \E s \in Answers \cup {"planned"} : journal' = Append(journal, [attempt |-> call[a].attempt, state |-> s])
        /\ call'[a].attempt = call[a].attempt
    <3>1. CASE W!Patch!Decide(a)
      <4>1. \/ W!Patch!Step(a, [step |-> "done", result |-> "rejected"])
            \/ W!Patch!Step(a, [step |-> "check"])
            \/ W!Patch!Step(a, [step |-> "done", result |-> "error"])
        BY <3>1 DEF W!Patch!Decide, W!Patch!Go, W!Patch!Return
      <4>2. call'[a].attempt = call[a].attempt
        BY <2>1, <4>1, StepNames DEF CallFields
      <4> QED
        BY <3>1, <4>2 DEF W!Patch!Decide, W!Patch!At, W!Patch!AppendJournalEvent, Answers
    <3>2. CASE W!Patch!Conclude(a)
      <4>1. \E result : W!Patch!Step(a, [step |-> "done", result |-> result])
        BY <3>2, Zenon DEF W!Patch!Conclude, W!Patch!Return
      <4>2. call'[a].attempt = call[a].attempt
        BY <2>1, <4>1, StepNames DEF CallFields
      <4>3. call[a].step \in Conclusions
        BY <3>2 DEF W!Patch!Conclude, W!Patch!Conclusion, Conclusions
      <4>4. W!Patch!Conclusion[call[a].step] \in Answers
        BY <4>3 DEF W!Patch!Conclusion, Conclusions, Answers
      <4> QED
        BY <3>2, <4>2, <4>3, <4>4 DEF W!Patch!Conclude, W!Patch!AppendJournalEvent
    <3> QED
      BY <2>3, <3>1, <3>2
  <2>5. /\ Len(journal) \in Nat /\ DOMAIN journal = 1..Len(journal)
        /\ \A j \in 1..Len(journal) : journal[j].attempt \in Nat
    BY <2>1, JournalFacts
  <2>6. \A i \in DOMAIN journal : journal[i].attempt <= call[a].attempt
    <3>1. CASE call[a].step = "decide"
      BY <2>1, <2>5, <3>1 DEF AttemptKnown
    <3>2. CASE call[a].step \in Conclusions
      <4>1. /\ journal[Len(journal)] = [attempt |-> call[a].attempt, state |-> "planned"]
            /\ \A i \in DOMAIN journal : i < Len(journal) => journal[i].attempt < call[a].attempt
        BY <2>1, <3>2 DEF AttemptKnown, CommittedSteps
      <4>2. journal[Len(journal)].attempt = call[a].attempt
        BY <4>1
      <4> QED
        BY <2>1, <2>5, <4>1, <4>2
    <3> QED
      BY <2>4, <3>1, <3>2
  <2>7. CASE journal' = journal
    BY <2>4, <2>6, <2>7
  <2>8. ASSUME NEW s \in Answers \cup {"planned"}, journal' = Append(journal, [attempt |-> call[a].attempt, state |-> s])
        PROVE  \A i \in DOMAIN journal' : journal'[i].attempt <= call'[a].attempt
    <3>1. PICK e \in Event : e = [attempt |-> call[a].attempt, state |-> s]
      BY <2>1 DEF Event
    <3>2. journal' = Append(journal, e) /\ e.attempt = call[a].attempt
      BY <2>8, <3>1
    <3>3. /\ DOMAIN journal' = 1..(Len(journal) + 1) /\ journal'[Len(journal) + 1] = e
          /\ \A j \in 1..Len(journal) : journal'[j] = journal[j]
      BY <2>1, <3>2, JournalGrows
    <3>4. ASSUME NEW i \in 1..(Len(journal) + 1) PROVE journal'[i].attempt <= call'[a].attempt
      <4>1. CASE i = Len(journal) + 1
        BY <2>1, <2>4, <3>2, <3>3, <4>1
      <4>2. CASE i \in 1..Len(journal)
        BY <2>4, <2>5, <2>6, <3>3, <4>2
      <4> QED
        BY <2>5, <4>1, <4>2
    <3> QED
      BY <3>3, <3>4
  <2> QED
    BY <2>4, <2>7, <2>8
<1>2. TransactionInv => Truthful
  <2> SUFFICES ASSUME TransactionInv, NEW a \in PatchCalls, W!Concluded(a),
                      \A i \in DOMAIN journal : journal[i].attempt <= call[a].attempt
               PROVE  W!TruthfulReturn(a)
    OBVIOUS
  <2> SUFFICES ASSUME W!Undisturbed(a)
               PROVE  CASE call[a].result = "applied" -> W!AllDone(a)
                        [] call[a].result \in {"rejected", "rolled_back", "limit"} -> W!NothingDone(a)
                        [] call[a].result = "rollback_failed_critical" -> TRUE
                        [] call[a].result = "error" -> W!NothingDone(a) \/ W!Patch!RequiresReview
    BY DEF W!TruthfulReturn
  <2>1. /\ call[a].step = "done" /\ call[a].before # <<>> /\ FilesTyped /\ PlaceKnown(a) /\ FilesKnown(a)
        /\ call[a].result \in Answers \cup {"none"}
    BY RecordFacts DEF W!Concluded, TransactionInv
  <2>2. ReadSoFar(a) # 0
    <3>1. call[a].before \in Seq(Content)
      BY <2>1, RecordFacts
    <3> QED
      BY <2>1, <3>1 DEF ReadSoFar
  <2>3. ReadSoFar(a) = Size(a) /\ call[a].result \in Answers /\ call[a].result # "limit"
    BY <2>1, <2>2 DEF PlaceKnown
  <2>4. CASE Stands(a)
    <3>1. /\ call[a].result = "applied" => W!AllDone(a)
          /\ call[a].result # "applied" => W!NothingDone(a)
      BY <2>1, <2>3, <2>4, AllStands, EndPosition
    <3> QED
      BY <2>3, <3>1 DEF Answers
  <2>5. CASE LooseEnd(a) /\ StaysReported(a)
    <3>1. W!Patch!RequiresReview
      BY <2>1, <2>5, ReportIsShown DEF StaysReported
    <3>2. call[a].result \in {"rollback_failed_critical", "error"}
      BY <2>1, <2>5 DEF LooseEnd
    <3> QED
      BY <3>1, <3>2
  <2> QED
    BY <2>1, <2>4, <2>5 DEF FilesKnown
<1>3. TransactionInv /\ TransactionInv' /\ Truthful' /\ [ServicesNext]_allVars => [Returns]_W!vars
  <2> SUFFICES ASSUME TransactionInv, TransactionInv', Truthful', [W!Next]_wVars PROVE Returns
    BY WorkspaceStep
  <2> SUFFICES ASSUME NEW a \in PatchCalls, ~W!Concluded(a), W!Concluded(a)'
               PROVE  W!TruthfulReturn(a)'
    OBVIOUS
  <2>1. call'[a] # call[a]
    BY DEF W!Concluded
  <2>2. W!CallStep(a)
    <3>1. ASSUME NEW b \in PatchCalls, W!CallStep(b) PROVE b = a
      BY <2>1, <3>1, WhereItLeads DEF TransactionInv
    <3>2. ASSUME NEW e \in Editors, W!EditorStep(e) PROVE FALSE
      BY <2>1, <3>2 DEF W!EditorStep, W!patchVars
    <3>3. CASE W!Crash
      <4>1. call[a] \in CallRecord
        BY DEF TransactionInv, FilesTyped
      <4>2. call'[a].step = "dead" \/ call'[a] = call[a]
        BY <3>3, <4>1 DEF W!Crash, W!Patch!Crash, CallRecord
      <4> QED
        BY <2>1, <4>2 DEF W!Concluded
    <3>4. CASE UNCHANGED wVars
      BY <2>1, <3>4 DEF wVars
    <3> QED
      BY <3>1, <3>2, <3>3, <3>4, Zenon DEF W!Next
  <2>3. \A i \in DOMAIN journal' : journal'[i].attempt <= call'[a].attempt
    BY <1>1, <2>2
  <2> QED
    BY <2>3
<1> HIDE DEF Truthful
<1> QED
  BY <1>2, <1>3, WorkspaceHolds, PTL DEF ServicesSpec, AllOrNothing, W!AllOrNothing

------------------------------------------------------------------------------
(* Types *)

(* Attempts are numbered from 1 to the limit, and only a call holds the     *)
(* journal's mutex.                                                         *)
AttemptsBounded ==
    /\ mutex \in PatchCalls \cup {Unlocked}
    /\ \A a \in PatchCalls : call[a].attempt \in 0..MaxAttempts
    /\ \A i \in DOMAIN journal : journal[i].attempt \in 1..MaxAttempts

(* No call has an attempt at first.                                         *)
LEMMA AttemptsBegin == W!Init => AttemptsBounded
<1> SUFFICES ASSUME W!Init PROVE AttemptsBounded
  OBVIOUS
<1>1. /\ journal = << >> /\ mutex = Unlocked
      /\ \A a \in PatchCalls : call[a].attempt = 0
  BY DEF W!Init, W!Patch!Init, W!Patch!NewCall
<1>2. DOMAIN journal = {} /\ 0 \in 0..MaxAttempts
  BY <1>1, WorkspaceAssumption
<1> QED
  BY <1>1, <1>2 DEF AttemptsBounded

(* A step of a call takes a new attempt only when it begins, and journals   *)
(* the one it has.                                                          *)
LEMMA AttemptTaken ==
    ASSUME FilesTyped, NEW a \in PatchCalls, W!CallStep(a)
    PROVE  /\ \A b \in PatchCalls \ {a} : call'[b] = call[b]
           /\ \/ call'[a].attempt = call[a].attempt
              \/ call'[a].attempt = W!Patch!NextAttempt /\ ~(W!Patch!NextAttempt > MaxAttempts)
           /\ mutex' \in {mutex, a, Unlocked}
           /\ \/ journal' = journal
              \/ /\ call[a].step \in HoldingSteps
                 /\ \E s \in Answers \cup {"planned"} :
                        journal' = Append(journal, [attempt |-> call[a].attempt, state |-> s])
<1>0. {"step", "attempt"} \subseteq CallFields /\ \A b \in PatchCalls \ {a} : call'[b] = call[b]
  BY WhereItLeads DEF CallFields
<1>1. ASSUME NEW fields, W!Patch!Step(a, fields), "attempt" \notin DOMAIN fields
      PROVE  call'[a].attempt = call[a].attempt
  BY <1>0, <1>1, StepNames
<1>2. CASE W!Patch!Propose(a)
  BY <1>0, <1>1, <1>2 DEF W!Patch!Propose
<1>3. CASE W!Patch!BeginApply(a)
  <2>1. journal' = journal /\ mutex' \in {a, Unlocked}
    BY <1>3 DEF W!Patch!BeginApply, W!Patch!Return
  <2>2. CASE W!Patch!Return(a, "limit")
    BY <1>0, <1>1, <2>1, <2>2 DEF W!Patch!Return
  <2> DEFINE next == W!Patch!NextAttempt
  <2>3. CASE ~(next > MaxAttempts) /\ W!Patch!Step(a, [step |-> "read", attempt |-> next])
    <3> HIDE DEF next
    <3>1. call'[a].attempt = next
      BY <1>0, <2>3, StepNames
    <3> QED
      BY <1>0, <2>1, <2>3, <3>1 DEF next
  <2> QED
    BY <1>3, <2>2, <2>3 DEF W!Patch!BeginApply
<1>4. CASE W!Patch!ReadTarget(a)
  <2>1. journal' = journal /\ mutex' = mutex
    BY <1>4 DEF W!Patch!ReadTarget
  <2>2. \E s, n, before, conflict :
            W!Patch!Step(a, [step |-> s, at |-> n, before |-> before, conflict |-> conflict])
    BY <1>4, Zenon DEF W!Patch!ReadTarget
  <2> QED
    BY <1>0, <1>1, <2>1, <2>2
<1>5. CASE W!Patch!Decide(a)
  <2>1. \E fields \in {[step |-> "done", result |-> "rejected"], [step |-> "check"],
                       [step |-> "done", result |-> "error"]} : W!Patch!Step(a, fields)
    BY <1>5 DEF W!Patch!Decide, W!Patch!Go, W!Patch!Return
  <2>2. call'[a].attempt = call[a].attempt
    BY <1>1, <2>1
  <2>3. mutex' \in {mutex, Unlocked}
    BY <1>5 DEF W!Patch!Decide, W!Patch!Return
  <2>4. /\ call[a].step = "decide"
        /\ \/ journal' = journal
           \/ \E s \in {"rejected", "planned"} : W!Patch!AppendJournalEvent(a, s)
    BY <1>5 DEF W!Patch!Decide, W!Patch!At
  <2> QED
    BY <1>0, <2>2, <2>3, <2>4 DEF W!Patch!AppendJournalEvent, HoldingSteps, Answers
<1>6. CASE W!Patch!CheckTarget(a) \/ W!Patch!WriteTarget(a) \/ W!Patch!VerifyTarget(a) \/ W!Patch!RollBack(a)
  <2>1. journal' = journal /\ mutex' = mutex
    BY <1>6 DEF W!Patch!CheckTarget, W!Patch!WriteTarget, W!Patch!VerifyTarget, W!Patch!RollBack
  <2>2. \/ \E s : W!Patch!Step(a, [step |-> s])
        \/ \E s, n : W!Patch!Step(a, [step |-> s, at |-> n])
        \/ \E n : W!Patch!Step(a, [at |-> n])
    <3>1. CASE W!Patch!CheckTarget(a)
      BY <3>1, Zenon DEF W!Patch!CheckTarget, W!Patch!Go
    <3>2. CASE W!Patch!WriteTarget(a)
      BY <3>2, Zenon DEF W!Patch!WriteTarget, W!Patch!Go
    <3>3. CASE W!Patch!VerifyTarget(a)
      BY <3>3, Zenon DEF W!Patch!VerifyTarget, W!Patch!Go
    <3>4. CASE W!Patch!RollBack(a)
      BY <3>4, Zenon DEF W!Patch!RollBack, W!Patch!Go
    <3> QED
      BY <1>6, <3>1, <3>2, <3>3, <3>4
  <2>3. call'[a].attempt = call[a].attempt
    BY <1>1, <2>2
  <2> QED
    BY <1>0, <2>1, <2>3
<1>7. CASE W!Patch!Conclude(a)
  <2>1. \E result : W!Patch!Step(a, [step |-> "done", result |-> result])
    BY <1>7, Zenon DEF W!Patch!Conclude, W!Patch!Return
  <2>2. call'[a].attempt = call[a].attempt
    BY <1>1, <2>1
  <2>3. mutex' = Unlocked
    BY <1>7 DEF W!Patch!Conclude, W!Patch!Return
  <2>4. call[a].step \in Conclusions /\ W!Patch!Conclusion[call[a].step] \in Answers
    BY <1>7 DEF W!Patch!Conclude, W!Patch!Conclusion, Conclusions, Answers
  <2>5. \/ journal' = journal
        \/ W!Patch!AppendJournalEvent(a, W!Patch!Conclusion[call[a].step])
    BY <1>7, Zenon DEF W!Patch!Conclude
  <2> QED
    BY <1>0, <2>2, <2>3, <2>4, <2>5 DEF W!Patch!AppendJournalEvent, HoldingSteps, CommittedSteps
<1> QED
  BY <1>2, <1>3, <1>4, <1>5, <1>6, <1>7, Zenon DEF W!CallStep, W!Patch!Apply

(* Attempts stay within their limit.                                        *)
LEMMA AttemptsStay == TransactionInv /\ AttemptsBounded /\ [W!Next]_wVars => AttemptsBounded'
<1> SUFFICES ASSUME TransactionInv, AttemptsBounded, [W!Next]_wVars PROVE AttemptsBounded'
  OBVIOUS
<1>0. FilesTyped /\ JournalOrdered
  BY DEF TransactionInv
<1>1. ASSUME NEW a \in PatchCalls, W!CallStep(a) PROVE AttemptsBounded'
  <2>1. /\ \A b \in PatchCalls \ {a} : call'[b] = call[b]
        /\ \/ call'[a].attempt = call[a].attempt
           \/ call'[a].attempt = W!Patch!NextAttempt /\ ~(W!Patch!NextAttempt > MaxAttempts)
        /\ mutex' \in {mutex, a, Unlocked}
    BY <1>0, <1>1, AttemptTaken
  <2>2. call'[a].attempt \in 0..MaxAttempts
    BY <1>0, <2>1, NextIsLater, WorkspaceAssumption DEF AttemptsBounded
  <2>3. \A i \in DOMAIN journal' : journal'[i].attempt \in 1..MaxAttempts
    <3>1. CASE journal' = journal
      BY <3>1 DEF AttemptsBounded
    <3>2. ASSUME call[a].step \in HoldingSteps, NEW s \in Answers \cup {"planned"},
                 journal' = Append(journal, [attempt |-> call[a].attempt, state |-> s])
          PROVE  \A i \in DOMAIN journal' : journal'[i].attempt \in 1..MaxAttempts
      <4>1. PICK e \in Event : e = [attempt |-> call[a].attempt, state |-> s]
        BY <1>0, RecordFacts DEF Event
      <4>2. /\ Len(journal) \in Nat /\ DOMAIN journal = 1..Len(journal)
            /\ DOMAIN journal' = 1..(Len(journal) + 1) /\ journal'[Len(journal) + 1] = e
            /\ \A j \in 1..Len(journal) : journal'[j] = journal[j]
        BY <1>0, <3>2, <4>1, JournalGrows
      <4>3. e.attempt \in 1..MaxAttempts
        <5>1. call[a].attempt > 0 /\ call[a].attempt \in 0..MaxAttempts
          BY <3>2 DEF TransactionInv, AttemptKnown, AttemptsBounded
        <5> QED
          BY <4>1, <5>1, WorkspaceAssumption
      <4>4. ASSUME NEW i \in 1..(Len(journal) + 1) PROVE journal'[i].attempt \in 1..MaxAttempts
        <5>1. CASE i = Len(journal) + 1
          BY <4>2, <4>3, <5>1
        <5>2. CASE i \in 1..Len(journal)
          BY <4>2, <5>2 DEF AttemptsBounded
        <5> QED
          BY <4>2, <5>1, <5>2
      <4> QED
        BY <4>2, <4>4
    <3> QED
      BY <1>0, <1>1, <3>1, <3>2, AttemptTaken
  <2> QED
    BY <2>1, <2>2, <2>3 DEF AttemptsBounded
<1>2. ASSUME NEW e \in Editors, W!EditorStep(e) PROVE AttemptsBounded'
  BY <1>2 DEF W!EditorStep, W!patchVars, AttemptsBounded
<1>3. CASE W!Crash
  <2>1. \A a \in PatchCalls : call'[a].attempt = call[a].attempt
    <3> TAKE a \in PatchCalls
    <3>1. call[a] \in CallRecord
      BY <1>0 DEF FilesTyped
    <3> QED
      BY <1>3, <3>1 DEF W!Crash, W!Patch!Crash, CallRecord
  <2> QED
    BY <1>3, <2>1 DEF W!Crash, W!Patch!Crash, AttemptsBounded
<1>4. CASE UNCHANGED wVars
  BY <1>4 DEF wVars, AttemptsBounded
<1> QED
  BY <1>1, <1>2, <1>3, <1>4, Zenon DEF W!Next

(* The types of files, journal, calls and editors.                          *)
LEMMA WorkspaceIsTyped == TransactionInv /\ AttemptsBounded => W!TypeOK
<1> SUFFICES ASSUME TransactionInv, AttemptsBounded PROVE W!TypeOK
  OBVIOUS
<1>1. ASSUME NEW a \in PatchCalls
      PROVE  /\ (mutex = a) = (call[a].step \notin {"idle", "proposed", "done", "dead"})
             /\ Len(call[a].before) <= Len(Plan[a])
  <2>1. /\ call[a].step \in HoldingSteps \cup {"idle", "proposed", "done", "dead"}
        /\ Size(a) \in Nat /\ ReadSoFar(a) \in Nat /\ call[a].at \in Nat
        /\ PlaceKnown(a)
    BY RecordFacts, PlanFacts DEF TransactionInv
  <2>2. call[a].step \in HoldingSteps <=> call[a].step \notin {"idle", "proposed", "done", "dead"}
    BY <2>1 DEF HoldingSteps, CommittedSteps, Conclusions
  <2>3. ReadSoFar(a) <= Size(a)
    <3>1. CASE call[a].step \in {"idle", "proposed"}
      <4>1. ReadSoFar(a) = 0
        BY <2>1, <3>1 DEF PlaceKnown, ReadSoFar
      <4> QED
        BY <2>1, <4>1
    <3>2. CASE call[a].step = "read"
      BY <2>1, <3>2 DEF PlaceKnown
    <3>3. CASE call[a].step \in CommittedSteps \cup {"decide"}
      BY <2>1, <3>3 DEF PlaceKnown
    <3>4. CASE call[a].step \in {"done", "dead"}
      BY <2>1, <3>4 DEF PlaceKnown
    <3> QED
      BY <2>1, <3>1, <3>2, <3>3, <3>4 DEF HoldingSteps
  <2> QED
    BY <2>1, <2>2, <2>3 DEF PlaceKnown, ReadSoFar, Size
<1>2. \A i \in 1..Len(journal) : journal[i].attempt \in 1..MaxAttempts
  BY JournalFacts DEF TransactionInv, AttemptsBounded
<1>3. FilesTyped
  BY DEF TransactionInv
<1> QED
  BY <1>1, <1>2, <1>3 DEF FilesTyped, Content, WriterSets, Session, AttemptsBounded, W!TypeOK, W!Writers

(* All the components at once, each as its own invariant has it.            *)
ServicesInv ==
    /\ Inv
    /\ TransactionInv /\ AttemptsBounded
    /\ IntegrationInv
    /\ LoopInv /\ AgentTyped
    /\ LiveInv /\ LiveBounded
    /\ ShellInv
    /\ ImportInv /\ QuarantineTyped
    /\ RevisionInv

(* Every component begins in its invariant.                                 *)
LEMMA ServicesBegin == ServicesInit => ServicesInv
<1> SUFFICES ASSUME ServicesInit PROVE ServicesInv
  OBVIOUS
<1>1. Init /\ W!Init /\ I!Init /\ A!Init /\ L!Init /\ T!Init /\ D!Init /\ R!Init
  BY DEF ServicesInit
<1>2. QuarantineTyped
  BY <1>1 DEF D!Init, QuarantineTyped
<1> QED
  BY <1>1, <1>2, Initially, TransactionBegins, AttemptsBegin, ApplyBegins, LoopBegins,
     AgentBegins, LiveBegins, LiveBoundsBegin, ShellBegins, ImportsBegin, RevisionsBegin
     DEF ServicesInv

(* A step of one component keeps the invariants of all.                     *)
LEMMA ServicesKept == ServicesInv /\ [ServicesNext]_allVars => ServicesInv'
<1> SUFFICES ASSUME ServicesInv, [ServicesNext]_allVars PROVE ServicesInv'
  OBVIOUS
<1>1. [Next]_vars /\ [I!Next]_iVars /\ [A!Next]_aVars /\ [L!Next]_lVars
  BY DEF ServicesNext, InPush, InWorkspace, InIntegration, InAgent, InLive, InTerminal,
         InImport, InRevision, allVars, vars, iVars, aVars, lVars
<1>2. [T!Next]_tVars /\ [D!Next]_dVars /\ [R!Next]_rVars
  BY DEF ServicesNext, InPush, InWorkspace, InIntegration, InAgent, InLive, InTerminal,
         InImport, InRevision, allVars, tVars, dVars, rVars
<1>3. [W!Next]_wVars
  BY WorkspaceStep
<1>4. Inv'
  BY <1>1, Step DEF ServicesInv
<1>5. (TransactionInv /\ AttemptsBounded)'
  BY <1>3, TransactionInductive, AttemptsStay DEF ServicesInv
<1>6. IntegrationInv'
  BY <1>1, IntegrationInductive DEF ServicesInv
<1>7. LoopInv'
  <2>1. CASE A!Cancel \/ A!OthersWrite \/ UNCHANGED aVars
    BY <2>1 DEF A!Cancel, A!OthersWrite, aVars, ServicesInv, LoopInv
  <2> QED
    BY <1>1, <2>1, LoopSteps DEF A!Next, ServicesInv
<1>8. AgentTyped'
  BY <1>1, AgentTypes DEF ServicesInv
<1>9. (LiveInv /\ LiveBounded)'
  BY <1>1, LiveInductive, LiveBounds DEF ServicesInv
<1>10. ShellInv' /\ RevisionInv'
  BY <1>2, ShellInductive, RevisionInductive DEF ServicesInv
<1>11. (ImportInv /\ QuarantineTyped)'
  BY <1>2, ImportInductive, QuarantineTypes DEF ServicesInv
<1> QED
  BY <1>4, <1>5, <1>6, <1>7, <1>8, <1>9, <1>10, <1>11 DEF ServicesInv

(* Every component keeps its types, with what its TypeOK says of cursors,   *)
(* bounds, locks and seals, whatever its constants are: no attempt passes   *)
(* its limit, no cursor its journal, and no step of the loop its budget.    *)
THEOREM ServicesTyping == ServicesSpec => []ServicesTypeOK
<1>1. ServicesInv => ServicesTypeOK
  <2> SUFFICES ASSUME ServicesInv PROVE ServicesTypeOK
    OBVIOUS
  <2>1. TypeOK /\ W!TypeOK /\ I!TypeOK /\ A!TypeOK
    BY WorkspaceIsTyped, IntegrationIsTyped, AgentIsTyped DEF ServicesInv, Inv
  <2>2. L!TypeOK /\ T!TypeOK /\ D!TypeOK /\ R!TypeOK
    BY LiveIsTyped, ShellIsTyped, ImportIsTyped, RevisionIsTyped DEF ServicesInv
  <2> QED
    BY <2>1, <2>2 DEF ServicesTypeOK
<1> QED
  BY <1>1, ServicesBegin, ServicesKept, PTL DEF ServicesSpec
==============================================================================
