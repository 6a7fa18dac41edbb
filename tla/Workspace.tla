------------------------------ MODULE Workspace ------------------------------
(***************************************************************************)
(* The files of one workspace, which the patch engine's transactions and   *)
(* the file service's editing sessions write with nothing between them but *)
(* the hashes each compares before it writes.                              *)
(***************************************************************************)
EXTENDS Integers, Sequences

CONSTANTS
    Paths, Missing, Calls, Plan, Leased, MaxAttempts, Unlocked, Faults,
    Editors, Overriding

VARIABLES
    file, journal, mutex, call, faults, editor,
    \* history: what others wrote meanwhile
    disturbed,      \* paths written by others since a call's preflight began
    unseen          \* paths written by others since a writer last compared

Patch == INSTANCE PatchTransaction
Service == INSTANCE FileService

patchVars == <<journal, mutex, call>>
vars == <<file, journal, mutex, call, faults, editor, disturbed, unseen>>

Writers == Calls \cup Editors

Init ==
    /\ Patch!Init
    /\ Service!Init
    /\ disturbed = [a \in Calls |-> {}]
    /\ unseen = [w \in Writers |-> {}]

Written == {p \in Paths : file'[p] # file[p]}

(* Writer w has done a step; it has compared its target if compared holds, *)
(* and begins its preflight if begins holds.                               *)
Recorded(w, compared, begins) ==
    /\ disturbed' = [a \in Calls |->
           IF a = w THEN IF begins THEN {} ELSE disturbed[a]
           ELSE disturbed[a] \cup Written]
    /\ unseen' = [v \in Writers |->
           IF v = w THEN IF compared THEN {} ELSE unseen[v]
           ELSE unseen[v] \cup Written]

CallStep(a) ==
    /\ Patch!Propose(a) \/ Patch!Apply(a)
    /\ Recorded(a, call[a].step = "check", call[a].step = "proposed")
    /\ UNCHANGED editor

EditorStep(e) ==
    /\ Service!Edit(e)
    /\ Recorded(e, editor[e].step = "open", FALSE)
    /\ UNCHANGED patchVars

Crash ==
    /\ Patch!Crash
    /\ UNCHANGED <<editor, disturbed, unseen>>

Next ==
    \/ \E a \in Calls : CallStep(a)
    \/ \E e \in Editors : EditorStep(e)
    \/ Crash

Spec == Init /\ [][Next]_vars

------------------------------------------------------------------------------
(* Properties                                                              *)

TypeOK ==
    /\ file \in [Paths -> (SUBSET Writers) \cup {Missing}]
    /\ mutex \in Calls \cup {Unlocked}
    /\ \A a \in Calls : /\ (mutex = a) = (call[a].step \notin {"idle", "proposed", "done", "dead"})
                        /\ call[a].attempt \in 0..MaxAttempts
                        /\ Len(call[a].before) <= Len(Plan[a])
    /\ \A i \in 1..Len(journal) : journal[i].attempt \in 1..MaxAttempts
    /\ editor \in [Editors -> [step : {"closed", "open", "replace", "saved", "refused", "failed"},
                               path : Paths \cup {"none"}, baseline : SUBSET Writers]]
    /\ disturbed \in [Calls -> SUBSET Paths]
    /\ unseen \in [Writers -> SUBSET Paths]

(* The writes of a call before number n are in the files, the others not.  *)
InPlace(a, i) ==
    LET w == Plan[a][i]
    IN  CASE w.op \in {"create", "modify"} -> file[w.path] = Patch!After(a, i)
          [] w.op = "delete" -> file[w.path] = Missing
          [] w.op = "rename" -> file[w.path] = Missing /\ file[w.to] = call[a].expected[i]

(* A rename whose destination exists is refused in the preflight.          *)
Untouched(a, i) ==
    LET w == Plan[a][i]
    IN  /\ file[w.path] = call[a].before[i]
        /\ w.op = "rename" /\ call[a].conflict = "none" => file[w.to] = Missing

DoneUpTo(a, n) == \A i \in DOMAIN Plan[a] : IF i < n THEN InPlace(a, i) ELSE Untouched(a, i)

AllDone(a) == DoneUpTo(a, Len(Plan[a]) + 1)
NothingDone(a) == DoneUpTo(a, 1)

Undisturbed(a) == disturbed[a] \cap Patch!Touched(a) = {}
Concluded(a) == call[a].step = "done" /\ call[a].before # <<>>

(* "A multi-file patch never lands half-applied": when a call that nobody  *)
(* interfered with returns, all of its writes are in the workspace if it   *)
(* says applied, and none of them if it says anything else - unless it     *)
(* says, or its journal does, that an operator must look.                  *)
TruthfulReturn(a) ==
    Concluded(a) /\ Undisturbed(a) =>
        CASE call[a].result = "applied" -> AllDone(a)
          [] call[a].result \in {"rejected", "rolled_back", "limit"} -> NothingDone(a)
          [] call[a].result = "rollback_failed_critical" -> TRUE
          [] call[a].result = "error" -> NothingDone(a) \/ Patch!RequiresReview

AllOrNothing ==
    [][\A a \in Calls : ~Concluded(a) /\ Concluded(a)' => TruthfulReturn(a)']_vars

(* A transaction that died, or could not be undone, between its first and  *)
(* its last write is one the recovery report asks an operator to look at,  *)
(* as long as nobody has tried the proposal again.                         *)
PartialWriteReported ==
    \A a \in Calls :
        /\ \/ call[a].step = "dead" \/ Concluded(a)
        /\ Undisturbed(a)
        /\ call[a].attempt > 0
        /\ \A i \in DOMAIN journal : journal[i].attempt <= call[a].attempt
        /\ Len(call[a].before) = Len(Plan[a])
        => AllDone(a) \/ NothingDone(a) \/ Patch!RequiresReview

(* "No silent overwrite": what a write replaces is what its writer knew, or *)
(* was written between the writer's last comparison and the write; only a   *)
(* rollback and an overriding save replace anything else.                   *)
KnownText(w, p) ==
    IF w \in Editors THEN editor[w].baseline
    ELSE IF p = Patch!Write(w).path THEN call[w].expected[call[w].at]
    ELSE {}

Writing(w) ==
    \/ w \in Calls /\ call[w].step = "write" /\ call'[w] # call[w]
    \/ w \in Editors \ Overriding /\ editor'[w] # editor[w]

NoSilentOverwrite ==
    [][\A w \in Writers, p \in Paths :
           Writing(w) /\ file'[p] # file[p] =>
               p \in unseen[w] \/ Patch!Text(file[p]) = KnownText(w, p)]_vars
=============================================================================
