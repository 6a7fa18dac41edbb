----------------------------- MODULE FileService -----------------------------
(***************************************************************************)
(* crates/opensks-file-service: an editor opens a file with the hash of    *)
(* what it shows, and saves over that baseline or not at all, unless the   *)
(* user has resolved the conflict.  The comparison and the rename that     *)
(* replaces the file are two steps.                                        *)
(***************************************************************************)
EXTENDS Integers

CONSTANTS
    Paths,          \* workspace-relative paths
    Missing,        \* what is at a path that names no file
    Editors,        \* editing sessions, each with one save
    Overriding      \* sessions that pass a conflict_resolution

VARIABLES
    file,           \* the workspace: a text, a set of edits, or Missing
    editor,         \* progress of each session: step, path, baseline text
    faults          \* I/O errors still to come

vars == <<file, editor, faults>>

NewSession == [step |-> "closed", path |-> "none", baseline |-> {}]

Init == editor = [e \in Editors |-> NewSession]

In(e, step) == editor[e].step = step
Turn(e, step) == editor' = [editor EXCEPT ![e].step = step]

OpenText(e, p) ==
    /\ In(e, "closed")
    /\ file[p] # Missing
    /\ editor' = [editor EXCEPT ![e] = [step |-> "open", path |-> p, baseline |-> file[p]]]
    /\ UNCHANGED <<file, faults>>

(* Mutant: a save is only refused when the file is gone.                   *)
SaveUnchecked(e) ==
    /\ In(e, "open")
    /\ Turn(e, IF file[editor[e].path] # Missing THEN "replace" ELSE "refused")
    /\ UNCHANGED <<file, faults>>

(* save_text up to the comparison: file_not_found, file_changed_on_disk.   *)
SaveCheck(e) ==
    /\ In(e, "open")
    /\ Turn(e, IF \/ file[editor[e].path] = editor[e].baseline
                  \/ e \in Overriding /\ file[editor[e].path] # Missing
               THEN "replace" ELSE "refused")
    /\ UNCHANGED <<file, faults>>

(* atomic_replace.  The directory is synced after the rename, and an Err   *)
(* of that sync reports as failed what was saved.                          *)
SaveReplace(e) ==
    /\ In(e, "replace")
    /\ \/ /\ file' = [file EXCEPT ![editor[e].path] = editor[e].baseline \cup {e}]
          /\ \/ Turn(e, "saved") /\ UNCHANGED faults
             \/ /\ faults["io"] > 0
                /\ Turn(e, "failed")
                /\ faults' = [faults EXCEPT !["io"] = @ - 1]
       \/ /\ faults["io"] > 0
          /\ Turn(e, "failed")
          /\ faults' = [faults EXCEPT !["io"] = @ - 1]
          /\ UNCHANGED file

Edit(e) == (\E p \in Paths : OpenText(e, p)) \/ SaveCheck(e) \/ SaveReplace(e)

Next == \E e \in Editors : Edit(e)
=============================================================================
