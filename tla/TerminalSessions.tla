--------------------------- MODULE TerminalSessions ----------------------------
(***************************************************************************)
(* crates/opensks-terminal, session.rs: the registry of terminal sessions. *)
(* Starting one looks its id up, spawns a shell with the registry unlocked *)
(* and looks again before it registers; the other calls hold the lock from *)
(* beginning to end.  A shell may exit at any moment, and the session's    *)
(* artifacts may fail to be written.                                       *)
(***************************************************************************)
EXTENDS Integers

CONSTANTS
    Ids,            \* session ids
    Starts,         \* calls of start_session; each spawns at most one shell
    None,           \* no session
    WriteErrors     \* bound on artifacts that cannot be written

VARIABLES
    sessions,       \* id -> the call whose session it is, or None
    status,         \* id -> "Running", "Stopping", "Exited" or None
    shell,          \* call -> what became of its shell
    start,          \* progress of each start_session
    writeErrors     \* write errors still to come

vars == <<sessions, status, shell, start, writeErrors>>

Init ==
    /\ sessions = [id \in Ids |-> None]
    /\ status = [id \in Ids |-> None]
    /\ shell = [s \in Starts |-> "none"]
    /\ start = [s \in Starts |-> [step |-> "new", id |-> None]]
    /\ writeErrors = WriteErrors

WriteFails == writeErrors > 0 /\ writeErrors' = writeErrors - 1

Go(s, step) == start' = [start EXCEPT ![s].step = step]

(* validate_cwd and resolve_shell fail before anything is done.            *)
StartLooksUp(s, id) ==
    /\ start[s].step = "new"
    /\ \E step \in IF sessions[id] = None THEN {"spawn", "refused"} ELSE {"refused"} :
           start' = [start EXCEPT ![s] = [step |-> step, id |-> id]]
    /\ UNCHANGED <<sessions, status, shell, writeErrors>>

StartSpawns(s) ==
    /\ start[s].step = "spawn"
    /\ \/ shell' = [shell EXCEPT ![s] = "running"] /\ Go(s, "announce") /\ UNCHANGED writeErrors
       \/ WriteFails /\ Go(s, "refused") /\ UNCHANGED shell
    /\ UNCHANGED <<sessions, status>>

(* The shell's reader and writer, the running snapshot and its event.  An  *)
(* Err of one returns with the shell spawned: nobody kills it or waits for  *)
(* it.                                                                     *)
StartAnnounces(s) ==
    /\ start[s].step = "announce"
    /\ \/ Go(s, "register") /\ UNCHANGED writeErrors
       \/ WriteFails /\ Go(s, "abandoned")
    /\ UNCHANGED <<sessions, status, shell>>

Register(s, id) ==
    /\ sessions' = [sessions EXCEPT ![id] = s]
    /\ status' = [status EXCEPT ![id] = "Running"]
    /\ Go(s, "started")

(* Mutant: the id was looked up already.                                   *)
StartReplaces(s) ==
    /\ start[s].step = "register"
    /\ Register(s, start[s].id)
    /\ UNCHANGED <<shell, writeErrors>>

(* Who finds that another start was faster kills its own shell.            *)
StartRegisters(s) ==
    /\ start[s].step = "register"
    /\ \/ /\ sessions[start[s].id] = None
          /\ Register(s, start[s].id)
          /\ UNCHANGED shell
       \/ /\ sessions[start[s].id] # None
          /\ shell' = [shell EXCEPT ![s] = "reaped"]
          /\ Go(s, "refused")
          /\ UNCHANGED <<sessions, status>>
    /\ UNCHANGED writeErrors

Start(s) ==
    \/ \E id \in Ids : StartLooksUp(s, id)
    \/ StartSpawns(s) \/ StartAnnounces(s) \/ StartRegisters(s)

ShellExits(s) ==
    /\ shell[s] = "running"
    /\ shell' = [shell EXCEPT ![s] = "exited"]
    /\ UNCHANGED <<sessions, status, start, writeErrors>>

------------------------------------------------------------------------------
Forget(id) ==
    /\ sessions' = [sessions EXCEPT ![id] = None]
    /\ status' = [status EXCEPT ![id] = None]

(* read_available reaps a session whose shell has exited.  A snapshot or   *)
(* event that cannot be written leaves it registered, to be reaped later.  *)
ReadReaps(id) ==
    /\ sessions[id] # None
    /\ shell[sessions[id]] \in {"exited", "reaped"}
    /\ shell' = [shell EXCEPT ![sessions[id]] = "reaped"]
    /\ \/ Forget(id) /\ UNCHANGED writeErrors
       \/ /\ WriteFails
          /\ status' = [status EXCEPT ![id] = "Exited"]
          /\ UNCHANGED sessions
    /\ UNCHANGED start

(* Input may make the shell exit; only a running session takes it.         *)
WriteInput(id) ==
    /\ status[id] = "Running"
    /\ shell[sessions[id]] = "running"
    /\ shell' = [shell EXCEPT ![sessions[id]] = "exited"]
    /\ UNCHANGED <<sessions, status, start, writeErrors>>

(* stop asks the shell to exit, waits for it, kills it if it must; it may  *)
(* fail before that, or after.                                             *)
Stop(id) ==
    /\ sessions[id] # None
    /\ \/ /\ shell' = [shell EXCEPT ![sessions[id]] = "reaped"]
          /\ Forget(id)
          /\ UNCHANGED writeErrors
       \/ /\ WriteFails
          /\ \/ UNCHANGED shell /\ status' = [status EXCEPT ![id] = "Stopping"]
             \/ /\ shell' = [shell EXCEPT ![sessions[id]] = "reaped"]
                /\ status' \in {[status EXCEPT ![id] = s] : s \in {"Stopping", "Exited"}}
          /\ UNCHANGED sessions
    /\ UNCHANGED start

Next ==
    \/ \E s \in Starts : Start(s) \/ ShellExits(s)
    \/ \E id \in Ids : ReadReaps(id) \/ WriteInput(id) \/ Stop(id)

Spec == Init /\ [][Next]_vars

------------------------------------------------------------------------------
(* Properties                                                              *)

TypeOK ==
    /\ sessions \in [Ids -> Starts \cup {None}]
    /\ status \in [Ids -> {"Running", "Stopping", "Exited", None}]
    /\ shell \in [Starts -> {"none", "running", "exited", "reaped"}]
    /\ \A id \in Ids : (sessions[id] = None) = (status[id] = None)
    /\ \A s \in Starts : start[s].step = "started" => shell[s] # "none"

(* No shell is lost: one that has not been waited for belongs to exactly   *)
(* one registered session, or its start is still under way or gave up on   *)
(* an artifact after the spawn - whatever starts, stops and reads of one   *)
(* id run at the same time, and whichever of them fail.  And no session    *)
(* takes input for a shell that is gone for good.                          *)
NoShellLost ==
    /\ \A s \in Starts :
           shell[s] \in {"running", "exited"} =>
               \/ start[s].step \in {"announce", "register", "abandoned"}
               \/ sessions[start[s].id] = s
    /\ \A id \in Ids : status[id] = "Running" => shell[sessions[id]] # "reaped"
=============================================================================
