------------------------------ MODULE AgentLoop -------------------------------
(***************************************************************************)
(* crates/opensks-adapter, agentic.rs: the loop that asks a model driver   *)
(* for its next step until the driver is done or the step budget is spent. *)
(* A step is a sequence of tool calls; each goes through the tool gateway, *)
(* reads and commands take effect at once, writes are planned and applied  *)
(* together at the end of the step.  A cancellation token may be set at    *)
(* any moment, and others write to the workspace too.                      *)
(***************************************************************************)
EXTENDS Integers, Sequences

CONSTANTS
    Paths, Texts,   \* files of the workspace and what may be in them
    Permissions,    \* tool kind -> "Allow", "ReadOnly", "Ask" or "Deny"
    MaxSteps,       \* AgenticConfig.max_steps
    MaxCalls,       \* bound on the calls of one step
    MaxOthers       \* bound on writes of others

VARIABLES
    text,           \* file contents
    cancelled,      \* the cancellation token
    loop,           \* locals of run_agentic_loop_inner
    others,         \* writes of others so far
    wrote           \* history: steps whose patch is in the workspace

vars == <<text, cancelled, loop, others, wrote>>

(* The tools by what they do: "read" stands for everything that only looks *)
(* or is refused later, "command" for what acts at once, "write" for a     *)
(* proposed patch with the whole new text.                                 *)
Call == {[tool |-> "read"], [tool |-> "command"]} \cup [tool : {"write"}, path : Paths, text : Texts]
Steps == UNION {[1..n -> Call] : n \in 1..MaxCalls}

Init ==
    /\ text \in [Paths -> Texts]
    /\ cancelled = FALSE
    /\ loop = [pc |-> "step", step |-> 0, calls |-> <<>>, planned |-> <<>>,
               writeCalls |-> 0, noopWrites |-> 0, otherCalls |-> 0,
               hadApply |-> FALSE, noopSteps |-> 0, applies |-> <<>>, outcome |-> "none"]
    /\ others = 0
    /\ wrote = {}

Set(fields) ==
    loop' = [k \in DOMAIN loop |-> IF k \in DOMAIN fields THEN fields[k] ELSE loop[k]]

Outcome(state) == Set([pc |-> "ended", outcome |-> state])

------------------------------------------------------------------------------
Cancel ==
    /\ ~cancelled
    /\ cancelled' = TRUE
    /\ UNCHANGED <<text, loop, others, wrote>>

OthersWrite ==
    /\ others < MaxOthers
    /\ \E p \in Paths : \E t \in Texts \ {text[p]} : text' = [text EXCEPT ![p] = t]
    /\ others' = others + 1
    /\ UNCHANGED <<cancelled, loop, wrote>>

(* The budget is spent, or the driver is asked for the next step.          *)
BeginStep ==
    /\ loop.pc = "step"
    /\ IF loop.step = MaxSteps THEN Outcome("failed")
       ELSE IF cancelled THEN Outcome("cancelled")
       ELSE Set([pc |-> "driver"])
    /\ UNCHANGED <<text, cancelled, others, wrote>>

(* The driver answers Failed, Final, an empty step or tool calls; an       *)
(* answer that arrives after the cancellation is dropped.                  *)
DriverAnswers ==
    /\ loop.pc = "driver"
    /\ \/ cancelled /\ Outcome("cancelled")
       \/ ~cancelled /\ \E state \in {"failed", "completed"} : Outcome(state)
       \/ ~cancelled /\ Set([pc |-> "step", step |-> loop.step + 1])
       \/ ~cancelled /\ \E calls \in Steps :
              Set([pc |-> "calls", calls |-> calls, planned |-> <<>>,
                   writeCalls |-> 0, noopWrites |-> 0, otherCalls |-> 0])
    /\ UNCHANGED <<text, cancelled, others, wrote>>

(* ToolGateway::decide: Ask is a refusal, and a command counts as a write.  *)
Permitted(c) ==
    \/ Permissions[c.tool] = "Allow"
    \/ Permissions[c.tool] = "ReadOnly" /\ c.tool = "read"

(* ToolGateway::execute: a write is planned from what is on disk now.      *)
ExecuteCall ==
    /\ loop.pc = "calls"
    /\ loop.calls # <<>>
    /\ LET c == Head(loop.calls)
       IN  IF cancelled THEN Outcome("cancelled")
           ELSE IF ~Permitted(c) \/ c.tool # "write"
                THEN Set([calls |-> Tail(loop.calls), otherCalls |-> loop.otherCalls + 1])
           ELSE IF text[c.path] = c.text
                THEN Set([calls |-> Tail(loop.calls), writeCalls |-> loop.writeCalls + 1,
                          noopWrites |-> loop.noopWrites + 1])
           ELSE Set([calls |-> Tail(loop.calls), writeCalls |-> loop.writeCalls + 1,
                     planned |-> Append(loop.planned,
                         [path |-> c.path, before |-> text[c.path], after |-> c.text])])
    /\ UNCHANGED <<text, cancelled, others, wrote>>

(* What the patch engine does with the planned writes, in one step here    *)
(* (module PatchTransaction has the steps): apply them, refuse them as     *)
(* stale or conflicting, or fail.                                          *)
Fresh(planned) ==
    /\ \A i, j \in DOMAIN planned : i # j => planned[i].path # planned[j].path
    /\ \A i \in DOMAIN planned : text[planned[i].path] = planned[i].before

Patched(planned) ==
    [p \in Paths |-> IF \E i \in DOMAIN planned : planned[i].path = p
                     THEN (CHOOSE w \in {planned[i] : i \in DOMAIN planned} : w.path = p).after
                     ELSE text[p]]

Returned(applied) ==
    Set([pc |-> "endStep", hadApply |-> loop.hadApply \/ applied,
         applies |-> Append(loop.applies, [step |-> loop.step, applied |-> applied])])

(* Mutant: a cancellation that arrives during the apply drops its result.  *)
ApplyForgets ==
    /\ loop.pc = "calls"
    /\ loop.calls = <<>>
    /\ IF loop.planned = <<>> THEN Set([pc |-> "endStep"]) /\ UNCHANGED <<text, wrote>>
       ELSE \/ /\ Fresh(loop.planned)
               /\ text' = Patched(loop.planned)
               /\ wrote' = wrote \cup {loop.step}
               /\ IF cancelled THEN Outcome("cancelled") ELSE Returned(TRUE)
            \/ /\ Returned(FALSE) \/ Outcome("failed")
               /\ UNCHANGED <<text, wrote>>
    /\ UNCHANGED <<cancelled, others>>

ApplyPlanned ==
    /\ loop.pc = "calls"
    /\ loop.calls = <<>>
    /\ IF loop.planned = <<>> THEN Set([pc |-> "endStep"]) /\ UNCHANGED <<text, wrote>>
       ELSE IF cancelled THEN Outcome("cancelled") /\ UNCHANGED <<text, wrote>>
       ELSE \/ /\ Fresh(loop.planned)
               /\ text' = Patched(loop.planned)
               /\ wrote' = wrote \cup {loop.step}
               /\ Returned(TRUE)
            \/ /\ ~Fresh(loop.planned) /\ Returned(FALSE)
               /\ UNCHANGED <<text, wrote>>
            \/ /\ Outcome("failed")
               /\ UNCHANGED <<text, wrote>>
    /\ UNCHANGED <<cancelled, others>>

(* Two steps in a row that only write what is there end the loop, once     *)
(* something was applied.                                                  *)
EndStep ==
    LET onlyNoops == /\ loop.writeCalls > 0
                     /\ loop.noopWrites = loop.writeCalls
                     /\ loop.otherCalls = 0
        noopSteps == IF onlyNoops THEN loop.noopSteps + 1 ELSE 0
    IN  /\ loop.pc = "endStep"
        /\ Set([noopSteps |-> noopSteps, step |-> loop.step + 1,
                pc |-> IF loop.hadApply /\ noopSteps >= 2 THEN "ended" ELSE "step",
                outcome |-> IF loop.hadApply /\ noopSteps >= 2 THEN "completed" ELSE loop.outcome])
        /\ UNCHANGED <<text, cancelled, others, wrote>>

Loop == BeginStep \/ DriverAnswers \/ ExecuteCall \/ ApplyPlanned \/ EndStep

Next == Cancel \/ OthersWrite \/ Loop

Spec == Init /\ [][Next]_vars

------------------------------------------------------------------------------
(* Properties                                                              *)

TypeOK ==
    /\ text \in [Paths -> Texts]
    /\ cancelled \in BOOLEAN
    /\ loop.step \in 0..MaxSteps
    /\ Len(loop.planned) + Len(loop.calls) <= MaxCalls
    /\ loop.noopSteps \in 0..MaxSteps
    /\ others \in 0..MaxOthers
    /\ wrote \subseteq 0..MaxSteps

Ended == loop.pc = "ended"

(* The outcome is honest about the workspace: the patches it lists as      *)
(* applied are those the loop put there, whichever way it ended, and a     *)
(* loop that nobody cancelled is not reported as cancelled.                *)
OutcomeListsApplied ==
    Ended =>
        /\ wrote = {loop.applies[i].step : i \in {j \in DOMAIN loop.applies : loop.applies[j].applied}}
        /\ loop.outcome = "cancelled" => cancelled
=============================================================================
