------------------------- MODULE MC_TurnSupervisor --------------------------
(***************************************************************************)
(* Instances of TurnSupervisor for TLC.                                    *)
(***************************************************************************)
EXTENDS TurnSupervisor, TLC

CONSTANTS s1, s2, c1, c2

(* The resident drain and explicit ticks of one daemon pass the same        *)
(* supervisor_id, or two different ones.                                    *)
SharedId == [s \in Supervisors |-> "daemon-turn-supervisor"]

NoBudget == [k \in BudgetKinds |-> 0]
ErrorBudget == [NoBudget EXCEPT !["crash"] = 1, !["error"] = 1, !["failureError"] = 1]
SubscribeBudget == [NoBudget EXCEPT !["subscribe"] = 1]
SettleBudget == [NoBudget EXCEPT !["control"] = 1, !["crash"] = 1, !["error"] = 1]
StartBudget == [NoBudget EXCEPT !["startError"] = 2]
CrashBudget == [NoBudget EXCEPT !["crash"] = 1]
PauseBudget == [NoBudget EXCEPT !["control"] = 2]

SupervisorSymmetry == Permutations({s1, s2})
=============================================================================
