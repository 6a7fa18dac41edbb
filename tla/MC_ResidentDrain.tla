--------------------------- MODULE MC_ResidentDrain ---------------------------
(* Instances of ResidentDrain for TLC.                                     *)
EXTENDS ResidentDrain, TLC

CONSTANTS t1, t2, t3, x1, startup

TwoTurnStarts == {t1, t2}
ThreeTurnStarts == {t1, t2, t3}
OneExplicitTick == {x1}
NoTicks == {}

TurnSymmetry == Permutations(TurnStarts)
==============================================================================
