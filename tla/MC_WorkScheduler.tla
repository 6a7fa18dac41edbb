--------------------------- MODULE MC_WorkScheduler ---------------------------
(* Instance of WorkScheduler for TLC: four items of which three are ready  *)
(* at once, two write to the same paths and two use the same provider.     *)
EXTENDS WorkScheduler

CONSTANTS a, b, c, d, w

FourItems == {a, b, c, d}
Dependencies == [i \in FourItems |-> IF i = c THEN {a} ELSE {}]
Ranks == [i \in FourItems |-> CASE i = a -> 1 [] i = b -> 2 [] i = c -> 3 [] i = d -> 4]
Overlaps == {<<a, b>>, <<b, a>>}
Pools == [i \in FourItems |-> IF i \in {b, c} THEN "provider" ELSE "none"]
==============================================================================
