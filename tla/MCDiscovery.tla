---------------------------- MODULE MCDiscovery ----------------------------
(* Discovery with two collectors.                                            *)
EXTENDS Discovery

\* The addresses hash to different scores.
ScoreDef == [i \in Instance |-> IF i = CHOOSE j \in Instance : TRUE THEN 0 ELSE 1]

============================================================================
