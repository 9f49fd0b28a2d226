------------------------- MODULE MCIngesterConsumer -------------------------
(* Two sessions: of two partitions, or of one that is assigned again after *)
(* its first session is closed.                                            *)
EXTENDS IngesterConsumer

CONSTANTS pA, pB

MCPlans == {<<pA, pA>>, <<pA, pB>>}
=============================================================================
