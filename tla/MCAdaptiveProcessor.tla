------------------------ MODULE MCAdaptiveProcessor ------------------------
(* AdaptiveProcessor with a few rows of throughput and calculations.         *)
EXTENDS AdaptiveProcessor

============================================================================
