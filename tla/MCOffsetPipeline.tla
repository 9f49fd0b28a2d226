-------------------------- MODULE MCOffsetPipeline --------------------------
(* Two workers, a log of three messages, one retry, two sessions and one   *)
(* crash: completions out of order, across a restart that redelivers.      *)
EXTENDS OffsetPipeline

CONSTANTS w1, w2
=============================================================================
