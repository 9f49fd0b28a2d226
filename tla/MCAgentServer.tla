---------------------------- MODULE MCAgentServer ---------------------------
(* Two processors, a queue of one packet and as many buffers as can be in   *)
(* use at once.                                                             *)
EXTENDS AgentServer

CONSTANTS p1, p2, b1, b2, b3, b4
=============================================================================
