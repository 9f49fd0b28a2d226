--------------------------- MODULE MCLeaderLease ---------------------------
(* LeaderLease on three collectors.                                          *)
EXTENDS LeaderLease

=============================================================================
