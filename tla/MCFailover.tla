----------------------------- MODULE MCFailover -----------------------------
(* Model values for TLC.                                                   *)
EXTENDS Failover

Both == BOOLEAN
On == {TRUE}

=============================================================================
