------------------------------ MODULE MCHeartbeat ------------------------------
(* Heartbeat with two agents, so that one may follow the other.            *)
EXTENDS Heartbeat, TLC
=============================================================================
