----------------------------- MODULE MCReconnect -----------------------------
(* The client and the server of MCConnectivity.  The client may be down for *)
(* longer than stale_time_limit, the server only for a shorter time.        *)
EXTENDS MCConnectivity, Reconnect

MCMaxDown == (C :> 8) @@ (S :> 1)
=============================================================================
