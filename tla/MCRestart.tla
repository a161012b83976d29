------------------------------ MODULE MCRestart ------------------------------
(* A reliable path and a lossy one. *)
EXTENDS Restart

CONSTANTS p1, p2

MCPaths == {p1, p2}
MCLossy == {p2}
MCPayload == 0..MaxEpoch
=============================================================================
