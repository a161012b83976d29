------------------------------- MODULE MCLocal -------------------------------
(* The second of the packets for the interface is too long for it. *)
EXTENDS Local

MCTooLong == {2}
=============================================================================
