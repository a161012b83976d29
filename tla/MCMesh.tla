-------------------------------- MODULE MCMesh --------------------------------
(***************************************************************************)
(* The Layer2 network of MCConnectionManager, with the record.  Once the   *)
(* host behind C has heard the server's host, it also sends to it alone.   *)
(***************************************************************************)
EXTENDS MCConnectionManager, Mesh

MCTraffic == MC2Traffic \cup {[src |-> hostC, dst |-> hostS]}
=============================================================================
