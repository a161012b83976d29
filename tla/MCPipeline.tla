----------------------------- MODULE MCPipeline -----------------------------
(* One instance with two remotes. *)
EXTENDS Pipeline

CONSTANTS r1, r2

MCRemote == {r1, r2}
MCCopies == {0, 1}
MCEveryone == Task
MCNobody == {}
=============================================================================
