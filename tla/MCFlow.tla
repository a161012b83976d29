------------------------------- MODULE MCFlow -------------------------------
(* Flow with two paths, of which one loses nothing. *)
EXTENDS Flow

CONSTANTS p1, p2, a

MCPaths == {p1, p2}
MCOneReliable == {p2}
MCPayload == {a}
=============================================================================
