------------------------- MODULE MCConnectionManager -------------------------
(***************************************************************************)
(* Two networks: a client with two remotes and a server with one that      *)
(* tunnel IP packets, and a server with two clients that tunnel Ethernet   *)
(* frames.  As in test_tools, only the clients are configured with a peer. *)
(***************************************************************************)
EXTENDS ConnectionManager, TLC

CONSTANTS C, D, S, c1, c2, d1, s1, hostC, hostD, hostS

MCNone == [p \in {} |-> {}]

MC3Node == {C, S}
MC3Addr == {c1, c2, s1}
MC3Sockets == (C :> {c1, c2}) @@ (S :> {s1})
MC3Config == (C :> (S :> {s1})) @@ (S :> MCNone)
MC3Station == {hostC, hostS}
MC3Home == (hostC :> C) @@ (hostS :> S)
MC3TunIp == (C :> hostC) @@ (S :> hostS)
(* One packet each way and one that is no IPv4 packet. *)
MC3Traffic == {[src |-> hostC, dst |-> hostS], [src |-> hostS, dst |-> hostC],
               [src |-> hostC, dst |-> NoAddress]}
MC3MaxTx == (C :> 2) @@ (S :> 2)
MC3Symmetry == Permutations({c1, c2})

MC2Node == {C, D, S}
MC2Addr == {c1, d1, s1}
MC2Sockets == (C :> {c1}) @@ (D :> {d1}) @@ (S :> {s1})
MC2Config == (C :> (S :> {s1})) @@ (D :> (S :> {s1})) @@ (S :> MCNone)
MC2Station == {hostC, hostD, hostS}
MC2Home == (hostC :> C) @@ (hostD :> D) @@ (hostS :> S)
MC2TunIp == [n \in MC2Node |-> NoAddress]
MC2MaxTx == (C :> 2) @@ (D :> 0) @@ (S :> 1)
(* The host behind C announces itself; the server's host broadcasts to both *)
(* clients and answers; D only listens.                                     *)
MC2Traffic == {[src |-> hostC, dst |-> Broadcast],
               [src |-> hostS, dst |-> hostC], [src |-> hostS, dst |-> Broadcast]}
=============================================================================
