--------------------------- MODULE MCConnectivity ---------------------------
(* A client that is configured with a server, one remote each. *)
EXTENDS Connectivity, TLC

CONSTANTS C, S, c1, s1, hostC, hostS

MCNode == {C, S}
MCAddr == {c1, s1}
MCSockets == (C :> {c1}) @@ (S :> {s1})
MCConfig == (C :> (S :> {s1})) @@ (S :> [p \in {} |-> {}])
MCStation == {hostC, hostS}
MCHome == (hostC :> C) @@ (hostS :> S)
MCTunIp == (C :> hostC) @@ (S :> hostS)
MCNoTraffic == {}
MCMaxTx == [n \in MCNode |-> 0]
=============================================================================
