------------------------------- MODULE MCFanout -------------------------------
(* A UDP and an Lz4 remote, and peers with three addresses. *)
EXTENDS FanoutHistory

CONSTANTS r1, r2, a, b, c

MCRemote == {r1, r2}
MCOneLz4 == {r2}
MCNone == {}
MCFailing == {r2}
MCAddr == {a, b, c}
MCRound == <<a, b, c>>
MCTraffic == {<<c>>}
(* Each remote hears both kinds of peers. *)
MCArriving == [r \in MCRemote |->
  IF r = r1 THEN {[lz4 |-> FALSE, content |-> "message"], [lz4 |-> TRUE, content |-> "message"]}
            ELSE {[lz4 |-> TRUE, content |-> "message"], [lz4 |-> TRUE, content |-> "garbage"],
                  [lz4 |-> FALSE, content |-> "message"]}]
(* Both remotes hear a peer that does not compress. *)
MCArrivingPlain == [r \in MCRemote |-> [lz4 : {FALSE}, content : Content]]
MCNoRoute == [r \in MCRemote |-> IF r = r1 THEN {a} ELSE {}]
=============================================================================
