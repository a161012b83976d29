----------------------------- MODULE Connectivity -----------------------------
(***************************************************************************)
(* Keepalives against the clock: the ConnectionManager's maintenance and   *)
(* keepalive intervals, the age at which an address is pruned, and what a  *)
(* lossy network does to the addresses the nodes keep of each other.       *)
(*                                                                         *)
(* The handlers are those of ConnectionManager.  One unit of time is 5 s:  *)
(* maintenance_interval ticks every unit, keepalive_interval every second  *)
(* one, and an address is stale after 6.  A datagram that is not lost      *)
(* arrives within its unit.                                                *)
(***************************************************************************)
EXTENDS ConnectionManager

CONSTANTS
  MaintenanceEvery,   \* maintenance_interval in units
  KeepaliveEvery,     \* keepalive_interval in units
  MaxLost             \* how many keepalive rounds of a node in a row get lost

ASSUME PeriodsAssumption ==
  /\ MaintenanceEvery \in Nat \ {0}
  /\ KeepaliveEvery \in Nat \ {0}
  /\ MaxLost \in Nat

VARIABLES
  maintenance,   \* maintenance[n]: units until maintenance_interval ticks
  keepalive,     \* keepalive[n]: units until keepalive_interval ticks
  lost           \* lost[n]: n's keepalives lost since one arrived

timers == <<maintenance, keepalive, lost>>
timedVars == <<vars, timers>>

(* A tokio interval ticks at once and then periodically.  A node without   *)
(* configured peers may have been running for some time, with intervals    *)
(* out of step with those of the others.                                   *)
TimedInit ==
  /\ Init
  /\ maintenance = [n \in Node |-> 0]
  /\ keepalive \in [Node -> 0..(KeepaliveEvery - 1)]
  /\ \A n \in Node : DOMAIN Config[n] # {} => keepalive[n] = 0
  /\ lost = [n \in Node |-> 0]

MaintenanceTick(n) ==
  /\ maintenance[n] = 0
  /\ Maintenance(n)
  /\ maintenance' = [maintenance EXCEPT ![n] = MaintenanceEvery]
  /\ UNCHANGED <<keepalive, lost>>

KeepaliveTick(n) ==
  /\ keepalive[n] = 0
  /\ handle_keepalive(n)
  /\ keepalive' = [keepalive EXCEPT ![n] = KeepaliveEvery]
  /\ UNCHANGED <<maintenance, lost>>

KeepaliveArrives(n, d) ==
  /\ handle_incoming_keepalive(n, d)
  /\ lost' = [lost EXCEPT ![d.msg.peer_id] = 0]
  /\ UNCHANGED <<maintenance, keepalive>>

KeepaliveLost(d) ==
  /\ lost[d.msg.peer_id] < MaxLost
  /\ net' = net \ {d}
  /\ lost' = [lost EXCEPT ![d.msg.peer_id] = @ + 1]
  /\ UNCHANGED <<peers, table, cm, delivered, maintenance, keepalive>>

UnitPasses ==
  /\ net = {}
  /\ \A n \in Node : maintenance[n] > 0 /\ keepalive[n] > 0
  /\ LongTimePasses
  /\ maintenance' = [n \in Node |-> maintenance[n] - 1]
  /\ keepalive' = [n \in Node |-> keepalive[n] - 1]
  /\ UNCHANGED lost

Undisturbed ==
  \/ \E n \in Node : MaintenanceTick(n)
  \/ \E n \in Node : KeepaliveTick(n)
  \/ \E n \in Node : \E d \in net : KeepaliveArrives(n, d)
  \/ UnitPasses

TimedNext == Undisturbed \/ \E d \in net : KeepaliveLost(d)

TimedSpec == TimedInit /\ [][TimedNext]_timedVars

(* Time does not stop, ticks are served, and what is not lost arrives. *)
TimedFairSpec ==
  /\ TimedSpec
  /\ WF_timedVars(UnitPasses)
  /\ \A n \in Node : /\ WF_timedVars(MaintenanceTick(n))
                     /\ WF_timedVars(KeepaliveTick(n))
                     /\ WF_timedVars(\E d \in net : KeepaliveArrives(n, d))

-----------------------------------------------------------------------------
(***************************************************************************)
(* Properties.                                                             *)
(***************************************************************************)

(* "PeerConfig contains information about Peers to which, mpconn should    *)
(* connect": a node never stops sending keepalives to a configured peer.   *)
ConfiguredPeersAreContacted ==
  \A n \in Node : \A p \in DOMAIN Config[n] :
    []<>(\E d \in net : d.to \in Sockets[p] /\ d.msg.peer_id = n)

(* Every configured pair of nodes ends up with routes both ways, although  *)
(* only one of them is configured with the other.                          *)
RoutesBothWays ==
  \A n \in Node : \A p \in DOMAIN Config[n] :
    <>[](TunIp[p] \in DOMAIN table[n] /\ TunIp[n] \in DOMAIN table[p])
=============================================================================
