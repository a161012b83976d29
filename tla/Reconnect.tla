------------------------------ MODULE Reconnect ------------------------------
(***************************************************************************)
(* Connectivity with instances that stop and are started again: a started  *)
(* instance knows what its settings file says, the others still have what  *)
(* they had learned, unless it went stale in the meantime.                 *)
(*                                                                         *)
(* The timers of a stopped node count the units until it is started.       *)
(* Faults do not add up: keepalives are lost until a node stops, and it    *)
(* stops when the last keepalive of every node has arrived.                *)
(***************************************************************************)
EXTENDS Connectivity

CONSTANTS
  MaxDown,    \* MaxDown[n]: the longest time n is down, in units
  MaxStops    \* bound: number of stops of a node

ASSUME StopsAssumption == MaxDown \in [Node -> Nat] /\ MaxStops \in Nat

VARIABLE stops    \* stops[n]: stops of n so far

allVars == <<timedVars, stops>>

Down(n) == cm[n].phase = "panicked"

ReconnectInit == TimedInit /\ stops = [n \in Node |-> 0]

(* The process ends: by a panic, a signal or a reboot. *)
Stop(n, units) ==
  /\ ~Down(n)
  /\ stops[n] < MaxStops
  /\ \A m \in Node : lost[m] = 0
  /\ stops' = [stops EXCEPT ![n] = @ + 1]
  /\ cm' = [cm EXCEPT ![n] = Panicked(n)]
  /\ maintenance' = [maintenance EXCEPT ![n] = units]
  /\ keepalive' = [keepalive EXCEPT ![n] = units]
  /\ UNCHANGED <<peers, table, net, delivered, lost>>

(* ConnectionManager::new in a new process. *)
Start(n) ==
  /\ Down(n)
  /\ maintenance[n] = 0
  /\ peers' = [peers EXCEPT ![n] = NewPeerList(Config[n])]
  /\ table' = [table EXCEPT ![n] = EmptyTable]
  /\ cm' = [cm EXCEPT ![n] = Idle(n)]
  /\ UNCHANGED <<net, delivered, timers, stops>>

(* A datagram for a node that is down. *)
NobodyReceives(d) ==
  /\ \E n \in Node : Down(n) /\ d.to \in Sockets[n]
  /\ net' = net \ {d}
  /\ UNCHANGED <<peers, table, cm, delivered, timers, stops>>

ReconnectNext ==
  \/ Undisturbed /\ UNCHANGED stops
  \/ /\ \A n \in Node : stops[n] = 0
     /\ \E d \in net : KeepaliveLost(d)
     /\ UNCHANGED stops
  \/ \E n \in Node : \E units \in 1..MaxDown[n] : Stop(n, units)
  \/ \E n \in Node : Start(n)
  \/ \E d \in net : NobodyReceives(d)

ReconnectSpec == ReconnectInit /\ [][ReconnectNext]_allVars

(* As in Connectivity; a node that stopped is started when its time is up, *)
(* and nothing need stop.                                                  *)
ReconnectFairSpec ==
  /\ ReconnectSpec
  /\ WF_allVars(UnitPasses /\ UNCHANGED stops)
  /\ WF_allVars(\E d \in net : NobodyReceives(d))
  /\ \A n \in Node :
       /\ WF_allVars(Start(n))
       /\ WF_allVars(MaintenanceTick(n) /\ UNCHANGED stops)
       /\ WF_allVars(KeepaliveTick(n) /\ UNCHANGED stops)
       /\ WF_allVars((\E d \in net : KeepaliveArrives(n, d)) /\ UNCHANGED stops)

-----------------------------------------------------------------------------
(***************************************************************************)
(* Properties.  RoutesBothWays and ConfiguredPeersAreContacted of          *)
(* Connectivity are expected to hold in spite of the faults.               *)
(***************************************************************************)

(* A node that runs never prunes an address of a peer that has not been    *)
(* down, whatever the order in which ticks and datagrams that are due at   *)
(* the same time are served, and whether the node was itself restarted.    *)
AddressesKept ==
  [][\A n \in Node : \A p \in DOMAIN peers[n] :
       ~Down(n) /\ stops[p] = 0 =>
         get_peer_connections(peers[n], p) \subseteq
           get_peer_connections(peers'[n], p)]_allVars
=============================================================================
