-------------------------- MODULE ConnectionManager --------------------------
(***************************************************************************)
(* The ConnectionManager task of every node of a tunnel network            *)
(* (src/src/connection_manager.rs) with its peer list and traffic          *)
(* director, and the datagrams between the nodes' remotes.                 *)
(*                                                                         *)
(* A task handles one event at a time: its select! loop starts a handler   *)
(* only when the previous one has returned.  Handlers that send to peers   *)
(* do not suspend (a broadcast channel's send is not async) and are one    *)
(* step; handlers that release packets suspend at every                    *)
(* packets_to_local.send().await, and the sequencer tick goes through the  *)
(* peers one by one, in the order of a HashMap, that is, in any order.     *)
(***************************************************************************)
EXTENDS PeerList, TrafficDirector, Sequences

CONSTANTS
  Node,       \* the instances, named by their peer_id
  Layer,      \* "Layer2" or "Layer3": the kind of Local all instances use
  Addr,       \* socket addresses
  Sockets,    \* Sockets[n]: the addresses of n's remotes
  Config,     \* Config[n][p]: the addresses of p in n's settings file
  Home,       \* Home[s]: the node behind which station s lives
  TunIp,      \* TunIp[n]: own_tun_ip, a station of n (NoAddress on Layer2)
  Traffic,    \* packets that can be read from a local interface
  Duplicating, \* may the network deliver a datagram more than once?
  MaxTx       \* bound: MaxTx[n] packets from n to any one peer

ASSUME LayerAssumption == Layer \in {"Layer2", "Layer3"}

ASSUME SocketsAssumption ==
  /\ Sockets \in [Node -> SUBSET Addr]
  /\ \A m, n \in Node : m # n => Sockets[m] \cap Sockets[n] = {}

(* The settings files give the right addresses and never the node itself. *)
ASSUME ConfigAssumption ==
  /\ DOMAIN Config = Node
  /\ \A n \in Node :
       /\ DOMAIN Config[n] \subseteq Node \ {n}
       /\ \A p \in DOMAIN Config[n] : Config[n][p] \subseteq Sockets[p]

ASSUME StationsAssumption ==
  /\ Home \in [Station -> Node]
  /\ TunIp \in [Node -> Station \cup {NoAddress}]
  /\ \A n \in Node : TunIp[n] \in Station => Home[TunIp[n]] = n

ASSUME TrafficAssumption ==
  Traffic \subseteq [src : Station \cup {NoAddress},
                     dst : Station \cup {Broadcast, NoAddress}]

ASSUME DuplicatingAssumption == Duplicating \in BOOLEAN

ASSUME MaxTxAssumption == MaxTx \in [Node -> Nat]

VARIABLES
  peers,      \* peers[n]: n's PeerList
  table,      \* table[n]: the table of n's traffic director
  cm,         \* cm[n]: where n's task is
  net,        \* datagrams in flight; one that stays for ever is lost
  delivered   \* delivered[n]: history of what n sent to packets_to_local

vars == <<peers, table, cm, net, delivered>>

(* messages.rs; peer_id is the sender. *)
Packet ==
  [type : {"packet"}, seq : Nat, peer_id : Node, bytes : Traffic]
Keepalive ==
  [type : {"keepalive"}, peer_id : Node, tun_ip : Station \cup {NoAddress}]
Datagram == [from : Addr, to : Addr, msg : Packet \cup Keepalive]

(* Every remote of n sends a copy of msg to every address in dests. *)
Datagrams(n, dests, msg) ==
  {[from |-> a, to |-> b, msg |-> msg] : a \in Sockets[n], b \in dests}

own_keepalive(n) == [type |-> "keepalive", peer_id |-> n, tun_ip |-> TunIp[n]]

(***************************************************************************)
(* Where a task is: in select!; inside the tick with the peers in todo     *)
(* still ahead; sending the packets that peer p's sequencer s releases, on *)
(* arrival of a packet (learn) or inside the tick; or dead.                *)
(***************************************************************************)
Idle(n) == [phase |-> "select", peer |-> n, learn |-> FALSE, todo |-> {}]
Ticking(n, todo) ==
  IF todo = {} THEN Idle(n)
  ELSE [phase |-> "tick", peer |-> n, learn |-> FALSE, todo |-> todo]
Releasing(n, p, s, learn, todo) ==
  IF have_next_packet(s)
  THEN [phase |-> "draining", peer |-> p, learn |-> learn, todo |-> todo]
  ELSE Ticking(n, todo)
Panicked(n) == [phase |-> "panicked", peer |-> n, learn |-> FALSE, todo |-> {}]

Init ==
  /\ peers = [n \in Node |-> NewPeerList(Config[n])]
  /\ table = [n \in Node |-> EmptyTable]
  /\ cm = [n \in Node |-> Idle(n)]
  /\ net = {}
  /\ delivered = [n \in Node |-> << >>]

-----------------------------------------------------------------------------
(***************************************************************************)
(* Packets from the local interface.                                       *)
(***************************************************************************)
Destinations(n, pkt) ==
  IF Layer = "Layer2" THEN get_path(table[n], pkt, DOMAIN peers[n])
  ELSE get_route(table[n], pkt)

TunnelledPackets(n, pkt) ==
  UNION {Datagrams(n, get_peer_connections(peers[n], p),
                   [type |-> "packet", seq |-> peers[n][p].tx_counter,
                    peer_id |-> n, bytes |-> pkt]) : p \in Destinations(n, pkt)}

(* handle_packet_from_local: get_peer_tx_counter unwraps the peer. *)
handle_packet_from_local(n, pkt) ==
  LET dests == Destinations(n, pkt)
  IN  /\ cm[n].phase = "select"
      /\ dests # {}
      /\ \A p \in dests \cap DOMAIN peers[n] : peers[n][p].tx_counter < MaxTx[n]
      /\ IF dests \subseteq DOMAIN peers[n]
         THEN /\ net' = net \cup TunnelledPackets(n, pkt)
              /\ peers' = [peers EXCEPT ![n] = increment_tx_counters(@, dests)]
              /\ UNCHANGED cm
         ELSE /\ cm' = [cm EXCEPT ![n] = Panicked(n)]
              /\ UNCHANGED <<net, peers>>
      /\ UNCHANGED <<table, delivered>>

-----------------------------------------------------------------------------
(***************************************************************************)
(* Datagrams from the remotes (handle_udp_packet).  Bytes that do not      *)
(* decode to a message are dropped and leave no trace in this state.       *)
(***************************************************************************)
After(d) == IF Duplicating THEN net ELSE net \ {d}

Arrives(n, d, type) ==
  /\ cm[n].phase = "select"
  /\ d \in net
  /\ d.to \in Sockets[n]
  /\ d.msg.type = type

(* handle_incoming_packet up to its first await.  A packet from a sender   *)
(* that is not in the peer list is dropped.                                *)
handle_incoming_packet(n, d) ==
  LET p == d.msg.peer_id
      s == insert_packet(peers[n][p].sequencer, d.msg)
  IN  /\ Arrives(n, d, "packet")
      /\ net' = After(d)
      /\ IF p \in DOMAIN peers[n]
         THEN /\ peers' = [peers EXCEPT ![n] = SetSequencer(@, p, s)]
              /\ cm' = [cm EXCEPT ![n] = Releasing(n, p, s, TRUE, {})]
         ELSE UNCHANGED <<peers, cm>>
      /\ UNCHANGED <<table, delivered>>

MutantRoutesSource(n, d) ==        \* the socket's address for the tunnel's
  LET k == d.msg
  IN  /\ Arrives(n, d, "keepalive")
      /\ peers' = [peers EXCEPT ![n] = add_peer(@, k.peer_id, d.from)]
      /\ table' = [table EXCEPT ![n] = insert_route(@, k.peer_id, d.from)]
      /\ UNCHANGED <<net, cm, delivered>>

MutantAddsOwnAddress(n, d) ==      \* the receiving address is taken for the sender's
  LET k == d.msg
  IN  /\ Arrives(n, d, "keepalive")
      /\ peers' = [peers EXCEPT ![n] = add_peer(@, k.peer_id, d.to)]
      /\ UNCHANGED <<net, table, cm, delivered>>

MutantIgnoresKnownRoutes(n, d) ==  \* returns early unless the route is new
  LET k == d.msg
      new == is_new_route(table[n], k.tun_ip)
  IN  /\ Arrives(n, d, "keepalive")
      /\ peers' = [peers EXCEPT ![n] = IF new THEN add_peer(@, k.peer_id, d.from) ELSE @]
      /\ table' = [table EXCEPT ![n] = insert_route(@, k.peer_id, k.tun_ip)]
      /\ net' = After(d)
      /\ UNCHANGED <<cm, delivered>>

(* handle_incoming_keepalive, with handle_instant_keepalive for a sender   *)
(* whose route is new.                                                     *)
handle_incoming_keepalive(n, d) ==
  LET k == d.msg
      routed == Layer = "Layer3" /\ k.tun_ip \in Station
  IN  /\ Arrives(n, d, "keepalive")
      /\ peers' = [peers EXCEPT ![n] = add_peer(@, k.peer_id, d.from)]
      /\ IF routed /\ is_new_route(table[n], k.tun_ip)
         THEN /\ table' = [table EXCEPT ![n] =
                             insert_route(@, k.peer_id, k.tun_ip)]
              /\ net' = After(d) \cup
                   Datagrams(n, get_peer_connections(peers'[n], k.peer_id),
                             own_keepalive(n))
         ELSE /\ net' = After(d)
              /\ UNCHANGED table
      /\ UNCHANGED <<cm, delivered>>

-----------------------------------------------------------------------------
(***************************************************************************)
(* Releasing packets.                                                      *)
(***************************************************************************)

(* A tick that finds no packet past its deadline changes nothing. *)
SequencerTick(n) ==
  /\ cm[n].phase = "select"
  /\ \E p \in DOMAIN peers[n] : /\ is_deadline_exceeded(peers[n][p].sequencer)
                                /\ Keys(peers[n][p].sequencer) # {}
  /\ cm' = [cm EXCEPT ![n] = Ticking(n, DOMAIN peers[n])]
  /\ UNCHANGED <<peers, table, net, delivered>>

(* The tick's loop body for peer p, up to the first await. *)
TickPeer(n, p) ==
  /\ cm[n].phase = "tick"
  /\ p \in cm[n].todo
  /\ IF is_deadline_exceeded(peers[n][p].sequencer)
     THEN LET s == advance_queue(peers[n][p].sequencer)
          IN  /\ peers' = [peers EXCEPT ![n] = SetSequencer(@, p, s)]
              /\ cm' = [cm EXCEPT ![n] = Releasing(n, p, s, FALSE, cm[n].todo \ {p})]
     ELSE /\ cm' = [cm EXCEPT ![n] = Ticking(n, cm[n].todo \ {p})]
          /\ UNCHANGED peers
  /\ UNCHANGED <<table, net, delivered>>

(* One turn of a release loop; only the loop in handle_incoming_packet     *)
(* learns the sender's path, and only on Layer2.                           *)
ReleaseNext(n) ==
  LET p == cm[n].peer
      s == peers[n][p].sequencer
  IN  /\ cm[n].phase = "draining"
      /\ table' = [table EXCEPT ![n] =
           IF Layer = "Layer2" /\ cm[n].learn
           THEN learn_path(@, next_packet(s).peer_id, next_packet(s).bytes)
           ELSE @]
      /\ delivered' = [delivered EXCEPT ![n] = Append(@, next_packet(s))]
      /\ peers' = [peers EXCEPT ![n] = SetSequencer(@, p, get_next_packet(s))]
      /\ cm' = [cm EXCEPT ![n] =
           Releasing(n, p, get_next_packet(s), cm[n].learn, cm[n].todo)]
      /\ UNCHANGED net

-----------------------------------------------------------------------------
(***************************************************************************)
(* Timers and environment.                                                 *)
(***************************************************************************)
Maintenance(n) ==
  /\ cm[n].phase = "select"
  /\ peers' = [peers EXCEPT ![n] = prune_stale_peers(@)]
  /\ UNCHANGED <<table, cm, net, delivered>>

handle_keepalive(n) ==
  /\ cm[n].phase = "select"
  /\ net' = net \cup Datagrams(n, get_all_connections(peers[n]), own_keepalive(n))
  /\ UNCHANGED <<peers, table, cm, delivered>>

MillisecondPasses ==
  /\ peers' = [n \in Node |-> ElapseShort(peers[n])]
  /\ UNCHANGED <<table, cm, net, delivered>>

LongTimePasses ==
  /\ peers' = [n \in Node |-> ElapseLong(peers[n])]
  /\ UNCHANGED <<table, cm, net, delivered>>

Next ==
  \/ \E n \in Node :
       \/ \E pkt \in Traffic :
            /\ pkt.src \in Station => Home[pkt.src] = n
            /\ handle_packet_from_local(n, pkt)
       \/ \E d \in net : handle_incoming_packet(n, d)
       \/ \E d \in net : handle_incoming_keepalive(n, d)
       \/ SequencerTick(n)
       \/ \E p \in Node : TickPeer(n, p)
       \/ ReleaseNext(n)
       \/ Maintenance(n)
       \/ handle_keepalive(n)
  \/ MillisecondPasses
  \/ LongTimePasses

Spec == Init /\ [][Next]_vars

-----------------------------------------------------------------------------
(***************************************************************************)
(* Properties.                                                             *)
(***************************************************************************)
IsPeerList(pl) ==
  /\ DOMAIN pl \subseteq Node
  /\ \A p \in DOMAIN pl : IsPeer(pl[p], Addr, Packet)

TypeOK ==
  /\ DOMAIN peers = Node /\ \A n \in Node : IsPeerList(peers[n])
  /\ DOMAIN table = Node
  /\ \A n \in Node : /\ DOMAIN table[n] \subseteq Station
                     /\ table[n] \in [DOMAIN table[n] -> Node]
  /\ cm \in [Node -> [phase : {"select", "tick", "draining", "panicked"},
                      peer : Node, learn : BOOLEAN, todo : SUBSET Node]]
  /\ net \subseteq Datagram
  /\ delivered \in [Node -> Seq(Packet)]

(* get_peer_tx_counter never unwraps None: a station's entry in the MAC or *)
(* routing table always names a peer that is still in the peer list, also  *)
(* after all of the peer's addresses have been pruned.                     *)
NoPanic == \A n \in Node : cm[n].phase # "panicked"

(* A node sends packets and keepalives for a peer only to that peer: every *)
(* address kept for a peer is one of the peer's own remotes.               *)
AddressesOwned ==
  \A n \in Node : \A p \in DOMAIN peers[n] :
    DOMAIN peers[n][p].connections \subseteq Sockets[p]

(* pkt is for the network behind n, and from the peer it is attributed to. *)
MeantFor(n, pkt) ==
  /\ pkt.bytes.dst \in Station => Home[pkt.bytes.dst] = n
  /\ pkt.bytes.src \in Station => Home[pkt.bytes.src] = pkt.peer_id

(* What comes out of a tunnel was meant for the network behind it, and     *)
(* came from the peer it is attributed to.                                 *)
NoMisdelivery ==
  \A n \in Node : \A i \in DOMAIN delivered[n] : MeantFor(n, delivered[n][i])

(* Each peer's packets come out in the order of its counter, each once,    *)
(* whatever other peers send, and across the loss of all its addresses.    *)
InOrderPerPeer ==
  \A n \in Node : \A i, j \in DOMAIN delivered[n] :
    i < j /\ delivered[n][i].peer_id = delivered[n][j].peer_id
      => delivered[n][i].seq < delivered[n][j].seq

(* From the peer list pl to q no peer is lost and no counter goes back. *)
NotRewound(pl, q) ==
  \A p \in DOMAIN pl :
    /\ p \in DOMAIN q
    /\ q[p].tx_counter >= pl[p].tx_counter
    /\ q[p].sequencer.next_seq >= pl[p].sequencer.next_seq

(* Pruning addresses, hearing from a peer again and being told of new      *)
(* addresses never set a counter back: the two ends of a tunnel would no   *)
(* longer agree on the numbers.                                            *)
CountersNeverRewind == [][\A n \in Node : NotRewound(peers[n], peers'[n])]_vars

(* "Before sending this packet out on the local interface, we first try to *)
(* extract information we can use for routing/switching": on Layer2 the    *)
(* sender of every frame put on the local interface has a path.            *)
SendersAreLearned ==
  Layer = "Layer2" =>
    \A n \in Node : \A i \in DOMAIN delivered[n] :
      delivered[n][i].bytes.src \in Station
        => delivered[n][i].bytes.src \in DOMAIN table[n]

-----------------------------------------------------------------------------
(***************************************************************************)
(* The inductive invariant, node by node: n's peer list pl, its table tb,  *)
(* where its task is, and out, what it has handed over.                    *)
(***************************************************************************)

(* What n keeps of p's packets came from p, is for n and has not passed. *)
QueueCorrect(n, p, s) ==
  \A k \in Keys(s) : /\ k >= s.next_seq
                     /\ s.packet_queue[k].seq = k
                     /\ s.packet_queue[k].peer_id = p
                     /\ MeantFor(n, s.packet_queue[k])

PeersCorrect(n, pl) ==
  /\ IsPeerList(pl)
  /\ \A p \in DOMAIN pl : /\ DOMAIN pl[p].connections \subseteq Sockets[p]
                          /\ QueueCorrect(n, p, pl[p].sequencer)

(* A station's entry names its home, and that is a peer in the list. *)
TableCorrect(pl, tb) ==
  /\ DOMAIN tb \subseteq Station
  /\ tb \in [DOMAIN tb -> Node]
  /\ \A s \in DOMAIN tb : tb[s] = Home[s] /\ tb[s] \in DOMAIN pl

(* A task that releases packets has one to release. *)
TaskCorrect(pl, task) ==
  /\ task \in [phase : {"select", "tick", "draining"},
              peer : Node, learn : BOOLEAN, todo : SUBSET (DOMAIN pl)]
  /\ task.phase = "draining" =>
       task.peer \in DOMAIN pl /\ have_next_packet(pl[task.peer].sequencer)

OutputCorrect(n, pl, out) ==
  /\ out \in Seq(Packet)
  /\ \A i \in DOMAIN out : /\ out[i].peer_id \in DOMAIN pl
                           /\ out[i].seq < pl[out[i].peer_id].sequencer.next_seq
                           /\ MeantFor(n, out[i])
  /\ \A i, j \in DOMAIN out :
       i < j /\ out[i].peer_id = out[j].peer_id => out[i].seq < out[j].seq

NodeCorrect(n, pl, tb, task, out) ==
  /\ PeersCorrect(n, pl)
  /\ TableCorrect(pl, tb)
  /\ TaskCorrect(pl, task)
  /\ OutputCorrect(n, pl, out)

(* A datagram comes from a remote of the node it names, and a packet goes  *)
(* only to the remotes of the node it is for.                              *)
DatagramCorrect(d) ==
  /\ d \in Datagram
  /\ d.from \in Sockets[d.msg.peer_id]
  /\ d.msg.type = "keepalive" => d.msg.tun_ip = TunIp[d.msg.peer_id]
  /\ d.msg.type = "packet" =>
       \A n \in Node : d.to \in Sockets[n] => MeantFor(n, d.msg)

(* Every node has its own state. *)
PerNode ==
  /\ DOMAIN peers = Node /\ DOMAIN table = Node
  /\ cm = [n \in Node |-> cm[n]] /\ delivered = [n \in Node |-> delivered[n]]

Inv ==
  /\ PerNode
  /\ \A n \in Node : NodeCorrect(n, peers[n], table[n], cm[n], delivered[n])
  /\ \A d \in net : DatagramCorrect(d)
=============================================================================
