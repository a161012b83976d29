--------------------------------- MODULE Mesh ---------------------------------
(***************************************************************************)
(* ConnectionManager with a record of what each node has tunnelled to each *)
(* other node and handed over from it.  Between every two nodes there is a *)
(* tunnel in the sense of Tunnel, although the nodes' traffic shares       *)
(* sockets, tasks and local interfaces, broadcast frames share counters    *)
(* with unicast ones, and nodes become known and lose their addresses in   *)
(* the middle of it.                                                       *)
(***************************************************************************)
EXTENDS ConnectionManager

VARIABLES
  tunnelled,  \* tunnelled[m][n]: what m sent to n under a number, in order
  handed,     \* handed[m][n]: what n put on its local interface for m, in order
  position    \* position[m][n]: index in tunnelled of the last of it, 0 if none

record == <<tunnelled, handed, position>>

MeshInit ==
  /\ Init
  /\ tunnelled = [m \in Node |-> [n \in Node |-> << >>]]
  /\ handed = [m \in Node |-> [n \in Node |-> << >>]]
  /\ position = [m \in Node |-> [n \in Node |-> 0]]

RecordedPacket(m, pkt) ==
  /\ pkt.src \in Station => Home[pkt.src] = m
  /\ handle_packet_from_local(m, pkt)
  /\ tunnelled' = [tunnelled EXCEPT ![m] = [n \in Node |->
       IF n \in Destinations(m, pkt) THEN Append(@[n], pkt) ELSE @[n]]]
  /\ UNCHANGED <<handed, position>>

RecordedRelease(n) ==
  LET pkt == next_packet(peers[n][cm[n].peer].sequencer)
  IN  /\ ReleaseNext(n)
      /\ handed' = [handed EXCEPT ![pkt.peer_id][n] = Append(@, pkt.bytes)]
      /\ position' = [position EXCEPT ![pkt.peer_id][n] = pkt.seq + 1]
      /\ UNCHANGED tunnelled

(* The steps that neither number a packet nor hand one over. *)
Silent ==
  \/ \E n \in Node :
       \/ \E d \in net : handle_incoming_packet(n, d)
       \/ \E d \in net : handle_incoming_keepalive(n, d)
       \/ SequencerTick(n)
       \/ \E p \in Node : TickPeer(n, p)
       \/ Maintenance(n)
       \/ handle_keepalive(n)
  \/ MillisecondPasses
  \/ LongTimePasses

MeshNext ==
  \/ \E m \in Node : \E pkt \in Traffic : RecordedPacket(m, pkt)
  \/ \E n \in Node : RecordedRelease(n)
  \/ Silent /\ UNCHANGED record

MeshSpec == MeshInit /\ [][MeshNext]_<<vars, record>>

-----------------------------------------------------------------------------
(***************************************************************************)
(* Properties.                                                             *)
(***************************************************************************)
T(m, n) == INSTANCE Tunnel
  WITH Payload <- Traffic, sent <- tunnelled[m][n],
       received <- handed[m][n], last <- position[m][n]

(* Every ordered pair of nodes implements the abstract tunnel: T(m, n)!Spec *)
(* for all m and n, whose variables change only with these two.  Frames of  *)
(* a peer come out in order, unaltered and once, however the rest goes.     *)
EveryPairIsATunnel ==
  /\ \A m \in Node : \A n \in Node \ {m} : T(m, n)!Init
  /\ [][\A m \in Node : \A n \in Node \ {m} :
          T(m, n)!Next \/ UNCHANGED T(m, n)!tunnelVars]_<<vars, record>>

-----------------------------------------------------------------------------
(***************************************************************************)
(* The inductive invariant, pair by pair.                                  *)
(***************************************************************************)

(* The peer list's counters for p, and the packets from p that it keeps.   *)
TxCounter(pl, p) == IF p \in DOMAIN pl THEN pl[p].tx_counter ELSE 0
NextSeq(pl, p) == IF p \in DOMAIN pl THEN pl[p].sequencer.next_seq ELSE 0
Kept(pl, p) ==
  IF p \in DOMAIN pl
  THEN {pl[p].sequencer.packet_queue[k] : k \in Keys(pl[p].sequencer)} ELSE {}

(* The packets of m on their way to n. *)
InFlight(datagrams, m, n) ==
  {d.msg : d \in {e \in datagrams : /\ e.msg.type = "packet"
                                    /\ e.msg.peer_id = m
                                    /\ e.to \in Sockets[n]}}

(* pkt is what was sent under its number. *)
Genuine(pkt, sent) == pkt.seq < Len(sent) /\ pkt.bytes = sent[pkt.seq + 1]

(* m's counter counts what it sent to n; copies on their way and in n's    *)
(* queue are what was sent; and n's sequencer is past what was handed over. *)
PairCorrect(m, n) ==
  /\ Len(tunnelled[m][n]) = TxCounter(peers[m], n)
  /\ position[m][n] <= NextSeq(peers[n], m)
  /\ \A pkt \in InFlight(net, m, n) \cup Kept(peers[n], m) :
       Genuine(pkt, tunnelled[m][n])

MeshInv ==
  /\ Inv
  /\ tunnelled \in [Node -> [Node -> Seq(Traffic)]]
  /\ handed \in [Node -> [Node -> Seq(Traffic)]]
  /\ position \in [Node -> [Node -> Nat]]
  /\ \A m, n \in Node : PairCorrect(m, n)
=============================================================================
