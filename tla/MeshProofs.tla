------------------------------ MODULE MeshProofs ------------------------------
(***************************************************************************)
(* Every two of any number of nodes implement the abstract tunnel of       *)
(* Tunnel, whatever the other nodes do: proofs about Mesh.                 *)
(***************************************************************************)
EXTENDS Mesh, ConnectionManagerProofs

(* A packet stays what was sent under its number when more is sent. *)
LEMMA GenuineKept ==
  ASSUME NEW sent \in Seq(Traffic), NEW b \in Traffic,
         NEW pkt \in Packet, Genuine(pkt, sent)
  PROVE  Genuine(pkt, Append(sent, b))
<1>1. /\ Len(sent) \in Nat /\ Len(Append(sent, b)) = Len(sent) + 1
      /\ \A i \in 1..Len(sent) : Append(sent, b)[i] = sent[i]
  BY AppendProperties, LenProperties
<1>2. pkt.seq \in Nat /\ pkt.seq < Len(sent) /\ pkt.bytes = sent[pkt.seq + 1]
  BY DEF Genuine, Packet
<1>3. pkt.seq + 1 \in 1..Len(sent) /\ pkt.seq < Len(sent) + 1
  BY <1>1, <1>2
<1>. QED  BY <1>1, <1>2, <1>3 DEF Genuine

(* The packet that is sent next. *)
LEMMA GenuineNext ==
  ASSUME NEW sent \in Seq(Traffic), NEW b \in Traffic,
         NEW pkt, pkt.seq = Len(sent), pkt.bytes = b
  PROVE  Genuine(pkt, Append(sent, b))
<1>1. /\ Len(sent) \in Nat /\ Len(Append(sent, b)) = Len(sent) + 1
      /\ Append(sent, b)[Len(sent) + 1] = b
  BY AppendProperties, LenProperties
<1>2. Len(sent) < Len(sent) + 1
  BY <1>1
<1>. QED  BY <1>1, <1>2 DEF Genuine

(* What is on its way or kept is a packet. *)
LEMMA PendingPackets ==
  ASSUME Inv, NEW m \in Node, NEW n \in Node,
         NEW pkt \in InFlight(net, m, n) \cup Kept(peers[n], m)
  PROVE  pkt \in Packet
<1>1. CASE pkt \in InFlight(net, m, n)
  <2>1. PICK d \in net : d.msg.type = "packet" /\ pkt = d.msg
    BY <1>1 DEF InFlight
  <2>2. d.msg \in Packet \cup Keepalive
    BY DEF Inv, DatagramCorrect, Datagram
  <2>. QED  BY <2>1, <2>2 DEF Keepalive
<1>2. CASE pkt \in Kept(peers[n], m)
  <2>. DEFINE s == peers[n][m].sequencer
  <2>1. m \in DOMAIN peers[n] /\ \E k \in Keys(s) : pkt = s.packet_queue[k]
    BY <1>2 DEF Kept
  <2>2. IsSequencer(s, Packet)
    BY <2>1, PeerFields DEF Inv, NodeCorrect, PeersCorrect, IsPeerList
  <2>. QED  BY <2>1, <2>2 DEF IsSequencer, Keys
<1>. QED  BY <1>1, <1>2

(* The counters of a peer list. *)
LEMMA CounterTypes ==
  ASSUME NEW pl, IsPeerList(pl), NEW p
  PROVE  TxCounter(pl, p) \in Nat /\ NextSeq(pl, p) \in Nat
<1>1. \A i \in DOMAIN pl : pl[i].tx_counter \in Nat /\ pl[i].sequencer.next_seq \in Nat
  BY PeerFields DEF IsPeerList
<1>. QED  BY <1>1 DEF TxCounter, NextSeq

(* next_seq does not go back, and a new peer's is at least 0. *)
LEMMA NextSeqGrows ==
  ASSUME NEW pl, NEW q, IsPeerList(q), NotRewound(pl, q), NEW p
  PROVE  NextSeq(pl, p) <= NextSeq(q, p)
<1>1. NextSeq(q, p) \in Nat
  BY CounterTypes
<1>2. CASE p \in DOMAIN pl
  BY <1>2 DEF NextSeq, NotRewound
<1>3. CASE p \notin DOMAIN pl
  <2>1. NextSeq(pl, p) = 0
    BY <1>3 DEF NextSeq
  <2>. QED  BY <1>1, <2>1
<1>. QED  BY <1>2, <1>3
-----------------------------------------------------------------------------
(***************************************************************************)
(* Steps that number no packet.                                            *)
(***************************************************************************)

(* From the peer list pl to q no counter for sending changes, and the      *)
(* packets kept from m were kept before or are in more.                    *)
Quiet(pl, q, m, more) ==
  /\ TxCounter(q, m) = TxCounter(pl, m)
  /\ Kept(q, m) \subseteq Kept(pl, m) \cup more

QuietAt(n) == \A m \in Node : Quiet(peers[n], peers'[n], m, InFlight(net, m, n))

QuietNet == \A m, n \in Node : InFlight(net', m, n) \subseteq InFlight(net, m, n)

(* Nothing but keepalives is sent. *)
LEMMA OnlyKeepalives ==
  ASSUME \A d \in net' : d \in net \/ d.msg.type # "packet"
  PROVE  QuietNet
BY DEF QuietNet, InFlight

(* A peer list in which counters and queues are as before. *)
LEMMA SamePeersQuiet ==
  ASSUME NEW pl, NEW q, DOMAIN q = DOMAIN pl,
         \A p \in DOMAIN pl :
           /\ q[p].tx_counter = pl[p].tx_counter
           /\ q[p].sequencer.packet_queue = pl[p].sequencer.packet_queue,
         NEW m, NEW more
  PROVE  Quiet(pl, q, m, more)
BY DEF Quiet, TxCounter, Kept, Keys

(* The sequencer s keeps no packets but those of r and more. *)
NoneBut(r, more, s) ==
  \A k \in Keys(s) : \/ s.packet_queue[k] \in more
                     \/ k \in Keys(r) /\ s.packet_queue[k] = r.packet_queue[k]

(* One peer's sequencer is replaced. *)
LEMMA SequencerQuiet ==
  ASSUME NEW pl, IsPeerList(pl), NEW p \in DOMAIN pl, NEW s, IsSequencer(s, Packet),
         NEW q, q = SetSequencer(pl, p, s), NEW more,
         NoneBut(pl[p].sequencer, more, s),
         NEW m, NEW also, m = p => more \subseteq also
  PROVE  Quiet(pl, q, m, also)
<1>1. /\ DOMAIN q = DOMAIN pl /\ q[p].sequencer = s
      /\ \A i \in DOMAIN pl : q[i].tx_counter = pl[i].tx_counter
      /\ \A i \in DOMAIN pl \ {p} : q[i].sequencer = pl[i].sequencer
  BY SetSequencerFacts
<1>2. TxCounter(q, m) = TxCounter(pl, m)
  BY <1>1 DEF TxCounter
<1>3. CASE m = p
  <2>1. Kept(q, m) = {s.packet_queue[k] : k \in Keys(s)}
        /\ Kept(pl, m) = {pl[p].sequencer.packet_queue[k] : k \in Keys(pl[p].sequencer)}
    BY <1>1, <1>3 DEF Kept
  <2>. QED  BY <1>2, <1>3, <2>1 DEF Quiet, NoneBut
<1>4. CASE m # p
  BY <1>1, <1>2, <1>4 DEF Quiet, Kept
<1>. QED  BY <1>3, <1>4

(* One peer's sequencer is replaced by one that keeps nothing new. *)
LEMMA SameSequencerQuiet ==
  ASSUME NEW pl, IsPeerList(pl), NEW p \in DOMAIN pl, NEW s, IsSequencer(s, Packet),
         NEW q, q = SetSequencer(pl, p, s), NoneBut(pl[p].sequencer, {}, s),
         NEW m, NEW also
  PROVE  Quiet(pl, q, m, also)
<1>1. PICK none : none = {}
  OBVIOUS
<1>2. NoneBut(pl[p].sequencer, none, s) /\ none \subseteq also
  BY <1>1
<1>. QED  BY <1>2, SequencerQuiet

(* A new peer has no packets. *)
LEMMA NewPeerQuiet ==
  ASSUME NEW pl, NEW q, NEW id, NEW a, OneAddressMore(pl, id, a, q), NEW m, NEW more
  PROVE  Quiet(pl, q, m, more)
<1>1. Keys(NewSequencer) = {}
  BY NewSequencerFacts
<1>. QED  BY <1>1 DEF OneAddressMore, Quiet, TxCounter, Kept

(* A step of n: the other nodes' peer lists stay as they are. *)
LEMMA OthersQuiet ==
  ASSUME NEW n \in Node, OnlyNode(n), QuietAt(n)
  PROVE  \A x \in Node : QuietAt(x)
<1>. SUFFICES ASSUME NEW x \in Node, x # n, NEW m \in Node
              PROVE  Quiet(peers[x], peers'[x], m, InFlight(net, m, x))
  BY DEF QuietAt
<1>1. peers'[x] = peers[x]
  BY DEF OnlyNode
<1>. QED  BY <1>1, SamePeersQuiet

(* A packet that arrives was in flight. *)
LEMMA IncomingPacketQuiet ==
  ASSUME Inv, NEW n \in Node, NEW d \in net, handle_incoming_packet(n, d)
  PROVE  (\A x \in Node : QuietAt(x)) /\ QuietNet
<1>p. PICK p : p = d.msg.peer_id
  OBVIOUS
<1>r. PICK r : r = peers[n][p].sequencer
  OBVIOUS
<1>s. PICK s : s = insert_packet(r, d.msg)
  OBVIOUS
<1>q. PICK q : q = SetSequencer(peers[n], p, s)
  OBVIOUS
<1>1. OnlyNode(n) /\ PerNode /\ IsPeerList(peers[n])
  BY IncomingPacketKeeps DEF Inv, NodeCorrect, PeersCorrect
<1>2. /\ Arrives(n, d, "packet") /\ net' = After(d)
      /\ p \in DOMAIN peers[n] => peers' = [peers EXCEPT ![n] = q]
      /\ p \notin DOMAIN peers[n] => UNCHANGED peers
  BY <1>p, <1>r, <1>s, <1>q, Zenon DEF handle_incoming_packet
<1>3. p \in Node /\ d.msg \in Packet /\ After(d) \subseteq net
  BY <1>p, <1>2, ArrivalFacts
<1>4. QuietNet
  BY <1>2, <1>3, OnlyKeepalives
<1>5. d.msg \in InFlight(net, p, n)
  BY <1>p, <1>2 DEF Arrives, InFlight
<1>6. QuietAt(n)
  <2>. SUFFICES ASSUME NEW m \in Node
                PROVE  Quiet(peers[n], peers'[n], m, InFlight(net, m, n))
    BY DEF QuietAt
  <2>1. CASE p \notin DOMAIN peers[n]
    BY <1>2, <2>1, SamePeersQuiet
  <2>2. CASE p \in DOMAIN peers[n]
    <3>1. peers'[n] = q
      BY <1>1, <1>2, <2>2 DEF PerNode
    <3>2. IsSequencer(r, Packet)
      BY <1>1, <1>r, <2>2, PeerFields DEF IsPeerList
    <3>3. d.msg.seq \in Nat
      BY <1>3 DEF Packet
    <3>4. /\ IsSequencer(s, Packet)
          /\ \A k \in Keys(r) : s.packet_queue[k] = r.packet_queue[k]
          /\ \A k \in Keys(s) \ Keys(r) : s.packet_queue[k] = d.msg
      BY <1>3, <1>s, <3>2, <3>3, InsertFacts
    <3>. DEFINE new == {d.msg}
    <3>5. NoneBut(peers[n][p].sequencer, new, s)
      BY <1>r, <3>4 DEF NoneBut
    <3>6. m = p => new \subseteq InFlight(net, m, n)
      BY <1>5
    <3>. HIDE DEF new
    <3>7. Quiet(peers[n], q, m, InFlight(net, m, n))
      BY <1>1, <1>q, <2>2, <3>4, <3>5, <3>6, SequencerQuiet
    <3>. QED  BY <3>1, <3>7
  <2>. QED  BY <2>1, <2>2
<1>. QED  BY <1>1, <1>4, <1>6, OthersQuiet

(* A keepalive brings no packet. *)
LEMMA IncomingKeepaliveQuiet ==
  ASSUME Inv, NEW n \in Node, NEW d \in net, handle_incoming_keepalive(n, d)
  PROVE  (\A x \in Node : QuietAt(x)) /\ QuietNet
<1>. DEFINE q == add_peer(peers[n], d.msg.peer_id, d.from)
<1>1. OnlyNode(n) /\ PerNode /\ IsPeerList(peers[n])
  BY IncomingKeepaliveKeeps DEF Inv, NodeCorrect, PeersCorrect
<1>2. /\ Arrives(n, d, "keepalive")
      /\ peers' = [peers EXCEPT ![n] = q]
      /\ \E dests : net' \subseteq After(d) \cup Datagrams(n, dests, own_keepalive(n))
  BY DEF handle_incoming_keepalive
<1>3. d.msg.peer_id \in Node /\ d.from \in Addr /\ After(d) \subseteq net
  BY <1>2, ArrivalFacts
<1>4. QuietNet
  <2>1. \A dests : \A e \in Datagrams(n, dests, own_keepalive(n)) : e.msg.type # "packet"
    BY DEF Datagrams, own_keepalive
  <2>. QED  BY <1>2, <1>3, <2>1, OnlyKeepalives
<1>5. peers'[n] = q
  BY <1>1, <1>2 DEF PerNode
<1>6. OneAddressMore(peers[n], d.msg.peer_id, d.from, q)
  BY <1>1, <1>3, AddPeerFacts
<1>7. QuietAt(n)
  BY <1>5, <1>6, NewPeerQuiet DEF QuietAt
<1>. QED  BY <1>1, <1>4, <1>7, OthersQuiet

(* The deadline moves next_seq only. *)
LEMMA TickPeerQuiet ==
  ASSUME Inv, NEW n \in Node, NEW p \in Node, TickPeer(n, p)
  PROVE  (\A x \in Node : QuietAt(x)) /\ QuietNet
<1>. DEFINE r == peers[n][p].sequencer
            s == advance_queue(r)
            q == SetSequencer(peers[n], p, s)
<1>1. OnlyNode(n) /\ PerNode /\ IsPeerList(peers[n])
  BY TickPeerKeeps DEF Inv, NodeCorrect, PeersCorrect
<1>2. /\ p \in cm[n].todo /\ UNCHANGED net
      /\ peers' = [peers EXCEPT ![n] = q] \/ UNCHANGED peers
  BY DEF TickPeer
<1>3. p \in DOMAIN peers[n]
  BY <1>2 DEF Inv, NodeCorrect, TaskCorrect
<1>4. QuietNet
  BY <1>2, OnlyKeepalives
<1>5. IsSequencer(r, Packet)
  BY <1>1, <1>3, PeerFields DEF IsPeerList
<1>6. IsSequencer(s, Packet) /\ Keys(s) = Keys(r) /\ s.packet_queue = r.packet_queue
  BY <1>5, AdvanceFacts
<1>. HIDE DEF s
<1>7. ASSUME NEW m \in Node
      PROVE  Quiet(peers[n], peers'[n], m, InFlight(net, m, n))
  <2>1. CASE UNCHANGED peers
    BY <2>1, SamePeersQuiet
  <2>2. CASE peers' = [peers EXCEPT ![n] = q]
    <3>1. peers'[n] = q
      BY <1>1, <2>2 DEF PerNode
    <3>2. NoneBut(r, {}, s)
      BY <1>6 DEF NoneBut
    <3>3. Quiet(peers[n], q, m, InFlight(net, m, n))
      BY <1>1, <1>3, <1>6, <3>2, SameSequencerQuiet
    <3>. QED  BY <3>1, <3>3
  <2>. QED  BY <1>2, <2>1, <2>2
<1>. QED  BY <1>1, <1>4, <1>7, OthersQuiet DEF QuietAt

(* A packet that is handed over is no longer kept. *)
LEMMA ReleaseQuiet ==
  ASSUME Inv, NEW n \in Node, ReleaseNext(n)
  PROVE  (\A x \in Node : QuietAt(x)) /\ QuietNet
<1>p. PICK p : p = cm[n].peer
  OBVIOUS
<1>r. PICK r : r = peers[n][p].sequencer
  OBVIOUS
<1>s. PICK s : s = get_next_packet(r)
  OBVIOUS
<1>q. PICK q : q = SetSequencer(peers[n], p, s)
  OBVIOUS
<1>1. OnlyNode(n) /\ PerNode /\ IsPeerList(peers[n])
  BY ReleaseKeeps DEF Inv, NodeCorrect, PeersCorrect
<1>2. cm[n].phase = "draining" /\ UNCHANGED net /\ peers' = [peers EXCEPT ![n] = q]
  BY <1>p, <1>r, <1>s, <1>q, Zenon DEF ReleaseNext
<1>3. p \in DOMAIN peers[n] /\ have_next_packet(r)
  BY <1>p, <1>r, <1>2 DEF Inv, NodeCorrect, TaskCorrect
<1>4. QuietNet
  BY <1>2, OnlyKeepalives
<1>5. IsSequencer(r, Packet)
  BY <1>r, <1>1, <1>3, PeerFields DEF IsPeerList
<1>6. /\ IsSequencer(s, Packet)
      /\ Keys(s) \subseteq Keys(r)
      /\ \A k \in Keys(s) : s.packet_queue[k] = r.packet_queue[k]
  BY <1>s, <1>3, <1>5, GetNextFacts
<1>7. NoneBut(r, {}, s)
  BY <1>6 DEF NoneBut
<1>8. peers'[n] = q
  BY <1>1, <1>2 DEF PerNode
<1>9. ASSUME NEW m \in Node
      PROVE  Quiet(peers[n], peers'[n], m, InFlight(net, m, n))
  <2>1. Quiet(peers[n], q, m, InFlight(net, m, n))
    BY <1>r, <1>q, <1>1, <1>3, <1>6, <1>7, SameSequencerQuiet
  <2>. QED  BY <1>8, <2>1
<1>. QED  BY <1>1, <1>4, <1>9, OthersQuiet DEF QuietAt

(* Pruning touches neither counters nor queues. *)
LEMMA MaintenanceQuiet ==
  ASSUME Inv, NEW n \in Node, Maintenance(n)
  PROVE  (\A x \in Node : QuietAt(x)) /\ QuietNet
<1>. DEFINE q == prune_stale_peers(peers[n])
<1>1. OnlyNode(n) /\ PerNode /\ IsPeerList(peers[n])
  BY MaintenanceKeeps DEF Inv, NodeCorrect, PeersCorrect
<1>2. peers' = [peers EXCEPT ![n] = q] /\ UNCHANGED net
  BY DEF Maintenance
<1>3. peers'[n] = q
  BY <1>1, <1>2 DEF PerNode
<1>4. /\ DOMAIN q = DOMAIN peers[n]
      /\ \A p \in DOMAIN peers[n] : /\ q[p].tx_counter = peers[n][p].tx_counter
                                    /\ q[p].sequencer = peers[n][p].sequencer
  BY <1>1, PruneFacts
<1>. HIDE DEF q
<1>5. QuietAt(n)
  BY <1>3, <1>4, SamePeersQuiet DEF QuietAt
<1>. QED  BY <1>1, <1>2, <1>5, OthersQuiet, OnlyKeepalives

(* Time touches neither counters nor queues. *)
LEMMA TimeQuiet ==
  ASSUME Inv, MillisecondPasses \/ LongTimePasses
  PROVE  (\A x \in Node : QuietAt(x)) /\ QuietNet
<1>1. UNCHANGED net
  BY DEF MillisecondPasses, LongTimePasses
<1>2. ASSUME NEW n \in Node
      PROVE  QuietAt(n)
  <2>1. PICK q : q = peers'[n]
    OBVIOUS
  <2>2. q = ElapseShort(peers[n]) \/ q = ElapseLong(peers[n])
    BY <2>1 DEF MillisecondPasses, LongTimePasses
  <2>3. IsPeerList(peers[n])
    BY DEF Inv, NodeCorrect, PeersCorrect
  <2>4. /\ DOMAIN q = DOMAIN peers[n]
        /\ \A p \in DOMAIN peers[n] :
             /\ q[p].tx_counter = peers[n][p].tx_counter
             /\ q[p].sequencer.packet_queue = peers[n][p].sequencer.packet_queue
    BY <2>2, <2>3, TimeFacts
  <2>. QED  BY <2>1, <2>4, SamePeersQuiet DEF QuietAt
<1>. QED  BY <1>1, <1>2, OnlyKeepalives

(* No step but handle_packet_from_local numbers or makes packets. *)
LEMMA SilentQuiet ==
  ASSUME Inv, Silent
  PROVE  (\A x \in Node : QuietAt(x)) /\ QuietNet
<1>1. ASSUME NEW n \in Node, SequencerTick(n) \/ handle_keepalive(n)
      PROVE  (\A x \in Node : QuietAt(x)) /\ QuietNet
  <2>1. UNCHANGED peers
    BY <1>1 DEF SequencerTick, handle_keepalive
  <2>2. \A d \in net' : d \in net \/ d.msg.type # "packet"
    BY <1>1 DEF SequencerTick, handle_keepalive, Datagrams, own_keepalive
  <2>3. \A x \in Node : QuietAt(x)
    BY <2>1, SamePeersQuiet DEF QuietAt
  <2>. QED  BY <2>2, <2>3, OnlyKeepalives
<1>. QED
  BY <1>1, IncomingPacketQuiet, IncomingKeepaliveQuiet, TickPeerQuiet,
     MaintenanceQuiet, TimeQuiet DEF Silent
-----------------------------------------------------------------------------
(***************************************************************************)
(* The invariant.                                                          *)
(***************************************************************************)

(* A step of the record is a step of ConnectionManager. *)
LEMMA MeshStep == [MeshNext]_<<vars, record>> => [Next]_vars
BY Zenon DEF MeshNext, RecordedPacket, RecordedRelease, Silent, Next

(* What a step that numbers no packet leaves of a pair's invariant. *)
LEMMA QuietPair ==
  ASSUME MeshInv, Inv', \A x \in Node : NotRewound(peers[x], peers'[x]),
         UNCHANGED tunnelled, \A x \in Node : QuietAt(x), QuietNet,
         NEW m \in Node, NEW n \in Node
  PROVE  /\ Len(tunnelled'[m][n]) = TxCounter(peers'[m], n)
         /\ \A pkt \in InFlight(net', m, n) \cup Kept(peers'[n], m) :
              Genuine(pkt, tunnelled'[m][n])
         /\ position[m][n] \in Nat /\ position[m][n] <= NextSeq(peers'[n], m)
<1>1. PairCorrect(m, n) /\ Inv /\ position[m][n] \in Nat
  BY DEF MeshInv
<1>2. Len(tunnelled'[m][n]) = TxCounter(peers'[m], n)
  BY <1>1 DEF PairCorrect, QuietAt, Quiet
<1>3. InFlight(net', m, n) \cup Kept(peers'[n], m)
        \subseteq InFlight(net, m, n) \cup Kept(peers[n], m)
  BY DEF QuietAt, Quiet, QuietNet
<1>4. \A pkt \in InFlight(net', m, n) \cup Kept(peers'[n], m) :
        Genuine(pkt, tunnelled'[m][n])
  BY <1>1, <1>3 DEF PairCorrect
<1>5. IsPeerList(peers[n]) /\ IsPeerList(peers'[n])
  BY <1>1 DEF Inv, NodeCorrect, PeersCorrect
<1>6. position[m][n] <= NextSeq(peers'[n], m)
  <2>1. PICK a : a = NextSeq(peers[n], m)
    OBVIOUS
  <2>2. PICK b : b = NextSeq(peers'[n], m)
    OBVIOUS
  <2>3. a \in Nat /\ b \in Nat /\ a <= b
    BY <1>5, <2>1, <2>2, CounterTypes, NextSeqGrows
  <2>4. position[m][n] <= a
    BY <1>1, <2>1 DEF PairCorrect
  <2>. QED  BY <1>1, <2>2, <2>3, <2>4
<1>. QED  BY <1>1, <1>2, <1>4, <1>6

(* The steps that number no packet and hand none over. *)
LEMMA SilentPairs ==
  ASSUME MeshInv, Inv', \A x \in Node : NotRewound(peers[x], peers'[x]),
         Silent, UNCHANGED record
  PROVE  MeshInv'
<1>1. (\A x \in Node : QuietAt(x)) /\ QuietNet /\ UNCHANGED <<tunnelled, handed, position>>
  BY SilentQuiet DEF MeshInv, record
<1>2. \A m, n \in Node : PairCorrect(m, n)'
  BY <1>1, QuietPair DEF PairCorrect
<1>. QED  BY <1>1, <1>2 DEF MeshInv

(* What is tunnelled for a packet from the local interface goes, under     *)
(* the counter of its destination, to that destination.                    *)
LEMMA TunnelledInFlight ==
  ASSUME Inv, NEW x \in Node, NEW b \in Traffic, NEW m \in Node, NEW n \in Node,
         NEW pkt \in InFlight(TunnelledPackets(x, b), m, n)
  PROVE  /\ m = x /\ n \in Destinations(x, b)
         /\ pkt.seq = TxCounter(peers[x], n) /\ pkt.bytes = b
<1>. DEFINE msg(p) == [type |-> "packet", seq |-> peers[x][p].tx_counter,
                       peer_id |-> x, bytes |-> b]
<1>1. PICK d \in TunnelledPackets(x, b) :
        pkt = d.msg /\ d.msg.peer_id = m /\ d.to \in Sockets[n]
  BY DEF InFlight
<1>2. PICK p \in Destinations(x, b) :
        d \in Datagrams(x, get_peer_connections(peers[x], p), msg(p))
  BY DEF TunnelledPackets
<1>3. d.to \in get_peer_connections(peers[x], p) /\ d.msg = msg(p)
  BY <1>2 DEF Datagrams
<1>4. p \in DOMAIN peers[x]
  BY DestinationFacts
<1>5. p \in Node /\ DOMAIN peers[x][p].connections \subseteq Sockets[p]
  BY <1>4 DEF Inv, NodeCorrect, PeersCorrect, IsPeerList
<1>6. d.to \in Sockets[p]
  BY <1>3, <1>4, <1>5 DEF get_peer_connections
<1>7. n = p
  BY <1>1, <1>5, <1>6, OneOwner
<1>. QED  BY <1>1, <1>3, <1>4, <1>7 DEF TxCounter

(* handle_packet_from_local with its record. *)
LEMMA PacketPairs ==
  ASSUME MeshInv, Inv', NEW x \in Node, NEW b \in Traffic, RecordedPacket(x, b)
  PROVE  MeshInv'
<1>. DEFINE dests == Destinations(x, b)
<1>1. Inv /\ PerNode /\ \A m, n \in Node : PairCorrect(m, n)
  BY DEF MeshInv, Inv
<1>2. /\ net' = net \cup TunnelledPackets(x, b)
      /\ peers' = [peers EXCEPT ![x] = increment_tx_counters(@, dests)]
      /\ UNCHANGED <<handed, position>>
      /\ tunnelled' = [tunnelled EXCEPT ![x] = [n \in Node |->
           IF n \in dests THEN Append(@[n], b) ELSE @[n]]]
  BY <1>1, DestinationFacts DEF RecordedPacket, handle_packet_from_local
<1>3. tunnelled \in [Node -> [Node -> Seq(Traffic)]]
  BY DEF MeshInv
<1>4. \A m, n \in Node : tunnelled'[m][n] =
        IF m = x /\ n \in dests THEN Append(tunnelled[m][n], b) ELSE tunnelled[m][n]
  BY <1>2, <1>3
<1>5. tunnelled' \in [Node -> [Node -> Seq(Traffic)]]
  <2>1. \A n \in Node : Append(tunnelled[x][n], b) \in Seq(Traffic)
    BY <1>3, AppendProperties
  <2>. QED  BY <1>2, <1>3, <2>1
<1>6. ASSUME NEW n \in Node, NEW m
      PROVE  /\ NextSeq(peers'[n], m) = NextSeq(peers[n], m)
             /\ Kept(peers'[n], m) = Kept(peers[n], m)
             /\ TxCounter(peers'[n], m) =
                  IF n = x /\ m \in dests THEN TxCounter(peers[n], m) + 1
                  ELSE TxCounter(peers[n], m)
  <2>1. CASE n # x
    BY <1>1, <1>2, <2>1 DEF PerNode
  <2>2. CASE n = x
    <3>. DEFINE q == increment_tx_counters(peers[n], dests)
    <3>1. peers'[n] = q /\ IsPeerList(peers[n])
      BY <1>1, <1>2, <2>2 DEF PerNode, Inv, NodeCorrect, PeersCorrect
    <3>2. /\ DOMAIN q = DOMAIN peers[n]
          /\ \A p \in DOMAIN peers[n] :
               /\ q[p].sequencer = peers[n][p].sequencer
               /\ q[p].tx_counter = IF p \in dests THEN peers[n][p].tx_counter + 1
                                    ELSE peers[n][p].tx_counter
      BY <3>1, IncrementFacts
    <3>3. dests \subseteq DOMAIN peers[n]
      BY <1>1, <2>2, DestinationFacts
    <3>. HIDE DEF q, dests
    <3>4. NextSeq(q, m) = NextSeq(peers[n], m)
      BY <3>2 DEF NextSeq
    <3>5. Kept(q, m) = Kept(peers[n], m)
      BY <3>2 DEF Kept
    <3>6. TxCounter(q, m) = IF m \in dests THEN TxCounter(peers[n], m) + 1
                            ELSE TxCounter(peers[n], m)
      BY <3>2, <3>3 DEF TxCounter
    <3>. QED  BY <2>2, <3>1, <3>4, <3>5, <3>6
  <2>. QED  BY <2>1, <2>2
<1>7. ASSUME NEW m \in Node, NEW n \in Node
      PROVE  PairCorrect(m, n)'
  <2>. DEFINE sent == tunnelled[m][n]
              pending == InFlight(net, m, n) \cup Kept(peers[n], m)
  <2>1. /\ sent \in Seq(Traffic) /\ Len(sent) = TxCounter(peers[m], n)
        /\ position[m][n] <= NextSeq(peers[n], m)
        /\ \A pkt \in pending : Genuine(pkt, sent) /\ pkt \in Packet
    BY <1>1, <1>3, PendingPackets DEF PairCorrect
  <2>2. InFlight(net', m, n) =
          InFlight(net, m, n) \cup InFlight(TunnelledPackets(x, b), m, n)
    BY <1>2 DEF InFlight
  <2>3. position'[m][n] <= NextSeq(peers'[n], m)
    BY <1>2, <1>6, <2>1
  <2>4. CASE m = x /\ n \in dests
    <3>1. tunnelled'[m][n] = Append(sent, b)
          /\ TxCounter(peers'[m], n) = TxCounter(peers[m], n) + 1
      BY <1>4, <1>6, <2>4
    <3>2. Len(Append(sent, b)) = TxCounter(peers'[m], n)
      BY <2>1, <3>1, AppendProperties
    <3>3. \A pkt \in pending : Genuine(pkt, Append(sent, b))
      BY <2>1, GenuineKept
    <3>4. \A pkt \in InFlight(TunnelledPackets(x, b), m, n) : Genuine(pkt, Append(sent, b))
      BY <1>1, <2>1, <2>4, TunnelledInFlight, GenuineNext
    <3>. QED  BY <1>6, <2>2, <2>3, <3>1, <3>2, <3>3, <3>4 DEF PairCorrect
  <2>5. CASE ~(m = x /\ n \in dests)
    <3>1. tunnelled'[m][n] = sent /\ TxCounter(peers'[m], n) = TxCounter(peers[m], n)
      BY <1>4, <1>6, <2>5
    <3>2. InFlight(TunnelledPackets(x, b), m, n) = {}
      BY <1>1, <2>5, TunnelledInFlight
    <3>. QED  BY <1>6, <2>1, <2>2, <2>3, <3>1, <3>2 DEF PairCorrect
  <2>. QED  BY <2>4, <2>5
<1>. QED  BY <1>2, <1>5, <1>7 DEF MeshInv

(* What the release loop hands over is the next packet of its peer, later  *)
(* than all that were handed over, and what the peer sent.                 *)
LEMMA ReleasedPacket ==
  ASSUME MeshInv, NEW x \in Node, ReleaseNext(x),
         NEW p, p = cm[x].peer, NEW pkt, pkt = next_packet(peers[x][p].sequencer)
  PROVE  /\ p \in Node /\ pkt \in Packet /\ pkt.peer_id = p
         /\ pkt.seq \in Nat /\ position[p][x] \in Nat
         /\ position[p][x] <= pkt.seq
         /\ Genuine(pkt, tunnelled[p][x])
         /\ NextSeq(peers'[x], p) = pkt.seq + 1
<1>1. Inv /\ PerNode /\ NodeCorrect(x, peers[x], table[x], cm[x], delivered[x])
  BY DEF MeshInv, Inv
<1>2. PICK s : s = peers[x][p].sequencer
  OBVIOUS
<1>3. PICK t : t = get_next_packet(s)
  OBVIOUS
<1>4. PICK q : q = SetSequencer(peers[x], p, t)
  OBVIOUS
<1>5. cm[x].phase = "draining" /\ peers' = [peers EXCEPT ![x] = q]
  BY <1>2, <1>3, <1>4, Zenon DEF ReleaseNext
<1>6. p \in Node /\ p \in DOMAIN peers[x] /\ have_next_packet(s)
  BY <1>1, <1>2, <1>5 DEF NodeCorrect, TaskCorrect
<1>7. IsPeerList(peers[x]) /\ QueueCorrect(x, p, s)
  BY <1>1, <1>2, <1>6 DEF NodeCorrect, PeersCorrect
<1>8. IsSequencer(s, Packet)
  BY <1>2, <1>6, <1>7, PeerFields DEF IsPeerList
<1>9. pkt = next_packet(s)
  BY <1>2
<1>10. /\ IsSequencer(t, Packet) /\ s.next_seq \in Nat /\ t.next_seq = s.next_seq + 1
       /\ pkt \in Packet /\ pkt.seq = s.next_seq /\ pkt.peer_id = p
  BY <1>3, <1>6, <1>7, <1>8, <1>9, QueueRelease
<1>11. s.next_seq \in Keys(s) /\ pkt = s.packet_queue[s.next_seq]
  BY <1>6, <1>8, <1>9, GetNextFacts
<1>12. pkt \in Kept(peers[x], p)
  BY <1>2, <1>6, <1>11, Zenon DEF Kept
<1>13. /\ Genuine(pkt, tunnelled[p][x]) /\ position[p][x] \in Nat
       /\ position[p][x] <= NextSeq(peers[x], p)
  BY <1>6, <1>12 DEF MeshInv, PairCorrect
<1>14. NextSeq(peers[x], p) = pkt.seq
  BY <1>2, <1>6, <1>10, Zenon DEF NextSeq
<1>15. DOMAIN q = DOMAIN peers[x] /\ q[p].sequencer = t
  BY <1>4, <1>6, <1>7, <1>10, SetSequencerFacts
<1>16. peers'[x] = q
  BY <1>1, <1>5 DEF PerNode
<1>17. NextSeq(peers'[x], p) = pkt.seq + 1
  BY <1>6, <1>10, <1>15, <1>16, Zenon DEF NextSeq
<1>18. pkt.seq \in Nat /\ position[p][x] <= pkt.seq
  BY <1>10, <1>13, <1>14, Zenon
<1>. QED  BY <1>6, <1>10, <1>13, <1>17, <1>18, Zenon

(* What a release does to the record. *)
LEMMA RecordedFacts ==
  ASSUME MeshInv, NEW x \in Node, RecordedRelease(x)
  PROVE  \E p \in Node, pkt \in Packet :
           /\ ReleaseNext(x) /\ UNCHANGED tunnelled
           /\ p = cm[x].peer /\ pkt = next_packet(peers[x][p].sequencer)
           /\ handed' = [handed EXCEPT ![p][x] = Append(@, pkt.bytes)]
           /\ position' = [position EXCEPT ![p][x] = pkt.seq + 1]
<1>1. PICK p : p = cm[x].peer
  OBVIOUS
<1>2. PICK pkt : pkt = next_packet(peers[x][p].sequencer)
  OBVIOUS
<1>3. ReleaseNext(x)
  BY Zenon DEF RecordedRelease
<1>4. p \in Node /\ pkt \in Packet /\ pkt.peer_id = p
  BY <1>1, <1>2, <1>3, ReleasedPacket
<1>5. /\ handed' = [handed EXCEPT ![p][x] = Append(@, pkt.bytes)]
      /\ position' = [position EXCEPT ![p][x] = pkt.seq + 1]
      /\ UNCHANGED tunnelled
  BY <1>1, <1>2, <1>4 DEF RecordedRelease
<1>. QED  BY <1>1, <1>2, <1>3, <1>4, <1>5, Zenon

(* The release loops with their record. *)
LEMMA ReleasePairs ==
  ASSUME MeshInv, Inv', \A x \in Node : NotRewound(peers[x], peers'[x]),
         NEW x \in Node, RecordedRelease(x)
  PROVE  MeshInv'
<1>1. PICK p \in Node, pkt \in Packet :
        /\ ReleaseNext(x) /\ UNCHANGED tunnelled
        /\ p = cm[x].peer /\ pkt = next_packet(peers[x][p].sequencer)
        /\ handed' = [handed EXCEPT ![p][x] = Append(@, pkt.bytes)]
        /\ position' = [position EXCEPT ![p][x] = pkt.seq + 1]
  BY RecordedFacts
<1>2. pkt.seq \in Nat /\ NextSeq(peers'[x], p) = pkt.seq + 1
  <2>1. ReleaseNext(x) /\ p = cm[x].peer /\ pkt = next_packet(peers[x][p].sequencer)
    BY <1>1, Zenon
  <2>. QED  BY <2>1, ReleasedPacket
<1>3. (\A y \in Node : QuietAt(y)) /\ QuietNet
  BY <1>1, ReleaseQuiet DEF MeshInv
<1>4. /\ handed \in [Node -> [Node -> Seq(Traffic)]]
      /\ position \in [Node -> [Node -> Nat]]
  BY DEF MeshInv
<1>5. \A m, n \in Node : position'[m][n] =
        IF m = p /\ n = x THEN pkt.seq + 1 ELSE position[m][n]
  BY <1>1, <1>4
<1>6. position' \in [Node -> [Node -> Nat]]
  <2>1. PICK i : i = pkt.seq + 1
    OBVIOUS
  <2>2. i \in Nat
    BY <1>2, <2>1
  <2>3. position' = [position EXCEPT ![p][x] = i]
    BY <1>1, <2>1, Zenon
  <2>. QED  BY <1>4, <2>2, <2>3
<1>7. handed' \in [Node -> [Node -> Seq(Traffic)]]
  <2>1. pkt.bytes \in Traffic
    BY DEF Packet
  <2>2. Append(handed[p][x], pkt.bytes) \in Seq(Traffic)
    BY <1>4, <2>1, AppendProperties
  <2>. QED  BY <1>1, <1>4, <2>2
<1>8. ASSUME NEW m \in Node, NEW n \in Node
      PROVE  PairCorrect(m, n)'
  <2>1. /\ Len(tunnelled'[m][n]) = TxCounter(peers'[m], n)
        /\ \A k \in InFlight(net', m, n) \cup Kept(peers'[n], m) :
             Genuine(k, tunnelled'[m][n])
        /\ position[m][n] <= NextSeq(peers'[n], m)
    BY <1>1, <1>3, QuietPair
  <2>2. position'[m][n] <= NextSeq(peers'[n], m)
    BY <1>2, <1>5, <2>1
  <2>. QED  BY <2>1, <2>2 DEF PairCorrect
<1>9. tunnelled' \in [Node -> [Node -> Seq(Traffic)]]
  BY <1>1, Zenon DEF MeshInv
<1>. QED  BY <1>6, <1>7, <1>8, <1>9, Zenon DEF MeshInv

(* Every step keeps the invariant of the record. *)
LEMMA MeshNextKeeps == MeshInv /\ [MeshNext]_<<vars, record>> => MeshInv'
<1>. SUFFICES ASSUME MeshInv, [MeshNext]_<<vars, record>> PROVE MeshInv'
  OBVIOUS
<1>1. Inv' /\ \A x \in Node : NotRewound(peers[x], peers'[x])
  BY MeshStep, InvNext DEF MeshInv
<1>2. CASE UNCHANGED <<vars, record>>
  <2>1. UNCHANGED <<peers, net, tunnelled, handed, position>>
    BY <1>2 DEF vars, record
  <2>2. \A m, n \in Node : PairCorrect(m, n)'
    BY <2>1 DEF MeshInv, PairCorrect
  <2>. QED  BY <1>1, <2>1, <2>2 DEF MeshInv
<1>. QED  BY <1>1, <1>2, SilentPairs, PacketPairs, ReleasePairs DEF MeshNext

(* Initially nothing was sent. *)
LEMMA MeshInitKeeps == MeshInit => MeshInv
<1>. SUFFICES ASSUME MeshInit PROVE MeshInv
  OBVIOUS
<1>1. Inv
  BY InvInit DEF MeshInit
<1>2. /\ net = {}
      /\ tunnelled = [m \in Node |-> [n \in Node |-> << >>]]
      /\ handed = [m \in Node |-> [n \in Node |-> << >>]]
      /\ position = [m \in Node |-> [n \in Node |-> 0]]
  BY DEF MeshInit, Init
<1>3. ASSUME NEW m \in Node, NEW n \in Node
      PROVE  PairCorrect(m, n)
  <2>1. peers[m] = NewPeerList(Config[m]) /\ peers[n] = NewPeerList(Config[n])
    BY DEF MeshInit, Init
  <2>2. \A x \in Node : \A p \in DOMAIN NewPeerList(Config[x]) :
          /\ NewPeerList(Config[x])[p].tx_counter = 0
          /\ NewPeerList(Config[x])[p].sequencer = NewSequencer
    BY DEF NewPeerList, NewPeer
  <2>3. TxCounter(peers[m], n) = 0
    BY <2>1, <2>2 DEF TxCounter
  <2>4. NextSeq(peers[n], m) = 0 /\ Kept(peers[n], m) = {}
    BY <2>1, <2>2, NewSequencerFacts DEF NextSeq, Kept
  <2>5. InFlight(net, m, n) = {}
    BY <1>2 DEF InFlight
  <2>6. Len(tunnelled[m][n]) = 0 /\ position[m][n] = 0
    BY <1>2, EmptySeq
  <2>. QED  BY <2>3, <2>4, <2>5, <2>6 DEF PairCorrect
<1>4. << >> \in Seq(Traffic)
  BY EmptySeq
<1>. QED  BY <1>1, <1>2, <1>3, <1>4 DEF MeshInv

(* The inductive invariant: counters, queues and datagrams of every pair   *)
(* of nodes agree with what one sent to the other.                         *)
THEOREM MeshCorrect == MeshSpec => []MeshInv
BY MeshInitKeeps, MeshNextKeeps, PTL DEF MeshSpec

(* Every pair of nodes implements the abstract tunnel, for any number of   *)
(* nodes: handle_packet_from_local is a step Send of each destination, one *)
(* turn of a release loop is a step Deliver, and everything else, pruning, *)
(* keepalives and deadlines included, is invisible.                        *)
THEOREM PairsRefineTunnel == MeshSpec => EveryPairIsATunnel
<1>1. MeshInit => \A m \in Node : \A n \in Node \ {m} : T(m, n)!Init
  BY DEF MeshInit, T!Init
<1>2. ASSUME MeshInv, [MeshNext]_<<vars, record>>, NEW m \in Node, NEW n \in Node
      PROVE  T(m, n)!Next \/ UNCHANGED T(m, n)!tunnelVars
  <2>. DEFINE stays == UNCHANGED <<tunnelled[m][n], handed[m][n], position[m][n]>>
  <2>1. SUFFICES T(m, n)!Next \/ stays
    BY DEF T!tunnelVars
  <2>2. CASE UNCHANGED record
    BY <2>2 DEF record
  <2>3. ASSUME NEW x \in Node, NEW b \in Traffic, RecordedPacket(x, b)
        PROVE  T(m, n)!Next \/ stays
    <3>1. /\ tunnelled \in [Node -> [Node -> Seq(Traffic)]]
          /\ UNCHANGED <<handed, position>>
          /\ tunnelled' = [tunnelled EXCEPT ![x] = [y \in Node |->
               IF y \in Destinations(x, b) THEN Append(@[y], b) ELSE @[y]]]
      BY <1>2, <2>3 DEF MeshInv, RecordedPacket
    <3>2. tunnelled'[m][n] = IF m = x /\ n \in Destinations(x, b)
                             THEN Append(tunnelled[m][n], b) ELSE tunnelled[m][n]
      BY <3>1
    <3>3. CASE m = x /\ n \in Destinations(x, b)
      <4>1. T(m, n)!Send
        BY <3>1, <3>2, <3>3 DEF T!Send
      <4>. QED  BY <4>1 DEF T!Next
    <3>4. CASE ~(m = x /\ n \in Destinations(x, b))
      BY <3>1, <3>2, <3>4
    <3>. QED  BY <3>3, <3>4
  <2>4. ASSUME NEW x \in Node, RecordedRelease(x)
        PROVE  T(m, n)!Next \/ stays
    <3>1. PICK p \in Node, pkt \in Packet :
            /\ ReleaseNext(x) /\ UNCHANGED tunnelled
            /\ p = cm[x].peer /\ pkt = next_packet(peers[x][p].sequencer)
            /\ handed' = [handed EXCEPT ![p][x] = Append(@, pkt.bytes)]
            /\ position' = [position EXCEPT ![p][x] = pkt.seq + 1]
      BY <1>2, <2>4, RecordedFacts
    <3>2. /\ pkt.seq \in Nat /\ position[p][x] \in Nat /\ position[p][x] <= pkt.seq
          /\ Genuine(pkt, tunnelled[p][x])
      <4>1. /\ ReleaseNext(x) /\ p = cm[x].peer
            /\ pkt = next_packet(peers[x][p].sequencer)
        BY <3>1, Zenon
      <4>. QED  BY <1>2, <4>1, ReleasedPacket
    <3>3. /\ handed \in [Node -> [Node -> Seq(Traffic)]]
          /\ position \in [Node -> [Node -> Nat]]
          /\ tunnelled[p][x] \in Seq(Traffic)
      BY <1>2 DEF MeshInv
    <3>4. CASE ~(m = p /\ n = x)
      <4>1. handed'[m][n] = handed[m][n] /\ position'[m][n] = position[m][n]
        BY <3>1, <3>3, <3>4
      <4>2. tunnelled' = tunnelled
        BY <3>1, Zenon
      <4>. QED  BY <4>1, <4>2, Zenon
    <3>5. CASE m = p /\ n = x
      <4>1. Len(tunnelled[m][n]) \in Nat
        BY <3>3, <3>5, LenProperties
      <4>2. /\ pkt.seq < Len(tunnelled[m][n])
            /\ pkt.bytes = tunnelled[m][n][pkt.seq + 1]
        BY <3>2, <3>5 DEF Genuine
      <4>3. PICK i \in (position[m][n] + 1)..Len(tunnelled[m][n]) : i = pkt.seq + 1
        BY <3>2, <3>5, <4>1, <4>2
      <4>4. /\ handed'[m][n] = Append(handed[m][n], tunnelled[m][n][i])
            /\ position'[m][n] = i
        BY <3>1, <3>3, <3>5, <4>2, <4>3, Zenon
      <4>5. T(m, n)!Deliver
        BY <3>1, <4>3, <4>4, Zenon DEF T!Deliver
      <4>. QED  BY <4>5 DEF T!Next
    <3>. QED  BY <3>4, <3>5
  <2>. QED  BY <1>2, <2>2, <2>3, <2>4 DEF MeshNext
<1>3. MeshInv /\ [MeshNext]_<<vars, record>> =>
        [\A m \in Node : \A n \in Node \ {m} :
           T(m, n)!Next \/ UNCHANGED T(m, n)!tunnelVars]_<<vars, record>>
  BY <1>2
<1>. QED  BY <1>1, <1>3, MeshCorrect, PTL DEF MeshSpec, EveryPairIsATunnel
=============================================================================
