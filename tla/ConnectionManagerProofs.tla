----------------------- MODULE ConnectionManagerProofs -----------------------
(***************************************************************************)
(* Proofs about ConnectionManager for every number of nodes, remotes and   *)
(* stations, every settings file that ConfigAssumption allows, both kinds  *)
(* of local interface, every traffic, deadline and stale limit, and a      *)
(* network that delays, reorders, duplicates and loses.                    *)
(***************************************************************************)
EXTENDS ConnectionManager, SequencerProofs, SequenceTheorems

(***************************************************************************)
(* The peer list.  Each lemma says what an operation does to the peers'    *)
(* addresses, counters and sequencers.                                     *)
(***************************************************************************)

(* The fields of a peer. *)
LEMMA PeerFields ==
  ASSUME NEW A, NEW P, NEW p, IsPeer(p, A, P)
  PROVE  /\ DOMAIN p.connections \subseteq A
         /\ p.connections \in [DOMAIN p.connections -> 0..StaleLimit]
         /\ p.tx_counter \in Nat
         /\ IsSequencer(p.sequencer, P)
         /\ p.sequencer.next_seq \in Nat
         /\ Keys(p.sequencer) \subseteq Nat
BY DEF IsPeer, IsSequencer

(* A peer made of fields of the right types. *)
LEMMA MakePeer ==
  ASSUME NEW A, NEW P, NEW D, D \subseteq A, NEW c \in [D -> 0..StaleLimit],
         NEW t \in Nat, NEW s, IsSequencer(s, P)
  PROVE  IsPeer([connections |-> c, tx_counter |-> t, sequencer |-> s], A, P)
BY DEF IsPeer

(* A new peer has no packets and counts from 0. *)
LEMMA NewPeerFacts ==
  ASSUME NEW A, NEW P, NEW D, D \subseteq A
  PROVE  /\ IsPeer(NewPeer(D), A, P)
         /\ DOMAIN NewPeer(D).connections = D
         /\ NewPeer(D).tx_counter = 0
         /\ NewPeer(D).sequencer = NewSequencer
<1>1. [a \in D |-> 0] \in [D -> 0..StaleLimit]
  BY StaleLimitAssumption
<1>2. IsSequencer(NewSequencer, P)
  BY NewSequencerFacts
<1>3. IsPeer(NewPeer(D), A, P)
  BY <1>1, <1>2, MakePeer DEF NewPeer
<1>. QED  BY <1>3 DEF NewPeer

(* q is pl with the address a added to the peer id, which is created if    *)
(* need be; counters and sequencers are left alone.                        *)
OneAddressMore(pl, id, a, q) ==
  /\ DOMAIN q = DOMAIN pl \cup {id}
  /\ \A p \in DOMAIN pl : /\ q[p].tx_counter = pl[p].tx_counter
                          /\ q[p].sequencer = pl[p].sequencer
  /\ \A p \in DOMAIN pl \ {id} : q[p] = pl[p]
  /\ id \in DOMAIN pl => DOMAIN q[id].connections = DOMAIN pl[id].connections \cup {a}
  /\ id \notin DOMAIN pl => /\ DOMAIN q[id].connections = {a}
                            /\ q[id].tx_counter = 0
                            /\ q[id].sequencer = NewSequencer

(* What add_peer does. *)
LEMMA AddPeerFacts ==
  ASSUME NEW pl, IsPeerList(pl), NEW id \in Node, NEW a \in Addr,
         NEW q, q = add_peer(pl, id, a)
  PROVE  IsPeerList(q) /\ OneAddressMore(pl, id, a, q)
<1>. DEFINE known == IF id \in DOMAIN pl THEN pl[id] ELSE NewPeer({})
            seen == [b \in DOMAIN known.connections \cup {a} |->
                       IF b = a THEN 0 ELSE known.connections[b]]
            peer == [connections |-> seen, tx_counter |-> known.tx_counter,
                     sequencer |-> known.sequencer]
<1>1. q = [i \in DOMAIN pl \cup {id} |-> IF i = id THEN peer ELSE pl[i]]
  BY DEF add_peer
<1>2. IsPeer(known, Addr, Packet)
  BY NewPeerFacts DEF IsPeerList
<1>. HIDE DEF known
<1>3. IsPeer(peer, Addr, Packet)
  <2>1. seen \in [DOMAIN known.connections \cup {a} -> 0..StaleLimit]
    BY <1>2, PeerFields, StaleLimitAssumption
  <2>. HIDE DEF seen
  <2>. QED  BY <1>2, <2>1, PeerFields, MakePeer
<1>4. /\ DOMAIN peer.connections = DOMAIN known.connections \cup {a}
      /\ peer.tx_counter = known.tx_counter /\ peer.sequencer = known.sequencer
  OBVIOUS
<1>. HIDE DEF peer
<1>5. DOMAIN q = DOMAIN pl \cup {id} /\ q[id] = peer
      /\ \A p \in DOMAIN pl \ {id} : q[p] = pl[p]
  BY <1>1
<1>6. IsPeerList(q)
  BY <1>3, <1>5 DEF IsPeerList
<1>7. id \in DOMAIN pl => known = pl[id]
  BY DEF known
<1>8. id \notin DOMAIN pl => /\ DOMAIN known.connections = {}
                             /\ known.tx_counter = 0
                             /\ known.sequencer = NewSequencer
  BY NewPeerFacts DEF known
<1>. QED  BY <1>4, <1>5, <1>6, <1>7, <1>8 DEF OneAddressMore

(* prune_stale_peers takes addresses away and nothing else. *)
LEMMA PruneFacts ==
  ASSUME NEW pl, IsPeerList(pl), NEW q, q = prune_stale_peers(pl)
  PROVE  /\ IsPeerList(q)
         /\ DOMAIN q = DOMAIN pl
         /\ \A p \in DOMAIN pl :
              /\ DOMAIN q[p].connections \subseteq DOMAIN pl[p].connections
              /\ q[p].tx_counter = pl[p].tx_counter
              /\ q[p].sequencer = pl[p].sequencer
<1>. DEFINE fresh(p) == {b \in DOMAIN pl[p].connections : pl[p].connections[b] < StaleLimit}
            conns(p) == [a \in fresh(p) |-> pl[p].connections[a]]
<1>1. DOMAIN q = DOMAIN pl
  BY DEF prune_stale_peers
<1>2. ASSUME NEW p \in DOMAIN pl
      PROVE  /\ IsPeer(q[p], Addr, Packet)
             /\ DOMAIN q[p].connections \subseteq DOMAIN pl[p].connections
             /\ q[p].tx_counter = pl[p].tx_counter
             /\ q[p].sequencer = pl[p].sequencer
  <2>1. q[p] = [connections |-> conns(p), tx_counter |-> pl[p].tx_counter,
                sequencer |-> pl[p].sequencer]
    BY DEF prune_stale_peers
  <2>2. IsPeer(pl[p], Addr, Packet)
    BY DEF IsPeerList
  <2>3. conns(p) \in [fresh(p) -> 0..StaleLimit] /\ fresh(p) \subseteq Addr
        /\ fresh(p) \subseteq DOMAIN pl[p].connections
    BY <2>2, PeerFields
  <2>4. DOMAIN conns(p) = fresh(p)
    OBVIOUS
  <2>. HIDE DEF fresh, conns
  <2>5. IsPeer(q[p], Addr, Packet)
    BY <2>1, <2>2, <2>3, PeerFields, MakePeer
  <2>. QED  BY <2>1, <2>3, <2>4, <2>5
<1>. QED  BY <1>1, <1>2 DEF IsPeerList

(* A sequencer is replaced, and nothing else. *)
LEMMA SetSequencerFacts ==
  ASSUME NEW pl, IsPeerList(pl), NEW id \in DOMAIN pl,
         NEW s, IsSequencer(s, Packet), NEW q, q = SetSequencer(pl, id, s)
  PROVE  /\ IsPeerList(q)
         /\ DOMAIN q = DOMAIN pl
         /\ \A p \in DOMAIN pl : /\ q[p].connections = pl[p].connections
                                 /\ q[p].tx_counter = pl[p].tx_counter
         /\ q[id].sequencer = s
         /\ \A p \in DOMAIN pl \ {id} : q[p].sequencer = pl[p].sequencer
<1>1. IsPeer(pl[id], Addr, Packet)
  BY DEF IsPeerList
<1>2. /\ DOMAIN q = DOMAIN pl
      /\ q[id] = [pl[id] EXCEPT !.sequencer = s]
      /\ \A p \in DOMAIN pl \ {id} : q[p] = pl[p]
  BY DEF SetSequencer
<1>3. q[id] = [connections |-> pl[id].connections, tx_counter |-> pl[id].tx_counter,
               sequencer |-> s]
  BY <1>1, <1>2 DEF IsPeer
<1>4. IsPeer(q[id], Addr, Packet)
  <2>. DEFINE D == DOMAIN pl[id].connections
  <2>1. D \subseteq Addr /\ pl[id].connections \in [D -> 0..StaleLimit]
        /\ pl[id].tx_counter \in Nat
    BY <1>1, PeerFields
  <2>. QED  BY <1>3, <2>1, MakePeer
<1>5. IsPeerList(q)
  BY <1>2, <1>4 DEF IsPeerList
<1>. QED  BY <1>2, <1>3, <1>5

(* The counters of the destinations go up by one. *)
LEMMA IncrementFacts ==
  ASSUME NEW pl, IsPeerList(pl), NEW ids, NEW q, q = increment_tx_counters(pl, ids)
  PROVE  /\ IsPeerList(q)
         /\ DOMAIN q = DOMAIN pl
         /\ \A p \in DOMAIN pl :
              /\ q[p].connections = pl[p].connections
              /\ q[p].sequencer = pl[p].sequencer
              /\ q[p].tx_counter =
                   IF p \in ids THEN pl[p].tx_counter + 1 ELSE pl[p].tx_counter
<1>1. DOMAIN q = DOMAIN pl
  BY DEF increment_tx_counters
<1>2. ASSUME NEW p \in DOMAIN pl
      PROVE  /\ IsPeer(q[p], Addr, Packet)
             /\ q[p].connections = pl[p].connections
             /\ q[p].sequencer = pl[p].sequencer
             /\ q[p].tx_counter =
                  IF p \in ids THEN pl[p].tx_counter + 1 ELSE pl[p].tx_counter
  <2>1. IsPeer(pl[p], Addr, Packet)
    BY DEF IsPeerList
  <2>2. CASE p \in ids
    <3>1. q[p] = [connections |-> pl[p].connections,
                  tx_counter |-> pl[p].tx_counter + 1, sequencer |-> pl[p].sequencer]
      BY <2>2 DEF increment_tx_counters
    <3>2. IsPeer(q[p], Addr, Packet)
      <4>. DEFINE D == DOMAIN pl[p].connections
      <4>1. D \subseteq Addr /\ pl[p].connections \in [D -> 0..StaleLimit]
            /\ pl[p].tx_counter + 1 \in Nat /\ IsSequencer(pl[p].sequencer, Packet)
        BY <2>1, PeerFields
      <4>. QED  BY <3>1, <4>1, MakePeer
    <3>. QED  BY <2>2, <3>1, <3>2
  <2>3. CASE p \notin ids
    BY <2>1, <2>3 DEF increment_tx_counters
  <2>. QED  BY <2>2, <2>3
<1>. QED  BY <1>1, <1>2 DEF IsPeerList

(* Time changes neither counters nor queues, nor the set of addresses. *)
LEMMA TimeFacts ==
  ASSUME NEW pl, IsPeerList(pl), NEW q, q = ElapseShort(pl) \/ q = ElapseLong(pl)
  PROVE  /\ IsPeerList(q)
         /\ DOMAIN q = DOMAIN pl
         /\ \A p \in DOMAIN pl :
              /\ DOMAIN q[p].connections = DOMAIN pl[p].connections
              /\ q[p].tx_counter = pl[p].tx_counter
              /\ q[p].sequencer.packet_queue = pl[p].sequencer.packet_queue
              /\ q[p].sequencer.next_seq = pl[p].sequencer.next_seq
<1>1. DOMAIN q = DOMAIN pl
  BY DEF ElapseShort, ElapseLong
<1>2. ASSUME NEW p \in DOMAIN pl
      PROVE  /\ IsPeer(q[p], Addr, Packet)
             /\ DOMAIN q[p].connections = DOMAIN pl[p].connections
             /\ q[p].tx_counter = pl[p].tx_counter
             /\ q[p].sequencer.packet_queue = pl[p].sequencer.packet_queue
             /\ q[p].sequencer.next_seq = pl[p].sequencer.next_seq
  <2>. DEFINE s == pl[p].sequencer
              D == DOMAIN pl[p].connections
              older == [a \in D |-> IF pl[p].connections[a] < StaleLimit
                                    THEN pl[p].connections[a] + 1 ELSE StaleLimit]
              late == [s EXCEPT !.since_update = DeadlineMs + 1]
  <2>1. IsPeer(pl[p], Addr, Packet)
    BY DEF IsPeerList
  <2>2. D \subseteq Addr /\ pl[p].connections \in [D -> 0..StaleLimit]
        /\ pl[p].tx_counter \in Nat /\ IsSequencer(s, Packet)
    BY <2>1, PeerFields
  <2>3. CASE q = ElapseShort(pl)
    <3>1. q[p] = [connections |-> pl[p].connections, tx_counter |-> pl[p].tx_counter,
                  sequencer |-> Elapse(s)]
      BY <2>3 DEF ElapseShort
    <3>2. IsSequencer(Elapse(s), Packet)
          /\ Elapse(s).packet_queue = s.packet_queue /\ Elapse(s).next_seq = s.next_seq
      BY <2>2, ElapseFacts
    <3>3. IsPeer(q[p], Addr, Packet)
      BY <2>2, <3>1, <3>2, MakePeer
    <3>. QED  BY <3>1, <3>2, <3>3
  <2>4. CASE q = ElapseLong(pl)
    <3>1. q[p] = [connections |-> older, tx_counter |-> pl[p].tx_counter,
                  sequencer |-> late]
      BY <2>4 DEF ElapseLong
    <3>2. IsSequencer(late, Packet)
          /\ late.packet_queue = s.packet_queue /\ late.next_seq = s.next_seq
      BY <2>2, DeadlineAssumption DEF IsSequencer, Keys
    <3>3. older \in [D -> 0..StaleLimit] /\ DOMAIN older = D
      BY <2>2, StaleLimitAssumption
    <3>. HIDE DEF older, late
    <3>4. IsPeer(q[p], Addr, Packet)
      BY <2>2, <3>1, <3>2, <3>3, MakePeer
    <3>. QED  BY <3>1, <3>2, <3>3, <3>4
  <2>. QED  BY <2>3, <2>4
<1>. QED  BY <1>1, <1>2 DEF IsPeerList
-----------------------------------------------------------------------------
(***************************************************************************)
(* The parts of the invariant under the operations on their values.        *)
(***************************************************************************)

(* insert_packet keeps a queue correct when the packet belongs into it. *)
LEMMA QueueInsert ==
  ASSUME NEW n, NEW p, NEW s, IsSequencer(s, Packet), QueueCorrect(n, p, s),
         NEW pkt \in Packet, pkt.peer_id = p, MeantFor(n, pkt),
         NEW t, t = insert_packet(s, pkt)
  PROVE  IsSequencer(t, Packet) /\ QueueCorrect(n, p, t) /\ t.next_seq = s.next_seq
<1>1. pkt.seq \in Nat
  BY DEF Packet
<1>2. /\ IsSequencer(t, Packet) /\ t.next_seq = s.next_seq
      /\ \A k \in Keys(s) : t.packet_queue[k] = s.packet_queue[k]
      /\ \A k \in Keys(t) \ Keys(s) :
           k = pkt.seq /\ k >= s.next_seq /\ t.packet_queue[k] = pkt
  BY <1>1, InsertFacts
<1>3. ASSUME NEW k \in Keys(t)
      PROVE  /\ k >= t.next_seq
             /\ t.packet_queue[k].seq = k /\ t.packet_queue[k].peer_id = p
             /\ MeantFor(n, t.packet_queue[k])
  <2>1. CASE k \in Keys(s)
    BY <1>2, <2>1 DEF QueueCorrect
  <2>2. CASE k \notin Keys(s)
    BY <1>2, <1>3, <2>2
  <2>. QED  BY <2>1, <2>2
<1>. QED  BY <1>2, <1>3 DEF QueueCorrect

(* The deadline moves next_seq forward, to a packet in the queue. *)
LEMMA QueueAdvance ==
  ASSUME NEW n, NEW p, NEW s, IsSequencer(s, Packet), QueueCorrect(n, p, s),
         NEW t, t = advance_queue(s)
  PROVE  IsSequencer(t, Packet) /\ QueueCorrect(n, p, t) /\ t.next_seq >= s.next_seq
<1>1. /\ IsSequencer(t, Packet) /\ Keys(t) = Keys(s) /\ t.packet_queue = s.packet_queue
      /\ Keys(s) = {} => t.next_seq = s.next_seq
      /\ Keys(s) # {} => /\ t.next_seq \in Keys(s)
                         /\ \A k \in Keys(s) : t.next_seq <= k
  BY AdvanceFacts
<1>2. t.next_seq \in Nat /\ s.next_seq \in Nat /\ Keys(s) \subseteq Nat
  BY <1>1 DEF IsSequencer
<1>3. t.next_seq >= s.next_seq
  BY <1>1, <1>2 DEF QueueCorrect
<1>. QED  BY <1>1, <1>2, <1>3 DEF QueueCorrect

(* get_next_packet hands over a packet of p and leaves the later ones. *)
LEMMA QueueRelease ==
  ASSUME NEW n, NEW p, NEW s, IsSequencer(s, Packet), QueueCorrect(n, p, s),
         have_next_packet(s), NEW t, t = get_next_packet(s)
  PROVE  /\ IsSequencer(t, Packet) /\ QueueCorrect(n, p, t)
         /\ s.next_seq \in Nat /\ t.next_seq = s.next_seq + 1
         /\ next_packet(s) \in Packet
         /\ next_packet(s).seq = s.next_seq /\ next_packet(s).peer_id = p
         /\ MeantFor(n, next_packet(s))
<1>1. /\ IsSequencer(t, Packet) /\ s.next_seq \in Keys(s)
      /\ next_packet(s) = s.packet_queue[s.next_seq] /\ next_packet(s) \in Packet
      /\ t.next_seq = s.next_seq + 1
      /\ Keys(t) = Keys(s) \ {s.next_seq}
      /\ \A k \in Keys(t) : t.packet_queue[k] = s.packet_queue[k]
  BY GetNextFacts
<1>2. s.next_seq \in Nat /\ Keys(s) \subseteq Nat
  BY DEF IsSequencer
<1>3. QueueCorrect(n, p, t)
  BY <1>1, <1>2 DEF QueueCorrect
<1>. QED  BY <1>1, <1>2, <1>3 DEF QueueCorrect

(* Whether a packet can go out depends on the queue and next_seq only. *)
LEMMA SameQueue ==
  ASSUME NEW n, NEW p, NEW s, NEW t,
         t.packet_queue = s.packet_queue, t.next_seq = s.next_seq
  PROVE  /\ QueueCorrect(n, p, s) => QueueCorrect(n, p, t)
         /\ have_next_packet(s) => have_next_packet(t)
BY DEF QueueCorrect, have_next_packet, first_key, Keys

(* What was handed over stays below counters that do not go back. *)
LEMMA OutputKept ==
  ASSUME NEW n, NEW pl, NEW q, IsPeerList(pl), IsPeerList(q), NotRewound(pl, q),
         NEW out, OutputCorrect(n, pl, out)
  PROVE  OutputCorrect(n, q, out)
<1>1. ASSUME NEW i \in DOMAIN out
      PROVE  /\ out[i].peer_id \in DOMAIN q
             /\ out[i].seq < q[out[i].peer_id].sequencer.next_seq
  <2>. DEFINE p == out[i].peer_id
  <2>1. p \in DOMAIN pl /\ p \in DOMAIN q /\ out[i].seq < pl[p].sequencer.next_seq
        /\ q[p].sequencer.next_seq >= pl[p].sequencer.next_seq
    BY DEF OutputCorrect, NotRewound
  <2>2. pl[p].sequencer.next_seq \in Nat /\ q[p].sequencer.next_seq \in Nat
    BY <2>1, PeerFields DEF IsPeerList
  <2>3. out[i] \in Packet
    BY LenProperties, ElementOfSeq DEF OutputCorrect
  <2>4. out[i].seq \in Nat
    BY <2>3 DEF Packet
  <2>. QED  BY <2>1, <2>2, <2>4
<1>. QED  BY <1>1 DEF OutputCorrect

(* A table stays correct while no peer is lost. *)
LEMMA TableKept ==
  ASSUME NEW pl, NEW q, NotRewound(pl, q), NEW tb, TableCorrect(pl, tb)
  PROVE  TableCorrect(q, tb)
BY DEF TableCorrect, NotRewound

(* A new entry for a station, by the peer behind which it lives. *)
LEMMA TableInsert ==
  ASSUME NEW pl, NEW tb, TableCorrect(pl, tb), NEW s \in Station,
         NEW p \in Node, p = Home[s], p \in DOMAIN pl
  PROVE  TableCorrect(pl, InsertNew(tb, s, p))
BY DEF TableCorrect, InsertNew

(* The task in select! and on its way through the tick. *)
LEMMA TickingCorrect ==
  ASSUME NEW pl, NEW n \in Node, NEW todo \in SUBSET (DOMAIN pl)
  PROVE  TaskCorrect(pl, Ticking(n, todo))
BY DEF Ticking, Idle, TaskCorrect

(* A handler that may release packets of p, or returns. *)
LEMMA ReleasingCorrect ==
  ASSUME NEW pl, NEW n \in Node, NEW p \in Node, p \in DOMAIN pl,
         NEW s, s = pl[p].sequencer, NEW learn \in BOOLEAN,
         NEW todo \in SUBSET (DOMAIN pl)
  PROVE  TaskCorrect(pl, Releasing(n, p, s, learn, todo))
<1>1. CASE have_next_packet(s)
  BY <1>1 DEF Releasing, TaskCorrect
<1>2. CASE ~have_next_packet(s)
  BY <1>2, TickingCorrect DEF Releasing
<1>. QED  BY <1>1, <1>2

(* A task that waits in select! does not mind new peers. *)
LEMMA SelectKept ==
  ASSUME NEW pl, NEW q, NotRewound(pl, q), NEW task, TaskCorrect(pl, task),
         task.phase = "select"
  PROVE  TaskCorrect(q, task)
BY DEF TaskCorrect, NotRewound

(* Home and sockets: an address belongs to one node. *)
LEMMA OneOwner ==
  ASSUME NEW m \in Node, NEW n \in Node, NEW a, a \in Sockets[m], a \in Sockets[n]
  PROVE  m = n
BY SocketsAssumption
-----------------------------------------------------------------------------
(***************************************************************************)
(* The steps.  A step of node n keeps n's part of the invariant and leaves *)
(* the other nodes alone.                                                  *)
(***************************************************************************)
KeepsNode(n) ==
  /\ NodeCorrect(n, peers'[n], table'[n], cm'[n], delivered'[n])
  /\ NotRewound(peers[n], peers'[n])
  /\ \A d \in net' : DatagramCorrect(d)

OnlyNode(n) ==
  /\ PerNode'
  /\ \A m \in Node \ {n} : /\ peers'[m] = peers[m] /\ table'[m] = table[m]
                            /\ cm'[m] = cm[m] /\ delivered'[m] = delivered[m]

(* Nothing goes back in a peer list that does not change. *)
LEMMA NotRewoundRefl ==
  ASSUME NEW pl, IsPeerList(pl)
  PROVE  NotRewound(pl, pl)
<1>1. ASSUME NEW p \in DOMAIN pl
      PROVE  pl[p].tx_counter \in Nat /\ pl[p].sequencer.next_seq \in Nat
  BY PeerFields DEF IsPeerList
<1>. QED  BY <1>1 DEF NotRewound

(* Peers that change nothing but their addresses and clocks. *)
LEMMA PeersKept ==
  ASSUME NEW n, NEW pl, PeersCorrect(n, pl), NEW q, IsPeerList(q),
         DOMAIN q = DOMAIN pl,
         \A p \in DOMAIN pl :
           /\ DOMAIN q[p].connections \subseteq DOMAIN pl[p].connections
           /\ q[p].tx_counter = pl[p].tx_counter
           /\ q[p].sequencer.packet_queue = pl[p].sequencer.packet_queue
           /\ q[p].sequencer.next_seq = pl[p].sequencer.next_seq
  PROVE  PeersCorrect(n, q) /\ NotRewound(pl, q)
<1>1. NotRewound(pl, pl)
  BY NotRewoundRefl DEF PeersCorrect
<1>2. NotRewound(pl, q)
  BY <1>1 DEF NotRewound
<1>3. ASSUME NEW p \in DOMAIN q
      PROVE  /\ DOMAIN q[p].connections \subseteq Sockets[p]
             /\ QueueCorrect(n, p, q[p].sequencer)
  <2>1. DOMAIN pl[p].connections \subseteq Sockets[p]
        /\ QueueCorrect(n, p, pl[p].sequencer)
    BY DEF PeersCorrect
  <2>2. q[p].sequencer.packet_queue = pl[p].sequencer.packet_queue
        /\ q[p].sequencer.next_seq = pl[p].sequencer.next_seq
    OBVIOUS
  <2>3. QueueCorrect(n, p, q[p].sequencer)
    BY <2>1, <2>2, SameQueue
  <2>. QED  BY <2>1, <2>3
<1>. QED  BY <1>2, <1>3 DEF PeersCorrect

(* One peer's sequencer is replaced by one that is correct and not behind. *)
LEMMA SequencerReplaced ==
  ASSUME NEW n, NEW pl, PeersCorrect(n, pl), NEW p \in DOMAIN pl,
         NEW s, IsSequencer(s, Packet), QueueCorrect(n, p, s),
         s.next_seq >= pl[p].sequencer.next_seq,
         NEW q, q = SetSequencer(pl, p, s)
  PROVE  /\ PeersCorrect(n, q) /\ NotRewound(pl, q) /\ DOMAIN q = DOMAIN pl
         /\ q[p].sequencer = s
<1>1. IsPeerList(pl)
  BY DEF PeersCorrect
<1>2. /\ IsPeerList(q) /\ DOMAIN q = DOMAIN pl /\ q[p].sequencer = s
      /\ \A i \in DOMAIN pl : /\ q[i].connections = pl[i].connections
                              /\ q[i].tx_counter = pl[i].tx_counter
      /\ \A i \in DOMAIN pl \ {p} : q[i].sequencer = pl[i].sequencer
  BY <1>1, SetSequencerFacts
<1>3. NotRewound(pl, q)
  BY <1>1, <1>2, NotRewoundRefl DEF NotRewound
<1>4. PeersCorrect(n, q)
  BY <1>2 DEF PeersCorrect
<1>. QED  BY <1>2, <1>3, <1>4

(* The director names peers in the list, and the home of the destination. *)
LEMMA DestinationFacts ==
  ASSUME Inv, NEW n \in Node, NEW pkt \in Traffic
  PROVE  /\ Destinations(n, pkt) \subseteq DOMAIN peers[n]
         /\ \A p \in Destinations(n, pkt) : pkt.dst \in Station => Home[pkt.dst] = p
<1>1. TableCorrect(peers[n], table[n])
  BY DEF Inv, NodeCorrect
<1>. QED
  BY <1>1, StationAssumption
  DEF Destinations, get_path, get_route, TableCorrect

(* Every remote of n sends a copy of msg to addresses of p. *)
LEMMA DatagramsCorrect ==
  ASSUME NEW n \in Node, NEW p \in Node, NEW dests, dests \subseteq Sockets[p],
         NEW msg \in Packet \cup Keepalive, msg.peer_id = n,
         msg.type = "keepalive" => msg.tun_ip = TunIp[n],
         msg.type = "packet" => MeantFor(p, msg),
         NEW d \in Datagrams(n, dests, msg)
  PROVE  DatagramCorrect(d)
<1>1. PICK a \in Sockets[n], b \in dests : d = [from |-> a, to |-> b, msg |-> msg]
  BY DEF Datagrams
<1>2. a \in Addr /\ b \in Addr /\ b \in Sockets[p]
  BY SocketsAssumption
<1>3. d \in Datagram /\ d.from = a /\ d.to = b /\ d.msg = msg
  BY <1>1, <1>2 DEF Datagram
<1>4. \A m \in Node : d.to \in Sockets[m] => m = p
  BY <1>2, <1>3, OneOwner
<1>. QED  BY <1>1, <1>3, <1>4 DEF DatagramCorrect

(* The packets tunnelled for one packet from the local interface. *)
LEMMA TunnelledCorrect ==
  ASSUME Inv, NEW n \in Node, NEW pkt \in Traffic,
         pkt.src \in Station => Home[pkt.src] = n,
         NEW d \in TunnelledPackets(n, pkt)
  PROVE  DatagramCorrect(d)
<1>. DEFINE msg(p) == [type |-> "packet", seq |-> peers[n][p].tx_counter,
                       peer_id |-> n, bytes |-> pkt]
<1>1. PICK p \in Destinations(n, pkt) :
        d \in Datagrams(n, get_peer_connections(peers[n], p), msg(p))
  BY DEF TunnelledPackets
<1>2. p \in DOMAIN peers[n] /\ (pkt.dst \in Station => Home[pkt.dst] = p)
  BY DestinationFacts
<1>3. /\ p \in Node /\ IsPeer(peers[n][p], Addr, Packet)
      /\ DOMAIN peers[n][p].connections \subseteq Sockets[p]
  BY <1>2 DEF Inv, NodeCorrect, PeersCorrect, IsPeerList
<1>4. get_peer_connections(peers[n], p) \subseteq Sockets[p]
  BY <1>2, <1>3 DEF get_peer_connections
<1>5. msg(p) \in Packet
  BY <1>3, PeerFields DEF Packet
<1>6. msg(p).type = "packet" /\ msg(p).peer_id = n /\ msg(p).bytes = pkt
  OBVIOUS
<1>7. MeantFor(p, msg(p))
  BY <1>2, <1>6 DEF MeantFor
<1>. HIDE DEF msg
<1>. QED  BY <1>1, <1>3, <1>4, <1>5, <1>6, <1>7, DatagramsCorrect

(* get_peer_tx_counter unwraps peers that are there. *)
LEMMA LocalPacketKeeps ==
  ASSUME Inv, NEW n \in Node, NEW pkt \in Traffic,
         pkt.src \in Station => Home[pkt.src] = n, handle_packet_from_local(n, pkt)
  PROVE  KeepsNode(n) /\ OnlyNode(n)
<1>. DEFINE q == increment_tx_counters(peers[n], Destinations(n, pkt))
<1>1. NodeCorrect(n, peers[n], table[n], cm[n], delivered[n]) /\ PerNode
  BY DEF Inv
<1>2. /\ cm[n].phase = "select"
      /\ net' = net \cup TunnelledPackets(n, pkt)
      /\ peers' = [peers EXCEPT ![n] = q]
      /\ UNCHANGED <<cm, table, delivered>>
  BY DestinationFacts DEF handle_packet_from_local
<1>3. peers'[n] = q
  BY <1>1, <1>2 DEF PerNode
<1>4. IsPeerList(peers[n])
  BY <1>1 DEF NodeCorrect, PeersCorrect
<1>5. /\ IsPeerList(q) /\ DOMAIN q = DOMAIN peers[n]
      /\ \A p \in DOMAIN peers[n] :
           /\ q[p].connections = peers[n][p].connections
           /\ q[p].sequencer = peers[n][p].sequencer
           /\ q[p].tx_counter = IF p \in Destinations(n, pkt)
                THEN peers[n][p].tx_counter + 1 ELSE peers[n][p].tx_counter
  BY <1>4, IncrementFacts
<1>. HIDE DEF q
<1>6. NotRewound(peers[n], q)
  <2>1. \A p \in DOMAIN peers[n] : /\ peers[n][p].tx_counter \in Nat
                                   /\ peers[n][p].sequencer.next_seq \in Nat
    BY <1>4, PeerFields DEF IsPeerList
  <2>. QED  BY <1>5, <2>1 DEF NotRewound
<1>7. PeersCorrect(n, q)
  BY <1>1, <1>5 DEF NodeCorrect, PeersCorrect
<1>8. NodeCorrect(n, q, table[n], cm[n], delivered[n])
  BY <1>1, <1>2, <1>4, <1>5, <1>6, <1>7, TableKept, SelectKept, OutputKept DEF NodeCorrect
<1>9. \A d \in net' : DatagramCorrect(d)
  BY <1>2, TunnelledCorrect DEF Inv
<1>10. OnlyNode(n)
  BY <1>1, <1>2 DEF OnlyNode, PerNode
<1>. QED  BY <1>2, <1>3, <1>6, <1>8, <1>9, <1>10 DEF KeepsNode

(* A node whose task, peers, table and output stay as they are. *)
LEMMA SamePeersKeep ==
  ASSUME Inv, NEW n \in Node, UNCHANGED <<peers, table, delivered>>,
         TaskCorrect(peers[n], cm'[n]), \A d \in net' : DatagramCorrect(d)
  PROVE  KeepsNode(n)
<1>1. NodeCorrect(n, peers[n], table[n], cm[n], delivered[n])
  BY DEF Inv
<1>2. NotRewound(peers[n], peers[n])
  BY <1>1, NotRewoundRefl DEF NodeCorrect, PeersCorrect
<1>. QED  BY <1>1, <1>2 DEF KeepsNode, NodeCorrect

(* What arrives is what was sent. *)
LEMMA ArrivalFacts ==
  ASSUME Inv, NEW n \in Node, NEW d \in net, NEW t, Arrives(n, d, t)
  PROVE  /\ cm[n].phase = "select" /\ d.msg.type = t
         /\ DatagramCorrect(d)
         /\ d.from \in Addr /\ d.msg.peer_id \in Node
         /\ d.from \in Sockets[d.msg.peer_id]
         /\ t = "packet" => d.msg \in Packet /\ MeantFor(n, d.msg)
         /\ After(d) \subseteq net
<1>1. DatagramCorrect(d) /\ d.msg.type = t /\ d.to \in Sockets[n] /\ cm[n].phase = "select"
  BY DEF Inv, Arrives
<1>2. d.from \in Addr /\ d.msg \in Packet \cup Keepalive
  BY <1>1 DEF DatagramCorrect, Datagram
<1>3. d.msg.peer_id \in Node /\ (t = "packet" => d.msg \in Packet)
  BY <1>1, <1>2 DEF Packet, Keepalive
<1>. QED  BY <1>1, <1>2, <1>3 DEF DatagramCorrect, After

(* A packet goes into its sender's queue, or is dropped. *)
LEMMA IncomingPacketKeeps ==
  ASSUME Inv, NEW n \in Node, NEW d \in net, handle_incoming_packet(n, d)
  PROVE  KeepsNode(n) /\ OnlyNode(n)
<1>. DEFINE p == d.msg.peer_id
            s == insert_packet(peers[n][p].sequencer, d.msg)
            q == SetSequencer(peers[n], p, s)
<1>1. NodeCorrect(n, peers[n], table[n], cm[n], delivered[n]) /\ PerNode
  BY DEF Inv
<1>2. /\ Arrives(n, d, "packet") /\ net' = After(d) /\ UNCHANGED <<table, delivered>>
      /\ p \in DOMAIN peers[n] =>
           /\ peers' = [peers EXCEPT ![n] = q]
           /\ cm' = [cm EXCEPT ![n] = Releasing(n, p, s, TRUE, {})]
      /\ p \notin DOMAIN peers[n] => UNCHANGED <<peers, cm>>
  BY DEF handle_incoming_packet
<1>3. p \in Node /\ d.msg \in Packet /\ MeantFor(n, d.msg) /\ After(d) \subseteq net
  BY <1>2, ArrivalFacts
<1>4. \A e \in net' : DatagramCorrect(e)
  BY <1>2, <1>3 DEF Inv
<1>5. CASE p \notin DOMAIN peers[n]
  <2>1. UNCHANGED <<peers, cm, table, delivered>>
    BY <1>2, <1>5
  <2>2. KeepsNode(n)
    BY <1>1, <1>4, <2>1, SamePeersKeep DEF NodeCorrect
  <2>. QED  BY <1>1, <2>1, <2>2 DEF OnlyNode, PerNode
<1>6. CASE p \in DOMAIN peers[n]
  <2>1. /\ peers' = [peers EXCEPT ![n] = q]
        /\ cm' = [cm EXCEPT ![n] = Releasing(n, p, s, TRUE, {})]
    BY <1>2, <1>6
  <2>2. peers'[n] = q /\ cm'[n] = Releasing(n, p, s, TRUE, {}) /\ OnlyNode(n)
    BY <1>1, <1>2, <2>1 DEF OnlyNode, PerNode
  <2>3. PeersCorrect(n, peers[n])
    BY <1>1 DEF NodeCorrect
  <2>4. IsPeerList(peers[n]) /\ QueueCorrect(n, p, peers[n][p].sequencer)
    BY <1>6, <2>3 DEF PeersCorrect
  <2>5. /\ IsSequencer(peers[n][p].sequencer, Packet)
        /\ peers[n][p].sequencer.next_seq \in Nat
    BY <1>6, <2>4, PeerFields DEF IsPeerList
  <2>6. /\ IsSequencer(s, Packet) /\ QueueCorrect(n, p, s)
        /\ s.next_seq = peers[n][p].sequencer.next_seq
    BY <1>3, <2>4, <2>5, QueueInsert
  <2>7. s.next_seq >= peers[n][p].sequencer.next_seq
    BY <2>5, <2>6
  <2>. HIDE DEF s
  <2>8. /\ PeersCorrect(n, q) /\ NotRewound(peers[n], q) /\ q[p].sequencer = s
        /\ DOMAIN q = DOMAIN peers[n]
    BY <1>6, <2>3, <2>6, <2>7, SequencerReplaced
  <2>. HIDE DEF q
  <2>9. TaskCorrect(q, Releasing(n, p, s, TRUE, {}))
    BY <1>3, <1>6, <2>8, ReleasingCorrect
  <2>10. NodeCorrect(n, q, table[n], cm'[n], delivered[n])
    BY <1>1, <2>2, <2>4, <2>8, <2>9, TableKept, OutputKept DEF NodeCorrect, PeersCorrect
  <2>. QED  BY <1>2, <1>4, <2>2, <2>8, <2>10 DEF KeepsNode
<1>. QED  BY <1>5, <1>6

(* A peer that becomes known, or known at one more of its addresses. *)
LEMMA PeerAdded ==
  ASSUME NEW n, NEW pl, PeersCorrect(n, pl), NEW id \in Node,
         NEW a \in Addr, a \in Sockets[id], NEW q, q = add_peer(pl, id, a)
  PROVE  /\ PeersCorrect(n, q) /\ NotRewound(pl, q)
         /\ IsPeerList(q) /\ id \in DOMAIN q
<1>1. IsPeerList(pl)
  BY DEF PeersCorrect
<1>2. IsPeerList(q) /\ OneAddressMore(pl, id, a, q)
  BY <1>1, AddPeerFacts
<1>3. NotRewound(pl, q)
  BY <1>1, <1>2, NotRewoundRefl DEF NotRewound, OneAddressMore
<1>4. QueueCorrect(n, id, NewSequencer)
  BY NewSequencerFacts DEF QueueCorrect
<1>5. ASSUME NEW p \in DOMAIN q
      PROVE  DOMAIN q[p].connections \subseteq Sockets[p]
             /\ QueueCorrect(n, p, q[p].sequencer)
  <2>1. CASE p \in DOMAIN pl
    BY <1>2, <2>1 DEF PeersCorrect, OneAddressMore
  <2>2. CASE p \notin DOMAIN pl
    BY <1>2, <1>4, <2>2 DEF OneAddressMore
  <2>. QED  BY <2>1, <2>2
<1>. QED  BY <1>2, <1>3, <1>5 DEF PeersCorrect, OneAddressMore

(* n's keepalive is a message that names n. *)
LEMMA OwnKeepalive ==
  ASSUME NEW n \in Node
  PROVE  /\ own_keepalive(n) \in Packet \cup Keepalive
         /\ own_keepalive(n).type = "keepalive"
         /\ own_keepalive(n).peer_id = n /\ own_keepalive(n).tun_ip = TunIp[n]
BY StationsAssumption DEF own_keepalive, Keepalive

(* n sends its keepalive only to remotes of the peer it is for. *)
LEMMA KeepalivesCorrect ==
  ASSUME NEW n \in Node, NEW pl, PeersCorrect(n, pl), NEW p \in DOMAIN pl,
         NEW d \in Datagrams(n, get_peer_connections(pl, p), own_keepalive(n))
  PROVE  DatagramCorrect(d)
<1>1. p \in Node /\ get_peer_connections(pl, p) \subseteq Sockets[p]
  BY DEF PeersCorrect, IsPeerList, get_peer_connections
<1>. QED  BY <1>1, OwnKeepalive, DatagramsCorrect

(* A keepalive makes its sender known and, on Layer3, gives it a route. *)
LEMMA IncomingKeepaliveKeeps ==
  ASSUME Inv, NEW n \in Node, NEW d \in net, handle_incoming_keepalive(n, d)
  PROVE  KeepsNode(n) /\ OnlyNode(n)
<1>. DEFINE k == d.msg
            q == add_peer(peers[n], k.peer_id, d.from)
            answer == Datagrams(n, get_peer_connections(q, k.peer_id), own_keepalive(n))
            tb == insert_route(table[n], k.peer_id, k.tun_ip)
<1>1. NodeCorrect(n, peers[n], table[n], cm[n], delivered[n]) /\ PerNode
  BY DEF Inv
<1>2. Arrives(n, d, "keepalive") /\ peers' = [peers EXCEPT ![n] = q]
      /\ UNCHANGED <<cm, delivered>>
  BY DEF handle_incoming_keepalive
<1>3. peers'[n] = q
  BY <1>1, <1>2 DEF PerNode
<1>4. \/ /\ k.tun_ip \in Station
         /\ table' = [table EXCEPT ![n] = tb]
         /\ net' = After(d) \cup answer
      \/ net' = After(d) /\ UNCHANGED table
  BY <1>3 DEF handle_incoming_keepalive
<1>5. /\ cm[n].phase = "select" /\ k.type = "keepalive" /\ DatagramCorrect(d)
      /\ d.from \in Addr /\ k.peer_id \in Node /\ d.from \in Sockets[k.peer_id]
      /\ After(d) \subseteq net
  BY <1>2, ArrivalFacts
<1>6. /\ PeersCorrect(n, q) /\ NotRewound(peers[n], q)
      /\ IsPeerList(q) /\ k.peer_id \in DOMAIN q
  BY <1>1, <1>5, PeerAdded DEF NodeCorrect
<1>. HIDE DEF q
<1>7. TableCorrect(q, table[n])
  BY <1>1, <1>6, TableKept DEF NodeCorrect
<1>8. k.tun_ip \in Station => TableCorrect(q, tb)
  <2>1. k.tun_ip = TunIp[k.peer_id]
    BY <1>5 DEF DatagramCorrect
  <2>2. k.tun_ip \in Station => Home[k.tun_ip] = k.peer_id
    BY <1>5, <2>1, StationsAssumption
  <2>. QED  BY <1>5, <1>6, <1>7, <2>2, TableInsert DEF insert_route
<1>9. TableCorrect(q, table'[n])
  BY <1>1, <1>4, <1>7, <1>8 DEF PerNode
<1>10. \A e \in answer : DatagramCorrect(e)
  BY <1>6, KeepalivesCorrect
<1>11. \A e \in net' : DatagramCorrect(e)
  BY <1>4, <1>5, <1>10 DEF Inv
<1>12. IsPeerList(peers[n])
  BY <1>1 DEF NodeCorrect, PeersCorrect
<1>13. NodeCorrect(n, q, table'[n], cm[n], delivered[n])
  BY <1>1, <1>5, <1>6, <1>9, <1>12, SelectKept, OutputKept DEF NodeCorrect
<1>14. OnlyNode(n)
  BY <1>1, <1>2, <1>4 DEF OnlyNode, PerNode
<1>. QED  BY <1>2, <1>3, <1>6, <1>11, <1>13, <1>14 DEF KeepsNode

(* The tick starts with all the peers. *)
LEMMA SequencerTickKeeps ==
  ASSUME Inv, NEW n \in Node, SequencerTick(n)
  PROVE  KeepsNode(n) /\ OnlyNode(n)
<1>1. PerNode
  BY DEF Inv
<1>2. /\ cm' = [cm EXCEPT ![n] = Ticking(n, DOMAIN peers[n])]
      /\ UNCHANGED <<peers, table, net, delivered>>
  BY DEF SequencerTick
<1>3. cm'[n] = Ticking(n, DOMAIN peers[n]) /\ OnlyNode(n)
  BY <1>1, <1>2 DEF OnlyNode, PerNode
<1>4. TaskCorrect(peers[n], cm'[n])
  BY <1>3, TickingCorrect
<1>. QED  BY <1>2, <1>3, <1>4, SamePeersKeep DEF Inv

(* The tick takes the next peer, whose deadline may have passed. *)
LEMMA TickPeerKeeps ==
  ASSUME Inv, NEW n \in Node, NEW p \in Node, TickPeer(n, p)
  PROVE  KeepsNode(n) /\ OnlyNode(n)
<1>. DEFINE todo == cm[n].todo \ {p}
            s == advance_queue(peers[n][p].sequencer)
            q == SetSequencer(peers[n], p, s)
<1>1. NodeCorrect(n, peers[n], table[n], cm[n], delivered[n]) /\ PerNode
  BY DEF Inv
<1>2. /\ p \in cm[n].todo /\ UNCHANGED <<table, net, delivered>>
      /\ \/ /\ peers' = [peers EXCEPT ![n] = q]
            /\ cm' = [cm EXCEPT ![n] = Releasing(n, p, s, FALSE, todo)]
         \/ /\ cm' = [cm EXCEPT ![n] = Ticking(n, todo)]
            /\ UNCHANGED peers
  BY DEF TickPeer
<1>3. p \in DOMAIN peers[n] /\ todo \in SUBSET (DOMAIN peers[n])
  BY <1>1, <1>2 DEF NodeCorrect, TaskCorrect
<1>4. \A d \in net' : DatagramCorrect(d)
  BY <1>2 DEF Inv
<1>. HIDE DEF todo
<1>5. CASE cm' = [cm EXCEPT ![n] = Ticking(n, todo)] /\ UNCHANGED peers
  <2>1. cm'[n] = Ticking(n, todo) /\ OnlyNode(n)
    BY <1>1, <1>2, <1>5 DEF OnlyNode, PerNode
  <2>2. TaskCorrect(peers[n], cm'[n])
    BY <1>3, <2>1, TickingCorrect
  <2>. QED  BY <1>2, <1>4, <1>5, <2>1, <2>2, SamePeersKeep
<1>6. CASE /\ peers' = [peers EXCEPT ![n] = q]
           /\ cm' = [cm EXCEPT ![n] = Releasing(n, p, s, FALSE, todo)]
  <2>1. peers'[n] = q /\ cm'[n] = Releasing(n, p, s, FALSE, todo) /\ OnlyNode(n)
    BY <1>1, <1>2, <1>6 DEF OnlyNode, PerNode
  <2>2. PeersCorrect(n, peers[n])
    BY <1>1 DEF NodeCorrect
  <2>3. IsPeerList(peers[n]) /\ QueueCorrect(n, p, peers[n][p].sequencer)
    BY <1>3, <2>2 DEF PeersCorrect
  <2>4. IsSequencer(peers[n][p].sequencer, Packet)
    BY <1>3, <2>3, PeerFields DEF IsPeerList
  <2>5. /\ IsSequencer(s, Packet) /\ QueueCorrect(n, p, s)
        /\ s.next_seq >= peers[n][p].sequencer.next_seq
    BY <2>3, <2>4, QueueAdvance
  <2>. HIDE DEF s
  <2>6. /\ PeersCorrect(n, q) /\ NotRewound(peers[n], q) /\ q[p].sequencer = s
        /\ DOMAIN q = DOMAIN peers[n]
    BY <1>3, <2>2, <2>5, SequencerReplaced
  <2>. HIDE DEF q
  <2>7. TaskCorrect(q, Releasing(n, p, s, FALSE, todo))
    BY <1>3, <2>6, ReleasingCorrect
  <2>8. NodeCorrect(n, q, table[n], cm'[n], delivered[n])
    BY <1>1, <2>1, <2>3, <2>6, <2>7, TableKept, OutputKept DEF NodeCorrect, PeersCorrect
  <2>. QED  BY <1>2, <1>4, <2>1, <2>6, <2>8 DEF KeepsNode
<1>. QED  BY <1>2, <1>5, <1>6

(* The next packet of p is later than all that were handed over. *)
LEMMA OutputGrows ==
  ASSUME NEW n, NEW pl, NEW q, IsPeerList(pl), IsPeerList(q), NotRewound(pl, q),
         NEW out, OutputCorrect(n, pl, out), NEW p \in DOMAIN pl,
         NEW pkt \in Packet, pkt.peer_id = p, pkt.seq = pl[p].sequencer.next_seq,
         q[p].sequencer.next_seq = pkt.seq + 1, MeantFor(n, pkt)
  PROVE  OutputCorrect(n, q, Append(out, pkt))
<1>. DEFINE more == Append(out, pkt)
<1>1. out \in Seq(Packet) /\ OutputCorrect(n, q, out)
  BY OutputKept DEF OutputCorrect
<1>2. /\ more \in Seq(Packet) /\ Len(out) \in Nat /\ Len(more) = Len(out) + 1
      /\ DOMAIN out = 1..Len(out) /\ DOMAIN more = 1..(Len(out) + 1)
      /\ \A i \in 1..Len(out) : more[i] = out[i]
      /\ more[Len(out) + 1] = pkt
  BY <1>1, AppendProperties, LenProperties
<1>. HIDE DEF more
<1>3. pkt.seq \in Nat
  BY DEF Packet
<1>4. ASSUME NEW i \in DOMAIN more
      PROVE  /\ more[i].peer_id \in DOMAIN q
             /\ more[i].seq < q[more[i].peer_id].sequencer.next_seq
             /\ MeantFor(n, more[i])
  <2>1. CASE i \in DOMAIN out
    BY <1>1, <1>2, <2>1 DEF OutputCorrect
  <2>2. CASE i = Len(out) + 1
    <3>1. more[i] = pkt /\ p \in DOMAIN q
      BY <1>2, <2>2 DEF NotRewound
    <3>2. pkt.seq < pkt.seq + 1
      BY <1>3
    <3>. QED  BY <3>1, <3>2
  <2>. QED  BY <1>2, <2>1, <2>2
<1>5. ASSUME NEW i \in DOMAIN more, NEW j \in DOMAIN more,
             i < j, more[i].peer_id = more[j].peer_id
      PROVE  more[i].seq < more[j].seq
  <2>1. i \in DOMAIN out
    BY <1>2, <1>5
  <2>2. CASE j \in DOMAIN out
    BY <1>1, <1>2, <1>5, <2>1, <2>2 DEF OutputCorrect
  <2>3. CASE j = Len(out) + 1
    <3>1. more[i] = out[i] /\ more[j] = pkt /\ out[i].peer_id = p
      BY <1>2, <1>5, <2>1, <2>3
    <3>2. out[i].seq < pl[p].sequencer.next_seq
      BY <2>1, <3>1 DEF OutputCorrect
    <3>. QED  BY <3>1, <3>2
  <2>. QED  BY <1>2, <2>2, <2>3
<1>. QED  BY <1>2, <1>4, <1>5 DEF OutputCorrect, more

(* The path that is learned leads to the sender's home. *)
LEMMA PathLearned ==
  ASSUME NEW n, NEW pl, NEW tb, TableCorrect(pl, tb), NEW pkt \in Packet,
         pkt.peer_id \in DOMAIN pl, MeantFor(n, pkt)
  PROVE  TableCorrect(pl, learn_path(tb, pkt.peer_id, pkt.bytes))
<1>1. pkt.peer_id \in Node
  BY DEF Packet
<1>2. pkt.bytes.src \in Station => Home[pkt.bytes.src] = pkt.peer_id
  BY DEF MeantFor
<1>. QED  BY <1>1, <1>2, TableInsert DEF learn_path

(* A packet leaves its queue for the local interface. *)
LEMMA ReleaseKeeps ==
  ASSUME Inv, NEW n \in Node, ReleaseNext(n)
  PROVE  KeepsNode(n) /\ OnlyNode(n)
<1>p. PICK p : p = cm[n].peer
  OBVIOUS
<1>s. PICK s : s = peers[n][p].sequencer
  OBVIOUS
<1>t. PICK t : t = get_next_packet(s)
  OBVIOUS
<1>q. PICK q : q = SetSequencer(peers[n], p, t)
  OBVIOUS
<1>k. PICK pkt : pkt = next_packet(s)
  OBVIOUS
<1>1. NodeCorrect(n, peers[n], table[n], cm[n], delivered[n]) /\ PerNode
  BY DEF Inv
<1>2. /\ cm[n].phase = "draining"
      /\ table' = [table EXCEPT ![n] =
           IF Layer = "Layer2" /\ cm[n].learn
           THEN learn_path(@, pkt.peer_id, pkt.bytes) ELSE @]
      /\ delivered' = [delivered EXCEPT ![n] = Append(@, pkt)]
      /\ peers' = [peers EXCEPT ![n] = q]
      /\ cm' = [cm EXCEPT ![n] = Releasing(n, p, t, cm[n].learn, cm[n].todo)]
      /\ UNCHANGED net
  BY <1>p, <1>s, <1>t, <1>q, <1>k DEF ReleaseNext
<1>3. /\ peers'[n] = q /\ delivered'[n] = Append(delivered[n], pkt)
      /\ cm'[n] = Releasing(n, p, t, cm[n].learn, cm[n].todo)
      /\ \/ table'[n] = learn_path(table[n], pkt.peer_id, pkt.bytes)
         \/ table'[n] = table[n]
  BY <1>1, <1>2 DEF PerNode
<1>4. OnlyNode(n)
  BY <1>1, <1>2 DEF OnlyNode, PerNode
<1>5. /\ p \in Node /\ p \in DOMAIN peers[n] /\ have_next_packet(s)
      /\ cm[n].learn \in BOOLEAN /\ cm[n].todo \in SUBSET (DOMAIN peers[n])
  BY <1>p, <1>s, <1>1, <1>2 DEF NodeCorrect, TaskCorrect
<1>6. PeersCorrect(n, peers[n]) /\ IsPeerList(peers[n])
  BY <1>1 DEF NodeCorrect, PeersCorrect
<1>7. QueueCorrect(n, p, s)
  BY <1>s, <1>5, <1>6 DEF PeersCorrect
<1>8. IsSequencer(s, Packet)
  BY <1>s, <1>5, <1>6, PeerFields DEF IsPeerList
<1>9. /\ IsSequencer(t, Packet) /\ QueueCorrect(n, p, t)
      /\ s.next_seq \in Nat /\ t.next_seq = s.next_seq + 1
      /\ pkt \in Packet /\ pkt.seq = s.next_seq /\ pkt.peer_id = p /\ MeantFor(n, pkt)
  BY <1>t, <1>k, <1>5, <1>7, <1>8, QueueRelease
<1>10. t.next_seq >= peers[n][p].sequencer.next_seq /\ t.next_seq = pkt.seq + 1
  BY <1>s, <1>9
<1>11. /\ PeersCorrect(n, q) /\ NotRewound(peers[n], q) /\ DOMAIN q = DOMAIN peers[n]
       /\ q[p].sequencer = t
  BY <1>q, <1>5, <1>6, <1>9, <1>10, SequencerReplaced
<1>12. TaskCorrect(q, cm'[n])
  BY <1>3, <1>5, <1>11, ReleasingCorrect, Zenon
<1>13. TableCorrect(q, table[n])
  BY <1>1, <1>11, TableKept DEF NodeCorrect
<1>14. TableCorrect(q, table'[n])
  BY <1>3, <1>5, <1>9, <1>11, <1>13, PathLearned
<1>15. IsPeerList(q) /\ OutputCorrect(n, peers[n], delivered[n])
  BY <1>1, <1>11 DEF NodeCorrect, PeersCorrect
<1>16. OutputCorrect(n, q, Append(delivered[n], pkt))
  <2>1. pkt.seq = peers[n][p].sequencer.next_seq /\ q[p].sequencer.next_seq = pkt.seq + 1
    BY <1>s, <1>9, <1>10, <1>11
  <2>. QED  BY <1>5, <1>6, <1>9, <1>11, <1>15, <2>1, OutputGrows
<1>17. \A d \in net' : DatagramCorrect(d)
  BY <1>2 DEF Inv
<1>. QED
  BY <1>3, <1>4, <1>11, <1>12, <1>14, <1>16, <1>17 DEF KeepsNode, NodeCorrect

(* Pruning takes addresses away. *)
LEMMA MaintenanceKeeps ==
  ASSUME Inv, NEW n \in Node, Maintenance(n)
  PROVE  KeepsNode(n) /\ OnlyNode(n)
<1>. DEFINE q == prune_stale_peers(peers[n])
<1>1. NodeCorrect(n, peers[n], table[n], cm[n], delivered[n]) /\ PerNode
  BY DEF Inv
<1>2. /\ cm[n].phase = "select" /\ peers' = [peers EXCEPT ![n] = q]
      /\ UNCHANGED <<table, cm, net, delivered>>
  BY DEF Maintenance
<1>3. peers'[n] = q /\ OnlyNode(n)
  BY <1>1, <1>2 DEF OnlyNode, PerNode
<1>4. PeersCorrect(n, peers[n]) /\ IsPeerList(peers[n])
  BY <1>1 DEF NodeCorrect, PeersCorrect
<1>5. /\ IsPeerList(q) /\ DOMAIN q = DOMAIN peers[n]
      /\ \A p \in DOMAIN peers[n] :
           /\ DOMAIN q[p].connections \subseteq DOMAIN peers[n][p].connections
           /\ q[p].tx_counter = peers[n][p].tx_counter
           /\ q[p].sequencer = peers[n][p].sequencer
  BY <1>4, PruneFacts
<1>. HIDE DEF q
<1>6. PeersCorrect(n, q) /\ NotRewound(peers[n], q)
  BY <1>4, <1>5, PeersKept
<1>7. NodeCorrect(n, q, table[n], cm[n], delivered[n])
  BY <1>1, <1>2, <1>4, <1>5, <1>6, TableKept, SelectKept, OutputKept DEF NodeCorrect
<1>. QED  BY <1>2, <1>3, <1>6, <1>7 DEF KeepsNode, Inv

(* Keepalives to all the peers' addresses. *)
LEMMA KeepaliveKeeps ==
  ASSUME Inv, NEW n \in Node, handle_keepalive(n)
  PROVE  KeepsNode(n) /\ OnlyNode(n)
<1>. DEFINE all == get_all_connections(peers[n])
<1>1. NodeCorrect(n, peers[n], table[n], cm[n], delivered[n]) /\ PerNode
  BY DEF Inv
<1>2. /\ net' = net \cup Datagrams(n, all, own_keepalive(n))
      /\ UNCHANGED <<peers, table, cm, delivered>>
  BY DEF handle_keepalive
<1>3. ASSUME NEW d \in Datagrams(n, all, own_keepalive(n))
      PROVE  DatagramCorrect(d)
  <2>1. PICK a \in Sockets[n], b \in all :
          d = [from |-> a, to |-> b, msg |-> own_keepalive(n)]
    BY DEF Datagrams
  <2>2. PICK p \in DOMAIN peers[n] : b \in get_peer_connections(peers[n], p)
    BY DEF get_all_connections
  <2>3. d \in Datagrams(n, get_peer_connections(peers[n], p), own_keepalive(n))
    BY <2>1, <2>2 DEF Datagrams
  <2>. QED  BY <1>1, <2>3, KeepalivesCorrect DEF NodeCorrect
<1>4. \A d \in net' : DatagramCorrect(d)
  BY <1>2, <1>3 DEF Inv
<1>5. OnlyNode(n) /\ TaskCorrect(peers[n], cm'[n])
  BY <1>1, <1>2 DEF OnlyNode, PerNode, NodeCorrect
<1>. QED  BY <1>2, <1>4, <1>5, SamePeersKeep

(* Time passes at all the nodes. *)
LEMMA TimeKeeps ==
  ASSUME Inv, MillisecondPasses \/ LongTimePasses
  PROVE  Inv' /\ \A n \in Node : NotRewound(peers[n], peers'[n])
<1>1. PerNode' /\ UNCHANGED <<table, cm, net, delivered>>
  BY DEF Inv, PerNode, MillisecondPasses, LongTimePasses
<1>2. ASSUME NEW n \in Node
      PROVE  /\ NodeCorrect(n, peers'[n], table[n], cm[n], delivered[n])
             /\ NotRewound(peers[n], peers'[n])
  <2>1. NodeCorrect(n, peers[n], table[n], cm[n], delivered[n])
    BY DEF Inv
  <2>2. PICK q : q = peers'[n]
    OBVIOUS
  <2>3. q = ElapseShort(peers[n]) \/ q = ElapseLong(peers[n])
    BY <2>2 DEF MillisecondPasses, LongTimePasses
  <2>4. PeersCorrect(n, peers[n]) /\ IsPeerList(peers[n])
    BY <2>1 DEF NodeCorrect, PeersCorrect
  <2>5. /\ IsPeerList(q) /\ DOMAIN q = DOMAIN peers[n]
        /\ \A p \in DOMAIN peers[n] :
             /\ DOMAIN q[p].connections = DOMAIN peers[n][p].connections
             /\ q[p].tx_counter = peers[n][p].tx_counter
             /\ q[p].sequencer.packet_queue = peers[n][p].sequencer.packet_queue
             /\ q[p].sequencer.next_seq = peers[n][p].sequencer.next_seq
    BY <2>3, <2>4, TimeFacts
  <2>6. PeersCorrect(n, q) /\ NotRewound(peers[n], q)
    BY <2>4, <2>5, PeersKept
  <2>7. TaskCorrect(q, cm[n])
    <3>1. TaskCorrect(peers[n], cm[n])
      BY <2>1 DEF NodeCorrect
    <3>2. \A p \in DOMAIN peers[n] : have_next_packet(peers[n][p].sequencer)
                                       => have_next_packet(q[p].sequencer)
      BY <2>5, SameQueue
    <3>. QED  BY <2>5, <3>1, <3>2 DEF TaskCorrect
  <2>8. NodeCorrect(n, q, table[n], cm[n], delivered[n])
    BY <2>1, <2>4, <2>5, <2>6, <2>7, TableKept, OutputKept DEF NodeCorrect
  <2>. QED  BY <2>2, <2>6, <2>8
<1>. QED  BY <1>1, <1>2 DEF Inv
-----------------------------------------------------------------------------
(***************************************************************************)
(* The theorems.                                                           *)
(***************************************************************************)

(* Initially a node knows the peers of its settings file. *)
LEMMA InvInit == Init => Inv
<1>. SUFFICES ASSUME Init PROVE Inv
  OBVIOUS
<1>1. PerNode
  BY DEF Init, PerNode
<1>2. ASSUME NEW n \in Node
      PROVE  NodeCorrect(n, peers[n], table[n], cm[n], delivered[n])
  <2>. DEFINE pl == NewPeerList(Config[n])
  <2>1. peers[n] = pl /\ table[n] = EmptyTable /\ cm[n] = Idle(n) /\ delivered[n] = << >>
    BY DEF Init
  <2>2. DOMAIN pl = DOMAIN Config[n] /\ DOMAIN pl \subseteq Node
    BY ConfigAssumption DEF NewPeerList
  <2>3. ASSUME NEW p \in DOMAIN pl
        PROVE  /\ IsPeer(pl[p], Addr, Packet)
               /\ DOMAIN pl[p].connections \subseteq Sockets[p]
               /\ QueueCorrect(n, p, pl[p].sequencer)
    <3>1. pl[p] = NewPeer(Config[n][p]) /\ Config[n][p] \subseteq Sockets[p]
      BY <2>2, ConfigAssumption DEF NewPeerList
    <3>2. Config[n][p] \subseteq Addr
      BY <2>2, <3>1, SocketsAssumption
    <3>3. QueueCorrect(n, p, NewSequencer)
      BY NewSequencerFacts DEF QueueCorrect
    <3>. QED  BY <3>1, <3>2, <3>3, NewPeerFacts
  <2>4. PeersCorrect(n, pl)
    BY <2>2, <2>3 DEF PeersCorrect, IsPeerList
  <2>5. TableCorrect(pl, EmptyTable)
    BY DEF TableCorrect, EmptyTable
  <2>6. TaskCorrect(pl, Idle(n))
    BY DEF TaskCorrect, Idle
  <2>7. OutputCorrect(n, pl, << >>)
    BY DEF OutputCorrect
  <2>. QED  BY <2>1, <2>4, <2>5, <2>6, <2>7 DEF NodeCorrect
<1>. QED  BY <1>1, <1>2 DEF Inv, Init

(* A step of one node keeps the invariant of all. *)
LEMMA NodeStep ==
  ASSUME Inv, NEW n \in Node, KeepsNode(n), OnlyNode(n)
  PROVE  Inv' /\ \A m \in Node : NotRewound(peers[m], peers'[m])
<1>1. ASSUME NEW m \in Node
      PROVE  /\ NodeCorrect(m, peers'[m], table'[m], cm'[m], delivered'[m])
             /\ NotRewound(peers[m], peers'[m])
  <2>1. CASE m = n
    BY <2>1 DEF KeepsNode
  <2>2. CASE m # n
    <3>1. NodeCorrect(m, peers[m], table[m], cm[m], delivered[m])
      BY DEF Inv
    <3>2. peers'[m] = peers[m] /\ table'[m] = table[m]
          /\ cm'[m] = cm[m] /\ delivered'[m] = delivered[m]
      BY <2>2 DEF OnlyNode
    <3>3. NotRewound(peers[m], peers[m])
      BY <3>1, NotRewoundRefl DEF NodeCorrect, PeersCorrect
    <3>. QED  BY <3>1, <3>2, <3>3
  <2>. QED  BY <2>1, <2>2
<1>2. PerNode' /\ \A d \in net' : DatagramCorrect(d)
  BY DEF KeepsNode, OnlyNode
<1>. QED  BY <1>1, <1>2 DEF Inv

(* Every step keeps the invariant and sets no counter back. *)
LEMMA InvNext ==
  ASSUME Inv, [Next]_vars
  PROVE  Inv' /\ \A n \in Node : NotRewound(peers[n], peers'[n])
<1>1. CASE UNCHANGED vars
  <2>1. UNCHANGED <<peers, table, cm, net, delivered>>
    BY <1>1 DEF vars
  <2>2. Inv'
    BY <2>1 DEF Inv, PerNode
  <2>3. \A n \in Node : IsPeerList(peers[n])
    BY DEF Inv, NodeCorrect, PeersCorrect
  <2>. QED  BY <2>1, <2>2, <2>3, NotRewoundRefl
<1>2. CASE MillisecondPasses \/ LongTimePasses
  BY <1>2, TimeKeeps
<1>3. ASSUME NEW n \in Node, NEW pkt \in Traffic,
             pkt.src \in Station => Home[pkt.src] = n,
             handle_packet_from_local(n, pkt)
      PROVE  Inv' /\ \A m \in Node : NotRewound(peers[m], peers'[m])
  BY <1>3, LocalPacketKeeps, NodeStep
<1>4. ASSUME NEW n \in Node, NEW d \in net,
             handle_incoming_packet(n, d) \/ handle_incoming_keepalive(n, d)
      PROVE  Inv' /\ \A m \in Node : NotRewound(peers[m], peers'[m])
  BY <1>4, IncomingPacketKeeps, IncomingKeepaliveKeeps, NodeStep
<1>5. ASSUME NEW n \in Node,
             \/ SequencerTick(n)
             \/ \E p \in Node : TickPeer(n, p)
             \/ ReleaseNext(n)
             \/ Maintenance(n)
             \/ handle_keepalive(n)
      PROVE  Inv' /\ \A m \in Node : NotRewound(peers[m], peers'[m])
  BY <1>5, SequencerTickKeeps, TickPeerKeeps, ReleaseKeeps, MaintenanceKeeps,
     KeepaliveKeeps, NodeStep
<1>. QED  BY <1>1, <1>2, <1>3, <1>4, <1>5 DEF Next

(* The inductive invariant of handle_packet_from_local,                    *)
(* handle_incoming_packet, handle_incoming_keepalive, the ticks and the    *)
(* release loops of any number of connected instances.                     *)
THEOREM ManagerInvariant == Spec => []Inv
<1>1. Inv /\ [Next]_vars => Inv'
  BY InvNext
<1>. QED  BY InvInit, <1>1, PTL DEF Spec

(* The invariant gives the types. *)
LEMMA InvTypes == Inv => TypeOK
<1>. SUFFICES ASSUME Inv PROVE TypeOK
  OBVIOUS
<1>1. ASSUME NEW n \in Node
      PROVE  /\ IsPeerList(peers[n])
             /\ DOMAIN table[n] \subseteq Station
             /\ table[n] \in [DOMAIN table[n] -> Node]
             /\ cm[n] \in [phase : {"select", "tick", "draining", "panicked"},
                           peer : Node, learn : BOOLEAN, todo : SUBSET Node]
             /\ delivered[n] \in Seq(Packet)
  <2>1. /\ IsPeerList(peers[n]) /\ TableCorrect(peers[n], table[n])
        /\ TaskCorrect(peers[n], cm[n]) /\ delivered[n] \in Seq(Packet)
    BY DEF Inv, NodeCorrect, PeersCorrect, OutputCorrect
  <2>2. SUBSET (DOMAIN peers[n]) \subseteq SUBSET Node
    BY <2>1 DEF IsPeerList
  <2>. QED  BY <2>1, <2>2 DEF TableCorrect, TaskCorrect
<1>2. PerNode /\ net \subseteq Datagram
  BY DEF Inv, DatagramCorrect
<1>3. /\ cm \in [Node -> [phase : {"select", "tick", "draining", "panicked"},
                          peer : Node, learn : BOOLEAN, todo : SUBSET Node]]
      /\ delivered \in [Node -> Seq(Packet)]
  BY <1>1, <1>2 DEF PerNode
<1>. QED  BY <1>1, <1>2, <1>3 DEF TypeOK, PerNode

(* Peer lists, tables, tasks, datagrams and what is handed over keep their *)
(* types; in particular a task in the tick only has peers ahead of it.     *)
THEOREM ManagerTypes == Spec => []TypeOK
BY ManagerInvariant, InvTypes, PTL

(* get_peer_tx_counter in handle_packet_from_local never unwraps None: no  *)
(* order of keepalives, pruning and traffic makes a task panic.            *)
THEOREM PanicFree == Spec => []NoPanic
<1>1. Inv => NoPanic
  BY DEF Inv, NodeCorrect, TaskCorrect, NoPanic
<1>. QED  BY ManagerInvariant, <1>1, PTL

(* add_peer, from the settings file or a keepalive, gives a peer only its  *)
(* own addresses, so packets and keepalives for it go nowhere else.        *)
THEOREM AddressesCorrect == Spec => []AddressesOwned
<1>1. Inv => AddressesOwned
  BY DEF Inv, NodeCorrect, PeersCorrect, AddressesOwned
<1>. QED  BY ManagerInvariant, <1>1, PTL

(* What get_path, get_route, learn_path and insert_route do brings every   *)
(* packet only to the network it is for, attributed to its true sender.    *)
THEOREM DeliveryCorrect == Spec => []NoMisdelivery
<1>1. Inv => NoMisdelivery
  BY DEF Inv, NodeCorrect, OutputCorrect, NoMisdelivery
<1>. QED  BY ManagerInvariant, <1>1, PTL

(* The release loops of a node hand over each peer's packets in the order  *)
(* of its counter and each once, for any number of peers.                  *)
THEOREM OrderPerPeer == Spec => []InOrderPerPeer
<1>1. Inv => InOrderPerPeer
  BY DEF Inv, NodeCorrect, OutputCorrect, InOrderPerPeer
<1>. QED  BY ManagerInvariant, <1>1, PTL

(* No handler, prune_stale_peers and add_peer included, loses a peer or    *)
(* sets its tx_counter or its sequencer's next_seq back.                   *)
THEOREM CountersCorrect == Spec => CountersNeverRewind
<1>1. Inv /\ [Next]_vars => [\A n \in Node : NotRewound(peers[n], peers'[n])]_vars
  BY InvNext
<1>. QED  BY ManagerInvariant, <1>1, PTL DEF Spec, CountersNeverRewind
=============================================================================
