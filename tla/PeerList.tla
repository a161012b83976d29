------------------------------- MODULE PeerList -------------------------------
(***************************************************************************)
(* The peers a node knows (src/src/peer_list.rs), as operators on a        *)
(* function from peer ids to records                                       *)
(*                                                                         *)
(*   connections  the peer's socket addresses, each with the time since it *)
(*                was last seen, counted up to StaleLimit                  *)
(*   tx_counter   the number of the next packet tunnelled to the peer      *)
(*   sequencer    the reordering buffer for packets from the peer          *)
(***************************************************************************)
EXTENDS Sequencer

CONSTANT StaleLimit   \* PeerList::stale_time_limit; 30 s in the code

ASSUME StaleLimitAssumption == StaleLimit \in Nat

(* struct Peer, for socket addresses in A and packets in P. *)
IsPeer(p, A, P) ==
  /\ DOMAIN p.connections \subseteq A
  /\ p \in [connections : [DOMAIN p.connections -> 0..StaleLimit],
            tx_counter : Nat, sequencer : {p.sequencer}]
  /\ IsSequencer(p.sequencer, P)

NewPeer(addresses) ==
  [connections |-> [a \in addresses |-> 0],
   tx_counter  |-> 0,
   sequencer   |-> NewSequencer]

(* PeerList::new for the settings file's peers, a function from peer ids   *)
(* to sets of addresses.                                                   *)
NewPeerList(config) == [id \in DOMAIN config |-> NewPeer(config[id])]

(***************************************************************************)
(* Faulty variants.                                                        *)
(***************************************************************************)
AddPeerAfresh(peers, peer_id, address) ==   \* a known peer starts over
  [id \in DOMAIN peers \cup {peer_id} |->
     IF id = peer_id THEN NewPeer({address}) ELSE peers[id]]

AddPeerKeepsAge(peers, peer_id, address) == \* last seen is not updated
  IF peer_id \in DOMAIN peers /\ address \in DOMAIN peers[peer_id].connections
  THEN peers
  ELSE [id \in DOMAIN peers \cup {peer_id} |->
          IF id = peer_id THEN NewPeer({address}) ELSE peers[id]]

PruneEarly(peers) ==             \* a third of the limit
  [id \in DOMAIN peers |->
     [peers[id] EXCEPT !.connections =
        [a \in {b \in DOMAIN @ : @[b] * 3 < StaleLimit} |-> @[a]]]]

PruneDropsPeers(peers) ==        \* a peer without addresses is forgotten
  LET Fresh(id) == {a \in DOMAIN peers[id].connections :
                      peers[id].connections[a] < StaleLimit}
  IN  [id \in {i \in DOMAIN peers : Fresh(i) # {}} |->
         [peers[id] EXCEPT !.connections = [a \in Fresh(id) |-> @[a]]]]

-----------------------------------------------------------------------------
add_peer(peers, peer_id, address) ==
  LET known == IF peer_id \in DOMAIN peers THEN peers[peer_id] ELSE NewPeer({})
      seen  == [a \in DOMAIN known.connections \cup {address} |->
                  IF a = address THEN 0 ELSE known.connections[a]]
  IN  [id \in DOMAIN peers \cup {peer_id} |->
         IF id = peer_id
         THEN [connections |-> seen, tx_counter |-> known.tx_counter,
               sequencer |-> known.sequencer]
         ELSE peers[id]]

get_peer_connections(peers, peer_id) ==
  IF peer_id \in DOMAIN peers THEN DOMAIN peers[peer_id].connections ELSE {}

get_all_connections(peers) ==
  UNION {get_peer_connections(peers, id) : id \in DOMAIN peers}

(* Only the addresses go: the peer, its counter and its sequencer stay. *)
prune_stale_peers(peers) ==
  [id \in DOMAIN peers |->
     [connections |-> [a \in {b \in DOMAIN peers[id].connections :
                                peers[id].connections[b] < StaleLimit} |->
                         peers[id].connections[a]],
      tx_counter  |-> peers[id].tx_counter,
      sequencer   |-> peers[id].sequencer]]

(* get_peer_sequencer hands out a reference; s is what is stored through it. *)
SetSequencer(peers, peer_id, s) == [peers EXCEPT ![peer_id].sequencer = s]

(* increment_peer_tx_counter for every peer in ids. *)
increment_tx_counters(peers, ids) ==
  [id \in DOMAIN peers |->
     IF id \in ids
     THEN [connections |-> peers[id].connections,
           tx_counter  |-> peers[id].tx_counter + 1,
           sequencer   |-> peers[id].sequencer]
     ELSE peers[id]]

(* Time passes: a millisecond, which only the sequencers notice, or one of *)
(* the long units that stale_time_limit counts, which is far beyond every  *)
(* sequencer's deadline.                                                   *)
ElapseShort(peers) ==
  [id \in DOMAIN peers |->
     [connections |-> peers[id].connections,
      tx_counter  |-> peers[id].tx_counter,
      sequencer   |-> Elapse(peers[id].sequencer)]]

ElapseLong(peers) ==
  [id \in DOMAIN peers |->
     [connections |-> [a \in DOMAIN peers[id].connections |->
                         IF peers[id].connections[a] < StaleLimit
                         THEN peers[id].connections[a] + 1
                         ELSE StaleLimit],
      tx_counter  |-> peers[id].tx_counter,
      sequencer   |-> [peers[id].sequencer EXCEPT !.since_update = DeadlineMs + 1]]]
=============================================================================
