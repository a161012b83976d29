---------------------------- MODULE TrafficDirector ----------------------------
(***************************************************************************)
(* Which peer a packet read from the local interface goes to               *)
(* (src/src/traffic_director.rs): operators on a table from station        *)
(* addresses to peer ids, the mac_table of Layer2Director and the          *)
(* routing_table of Layer3Director.                                        *)
(*                                                                         *)
(* A packet is a record [src, dst] of what the parser finds in it: a       *)
(* station, Broadcast, or NoAddress where extract_ether_src,               *)
(* extract_ether_dst or extract_destination_address return None.           *)
(***************************************************************************)
CONSTANTS
  Station,     \* MAC addresses (Layer2) or tunnel IP addresses (Layer3)
  Broadcast,   \* ff:ff:ff:ff:ff:ff
  NoAddress    \* None

ASSUME StationAssumption ==
  /\ Broadcast \notin Station
  /\ NoAddress \notin Station
  /\ Broadcast # NoAddress

EmptyTable == [s \in {} |-> s]

(* Faulty variant: a frame to an unknown station is flooded. *)
FloodUnknown(table, pkt, ids) ==
  IF pkt.dst \in DOMAIN table THEN {table[pkt.dst]} ELSE ids

-----------------------------------------------------------------------------
(* HashMap::insert of a key that is absent; the entry is never replaced. *)
InsertNew(table, station, peer_id) ==
  [s \in DOMAIN table \cup {station} |->
     IF s \in DOMAIN table THEN table[s] ELSE peer_id]

learn_path(table, peer_id, pkt) ==
  IF pkt.src \in Station THEN InsertNew(table, pkt.src, peer_id) ELSE table

insert_route(table, peer_id, address) == InsertNew(table, address, peer_id)
is_new_route(table, address) == address \notin DOMAIN table

(* Layer2Director::get_path: the peers a frame goes to, all of them        *)
(* (ids) for a broadcast and none for an unknown destination.              *)
get_path(table, pkt, ids) ==
  IF pkt.dst = Broadcast THEN ids ELSE {table[s] : s \in {pkt.dst} \cap DOMAIN table}

(* Layer3Director::get_route *)
get_route(table, pkt) == {table[s] : s \in {pkt.dst} \cap DOMAIN table}
=============================================================================
