-------------------------------- MODULE Fanout --------------------------------
(***************************************************************************)
(* The broadcast channel from the ConnectionManager to the remote tasks of *)
(* one instance, message by message, and the datagrams the remotes read    *)
(* (src/src/remote_manager.rs, remote.rs, and the sending loops of         *)
(* connection_manager.rs).                                                 *)
(*                                                                         *)
(* The runtime has one thread (flavor = "current_thread") and a broadcast  *)
(* send does not suspend: while a handler sends to one address after the   *)
(* other, no remote task runs.  The channel keeps the last Capacity        *)
(* messages; a remote that has fallen behind them is told how many it      *)
(* missed and continues with the oldest that is left.                      *)
(***************************************************************************)
EXTENDS Naturals, Sequences

CONSTANTS
  Remote,     \* the remote tasks
  Lz4,        \* those of type UDPLz4; the others are of type UDP
  Addr,       \* socket addresses of the peers
  Capacity,   \* channel_capacity; 128 in the code
  Round,      \* all addresses in the peer list, in the order of its HashMaps
  Bursts,     \* the destinations of other handlers that send
  Arriving,   \* Arriving[r]: what may arrive at r
  NoRoute,    \* NoRoute[r]: the addresses r's network does not reach
  Failing     \* the remotes whose socket may fail

Content == {"message", "garbage"}
Wire == [lz4 : BOOLEAN, content : Content]

ASSUME CapacityAssumption == Capacity \in Nat \ {0}
ASSUME RemoteAssumption ==
  Lz4 \subseteq Remote /\ Failing \subseteq Remote /\ "cm" \notin Remote
ASSUME BurstsAssumption == Round \in Seq(Addr) /\ Bursts \subseteq Seq(Addr)
ASSUME NetworkAssumption ==
  Arriving \in [Remote -> SUBSET Wire] /\ NoRoute \in [Remote -> SUBSET Addr]

VARIABLES
  burst,     \* destinations the ConnectionManager's handler has yet to send to
  slots,     \* the messages the channel still holds, oldest first
  unread,    \* unread[r]: messages r has not received, Capacity + 1 for more
  hold,      \* hold[r]: what r is sending into raw_udp, if anything
  raw_udp,   \* contents of the datagrams in the raw_udp channel
  alive      \* the tasks that have not panicked

vars == <<burst, slots, unread, hold, raw_udp, alive>>

Init ==
  /\ burst = << >>
  /\ slots = << >>
  /\ unread = [r \in Remote |-> 0]
  /\ hold = [r \in Remote |-> << >>]
  /\ raw_udp = << >>
  /\ alive = Remote \cup {"cm"}

(* The thread is not inside a handler that sends. *)
Free(t) == t \in alive /\ burst = << >>

Panics(t) ==
  /\ alive' = alive \ {t}
  /\ UNCHANGED <<burst, slots, unread, hold, raw_udp>>

-----------------------------------------------------------------------------
(***************************************************************************)
(* The ConnectionManager.                                                  *)
(***************************************************************************)

(* The interval ticks. *)
handle_keepalive ==
  /\ Free("cm")
  /\ burst' = Round
  /\ UNCHANGED <<slots, unread, hold, raw_udp, alive>>

(* handle_packet_from_local *)
handle_packet_from_local(dests) ==
  /\ Free("cm")
  /\ burst' = dests
  /\ UNCHANGED <<slots, unread, hold, raw_udp, alive>>

(* Bytes that are no message are dropped; a message may be answered. *)
handle_udp_packet ==
  /\ Free("cm")
  /\ raw_udp # << >>
  /\ raw_udp' = Tail(raw_udp)
  /\ burst' \in IF Head(raw_udp) = "message" THEN {<< >>} \cup Bursts ELSE {<< >>}
  /\ UNCHANGED <<slots, unread, hold, alive>>

MutantKeepsOld(s, msg) ==          \* a full channel turns the message away
  IF Len(s) < Capacity THEN Append(s, msg) ELSE s

MutantGrows(s, msg) == Append(s, msg)    \* an unbounded channel

(* Messages are appended at the end and leave at the front. *)
Push(s, msg) == IF Len(s) < Capacity THEN Append(s, msg) ELSE Append(Tail(s), msg)

MutantWatch ==                     \* watch::channel for broadcast::channel
  /\ "cm" \in alive
  /\ burst # << >>
  /\ burst' = Tail(burst)
  /\ slots' = <<Head(burst)>>
  /\ unread' = [r \in Remote |-> IF r \in alive THEN 1 ELSE 0]
  /\ UNCHANGED <<hold, raw_udp, alive>>

(* udp_output_broadcast_to_remotes.send(outgoing_packet).unwrap(); main    *)
(* keeps a receiver, so that there always is one.                          *)
Broadcast ==
  /\ "cm" \in alive
  /\ burst # << >>
  /\ burst' = Tail(burst)
  /\ slots' = Push(slots, Head(burst))
  /\ unread' = [r \in Remote |->
       IF r \in alive /\ unread[r] <= Capacity THEN unread[r] + 1 ELSE unread[r]]
  /\ UNCHANGED <<hold, raw_udp, alive>>

-----------------------------------------------------------------------------
(***************************************************************************)
(* A remote task.                                                          *)
(***************************************************************************)
Listens(r) == Free(r) /\ hold[r] = << >>

Oldest(r) == slots[Len(slots) - unread[r] + 1]

(* What remote.read() makes of a datagram: decompress_size_prepended is    *)
(* undone compression, and compressed bytes are no message.                *)
Decodes(r, w) == r \in Lz4 => w.lz4
Decoded(r, w) == IF r \notin Lz4 /\ w.lz4 THEN "garbage" ELSE w.content

Reads(r, w) ==
  /\ Listens(r)
  /\ IF Decodes(r, w)
     THEN /\ hold' = [hold EXCEPT ![r] = <<Decoded(r, w)>>]
          /\ UNCHANGED <<burst, slots, unread, raw_udp, alive>>
     ELSE Panics(r)

Forwards(r) ==
  /\ Free(r)
  /\ hold[r] # << >>
  /\ Len(raw_udp) < Capacity
  /\ raw_udp' = raw_udp \o hold[r]
  /\ hold' = [hold EXCEPT ![r] = << >>]
  /\ UNCHANGED <<burst, slots, unread, alive>>

Receives(r) ==
  /\ Listens(r)
  /\ unread[r] \in 1..Capacity
  /\ unread' = [unread EXCEPT ![r] = @ - 1]
  /\ UNCHANGED <<burst, slots, hold, raw_udp, alive>>

(* remote.write(): sent, or given up because the network is unreachable. *)
WritesTo(r, a) == Receives(r) /\ a = Oldest(r) /\ a \notin NoRoute[r]
Unreachable(r) == Receives(r) /\ Oldest(r) \in NoRoute[r]

MutantResubscribes(r) ==           \* resubscribe() when told of the lag
  /\ Listens(r)
  /\ unread[r] > Capacity
  /\ unread' = [unread EXCEPT ![r] = 0]
  /\ UNCHANGED <<burst, slots, hold, raw_udp, alive>>

(* RecvError::Lagged *)
Lagged(r) ==
  /\ Listens(r)
  /\ unread[r] > Capacity
  /\ unread' = [unread EXCEPT ![r] = Capacity]
  /\ UNCHANGED <<burst, slots, hold, raw_udp, alive>>

(* Any other error of the socket. *)
SocketFails(r) ==
  /\ Listens(r)
  /\ r \in Failing
  /\ Panics(r)

(* The steps that neither put a message into the channel nor write one. *)
Silent ==
  \/ handle_keepalive
  \/ \E b \in Bursts : handle_packet_from_local(b)
  \/ handle_udp_packet
  \/ \E r \in Remote :
       \/ \E w \in Arriving[r] : Reads(r, w)
       \/ Forwards(r)
       \/ Unreachable(r)
       \/ Lagged(r)
       \/ SocketFails(r)

Next ==
  \/ Broadcast
  \/ \E r \in Remote : \E a \in Addr : WritesTo(r, a)
  \/ Silent

Spec == Init /\ [][Next]_vars

-----------------------------------------------------------------------------
(***************************************************************************)
(* Properties.                                                             *)
(***************************************************************************)
TypeOK ==
  /\ burst \in Seq(Addr)
  /\ slots \in Seq(Addr) /\ Len(slots) <= Capacity
  /\ unread \in [Remote -> 0..(Capacity + 1)]
  /\ hold \in [Remote -> {<<c>> : c \in Content} \cup {<< >>}]
  /\ raw_udp \in Seq(Content) /\ Len(raw_udp) <= Capacity
  /\ alive \subseteq Remote \cup {"cm"}

(* "If we receive garbage, simply throw it away and continue": only the    *)
(* tasks whose socket fails ever end.                                      *)
GarbageIsThrownAway == (Remote \cup {"cm"}) \ Failing \subseteq alive
=============================================================================
