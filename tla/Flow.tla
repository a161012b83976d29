-------------------------------- MODULE Flow --------------------------------
(***************************************************************************)
(* One direction of a tunnel between two peers: packets read from the      *)
(* sender's local interface, copied onto every path, reordered and lost on *)
(* the way, and put back in order by the receiver's sequencer.             *)
(*                                                                         *)
(* The receiver's ConnectionManager is one task.  Its select! loop runs a  *)
(* handler to the end before it polls again, but a handler that releases   *)
(* packets suspends at packets_to_local.send().await between two of them;  *)
(* cm is "draining" while the handler is in that loop.                     *)
(***************************************************************************)
EXTENDS Sequencer, Sequences

CONSTANTS
  Payload,      \* what a tunnelled packet can hold
  Paths,        \* (sending remote, destination address) pairs: one copy each
  LossyPaths,   \* the paths that may lose a datagram
  MaxSeq        \* bound: packets the sender tunnels before it ends

ASSUME PathsAssumption == LossyPaths \subseteq Paths
ASSUME MaxSeqAssumption == MaxSeq \in Nat

VARIABLES
  tx_counter,   \* sender: Peer::tx_counter of the receiver
  net,          \* datagrams in flight
  known,        \* receiver: does the peer list hold the sender?
  sequencer,    \* receiver: Peer::sequencer of the sender
  cm,           \* receiver: "select" or "draining"
  \* History:
  sent,         \* payloads tunnelled by the sender, in order
  delivered,    \* packets sent to packets_to_local, in order
  accepted,     \* sequence numbers that entered the queue
  skipped,      \* sequence numbers advance_queue stepped over
  refused       \* sequence numbers that arrived from a peer not yet known

receiver == <<known, sequencer, cm>>
history == <<sent, delivered, accepted, skipped, refused>>
vars == <<tx_counter, net, receiver, history>>

Packet == [seq : Nat, bytes : Payload]
Datagram == [path : Paths, pkt : Packet]

DeliveredSeqs == {delivered[i].seq : i \in DOMAIN delivered}

Init ==
  /\ tx_counter = 0
  /\ net = {}
  /\ known \in BOOLEAN      \* in the settings file, or not
  /\ sequencer = NewSequencer
  /\ cm = "select"
  /\ sent = << >>
  /\ delivered = << >>
  /\ accepted = {}
  /\ skipped = {}
  /\ refused = {}

-----------------------------------------------------------------------------
(***************************************************************************)
(* The sender.                                                             *)
(***************************************************************************)
MutantCountsFromMinusOne(b) ==     \* the counter is decremented when read
  /\ tx_counter < MaxSeq
  /\ net' = net \cup
       {[path |-> p, pkt |-> [seq |-> tx_counter - 1, bytes |-> b]] : p \in Paths}
  /\ tx_counter' = tx_counter + 1
  /\ sent' = Append(sent, b)
  /\ UNCHANGED <<receiver, delivered, accepted, skipped, refused>>

MutantIncrementsFirst(b) ==        \* the counter is incremented before it is read
  /\ tx_counter < MaxSeq
  /\ tx_counter' = tx_counter + 1
  /\ net' = net \cup
       {[path |-> p, pkt |-> [seq |-> tx_counter', bytes |-> b]] : p \in Paths}
  /\ sent' = Append(sent, b)
  /\ UNCHANGED <<receiver, delivered, accepted, skipped, refused>>

(* handle_packet_from_local once the director has chosen this receiver.    *)
(* A path that is not among the peer's connections at this moment is a     *)
(* path that loses the copy; the counter advances all the same.            *)
handle_packet_from_local(b) ==
  /\ tx_counter < MaxSeq
  /\ net' = net \cup
       {[path |-> p, pkt |-> [seq |-> tx_counter, bytes |-> b]] : p \in Paths}
  /\ tx_counter' = tx_counter + 1
  /\ sent' = Append(sent, b)
  /\ UNCHANGED <<receiver, delivered, accepted, skipped, refused>>

-----------------------------------------------------------------------------
(***************************************************************************)
(* The receiver.                                                           *)
(***************************************************************************)

(* add_peer for an address of the sender, on its first keepalive.  Later   *)
(* keepalives leave the sequencer alone.                                   *)
LearnPeer ==
  /\ cm = "select"
  /\ ~known
  /\ known' = TRUE
  /\ sequencer' = NewSequencer
  /\ UNCHANGED <<tx_counter, net, cm, history>>

MutantReceiveSkipsGap(d) ==        \* every arrival closes the gap before it
  /\ cm = "select"
  /\ d \in net
  /\ known
  /\ net' = net \ {d}
  /\ sequencer' = advance_queue(insert_packet(sequencer, d.pkt))
  /\ accepted' = accepted \cup (Keys(sequencer') \ Keys(sequencer))
  /\ cm' = "draining"
  /\ UNCHANGED <<tx_counter, known, sent, delivered, skipped, refused>>

(* handle_incoming_packet up to its first await. *)
handle_incoming_packet(d) ==
  /\ cm = "select"
  /\ d \in net
  /\ net' = net \ {d}
  /\ IF known
     THEN /\ sequencer' = insert_packet(sequencer, d.pkt)
          /\ accepted' = accepted \cup (Keys(sequencer') \ Keys(sequencer))
          /\ cm' = "draining"
          /\ UNCHANGED refused
     ELSE /\ refused' = refused \cup {d.pkt.seq}
          /\ UNCHANGED <<sequencer, cm, accepted>>
  /\ UNCHANGED <<tx_counter, known, sent, delivered, skipped>>

(* The global_sequencer_interval branch for this peer. *)
SequencerTick ==
  /\ cm = "select"
  /\ known
  /\ is_deadline_exceeded(sequencer)
  /\ sequencer' = advance_queue(sequencer)
  /\ skipped' = skipped \cup (sequencer.next_seq..(sequencer'.next_seq - 1))
  /\ cm' = "draining"
  /\ UNCHANGED <<tx_counter, net, known, sent, delivered, accepted, refused>>

(* One turn of `while have_next_packet() { send(get_next_packet()) }`. *)
ReleaseNext ==
  /\ cm = "draining"
  /\ have_next_packet(sequencer)
  /\ delivered' = Append(delivered, next_packet(sequencer))
  /\ sequencer' = get_next_packet(sequencer)
  /\ UNCHANGED <<tx_counter, net, known, cm, sent, accepted, skipped, refused>>

MutantReleasesOne ==               \* `if` where the code has `while`
  /\ cm = "draining"
  /\ cm' = "select"
  /\ UNCHANGED <<tx_counter, net, known, sequencer, history>>

HandlerReturns ==
  /\ cm = "draining"
  /\ ~have_next_packet(sequencer)
  /\ cm' = "select"
  /\ UNCHANGED <<tx_counter, net, known, sequencer, history>>

-----------------------------------------------------------------------------
(***************************************************************************)
(* The environment: the clock and the network.                             *)
(***************************************************************************)
MillisecondPasses ==
  /\ sequencer' = Elapse(sequencer)
  /\ UNCHANGED <<tx_counter, net, known, cm, history>>

Lose(d) ==
  /\ d \in net
  /\ d.path \in LossyPaths
  /\ net' = net \ {d}
  /\ UNCHANGED <<tx_counter, receiver, history>>

Next ==
  \/ \E b \in Payload : handle_packet_from_local(b)
  \/ LearnPeer
  \/ \E d \in net : handle_incoming_packet(d)
  \/ SequencerTick
  \/ ReleaseNext
  \/ HandlerReturns
  \/ MillisecondPasses
  \/ \E d \in net : Lose(d)

Spec == Init /\ [][Next]_vars

(***************************************************************************)
(* The clock runs, the task runs once woken, and select! polls its ready   *)
(* branches in random order, so none of them is passed over for ever.      *)
(* Only a path that loses nothing need bring its datagrams.                *)
(***************************************************************************)
ReceiveCopy(p, k) ==
  \E d \in net : d.path = p /\ d.pkt.seq = k /\ handle_incoming_packet(d)

Fairness ==
  /\ WF_vars(MillisecondPasses)
  /\ WF_vars(ReleaseNext)
  /\ WF_vars(HandlerReturns)
  /\ SF_vars(SequencerTick)
  /\ \A p \in Paths \ LossyPaths : \A k \in 0..(MaxSeq - 1) :
       SF_vars(ReceiveCopy(p, k))

FairSpec == Spec /\ Fairness

-----------------------------------------------------------------------------
(***************************************************************************)
(* Properties.                                                             *)
(***************************************************************************)
TypeOK ==
  /\ tx_counter \in Nat
  /\ net \subseteq Datagram
  /\ known \in BOOLEAN
  /\ IsSequencer(sequencer, Packet)
  /\ cm \in {"select", "draining"}
  /\ sent \in Seq(Payload)
  /\ delivered \in Seq(Packet)
  /\ accepted \subseteq Nat
  /\ skipped \subseteq Nat
  /\ refused \subseteq Nat

(* The packets handed to the local interface have strictly increasing      *)
(* sequence numbers, and each is the packet the sender read under that     *)
(* number, whatever copies arrive, late, twice or never.                   *)
DeliveredInOrder ==
  /\ \A i, j \in DOMAIN delivered : i < j => delivered[i].seq < delivered[j].seq
  /\ \A i \in DOMAIN delivered :
       /\ delivered[i].seq < Len(sent)
       /\ delivered[i].bytes = sent[delivered[i].seq + 1]

(* A packet the sequencer took in is still queued or has been delivered:   *)
(* the deadline steps over missing numbers, never over a queued packet,    *)
(* and no packet stays behind next_seq.                                    *)
NothingAcceptedIsLost ==
  /\ accepted = DeliveredSeqs \cup Keys(sequencer)
  /\ \A k \in Keys(sequencer) : k >= sequencer.next_seq

(* Every number below next_seq was either delivered or given up by a       *)
(* deadline, and not both: without a deadline there is no hole.            *)
EveryGapHasADeadline ==
  /\ DeliveredSeqs \cup skipped = 0..(sequencer.next_seq - 1)
  /\ DeliveredSeqs \cap skipped = {}

(* When the task is back in select! no packet that could go out is left in *)
(* the queue; it would wait for the next arrival or deadline.              *)
NoReleasablePacketWaits ==
  cm = "select" => sequencer.next_seq \notin Keys(sequencer)

(* The sender's counter never reuses a number: copies of two different     *)
(* packets never share one, in flight or in the queue.                     *)
NumbersAreUnique ==
  /\ tx_counter = Len(sent)
  /\ \A d \in net : d.pkt.seq < Len(sent) /\ d.pkt.bytes = sent[d.pkt.seq + 1]
  /\ \A k \in Keys(sequencer) :
       /\ k < Len(sent)
       /\ sequencer.packet_queue[k] = [seq |-> k, bytes |-> sent[k + 1]]

(* The strengthening that makes the invariants above inductive: what was   *)
(* delivered lies below next_seq, and nothing is queued for a peer that    *)
(* has not been heard of.                                                  *)
Inv ==
  /\ TypeOK
  /\ NumbersAreUnique
  /\ DeliveredInOrder
  /\ NothingAcceptedIsLost
  /\ EveryGapHasADeadline
  /\ \A i \in DOMAIN delivered : delivered[i].seq < sequencer.next_seq
  /\ ~known => Keys(sequencer) = {} /\ sequencer.next_seq = 0

(* What the abstract tunnel sees of the packets delivered. *)
Received == [i \in 1..Len(delivered) |-> delivered[i].bytes]
LastReceived ==
  IF delivered = << >> THEN 0 ELSE delivered[Len(delivered)].seq + 1

T == INSTANCE Tunnel WITH received <- Received, last <- LastReceived

(* Copying over many paths and putting the copies back in order implements *)
(* the abstract tunnel: in order, at most once, unaltered.                 *)
ImplementsTunnel == T!Spec

(* A queued packet is eventually delivered even if the packets before it   *)
(* never arrive.                                                           *)
QueuedIsDelivered ==
  \A k \in 0..(MaxSeq - 1) : k \in Keys(sequencer) ~> k \in DeliveredSeqs

(* One path that loses nothing is enough: every tunnelled packet is        *)
(* delivered, unless the deadline gave it up or it came before the         *)
(* sender's first keepalive.                                               *)
OneReliablePathSuffices ==
  \A k \in 0..(MaxSeq - 1) :
    k < Len(sent) ~> k \in DeliveredSeqs \cup skipped \cup refused
=============================================================================
