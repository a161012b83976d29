---------------------------- MODULE RestartProofs ----------------------------
(***************************************************************************)
(* Proofs about Restart for any number of restarts of either end, every    *)
(* set of paths, whichever of them lose datagrams, and every deadline.     *)
(***************************************************************************)
EXTENDS Restart, FlowProofs

(* Numbers that were used stay used, and the current counter is one above  *)
(* the last.                                                               *)
LEMMA UsedFacts ==
  ASSUME tx_counter \in Nat, before \in Nat
  PROVE  Used \in Nat /\ tx_counter <= Used /\ before <= Used
BY DEF Used

(* Between restarts the steps are those of Flow. *)
LEMMA RunsIsFlow == epoch \in Payload /\ Runs => Next
BY DEF Runs, Next

(* The types of Flow survive restarts. *)
LEMMA RestartTypes ==
  ASSUME TypeOK, epoch \in Payload, configured \in BOOLEAN,
         [RestartNext]_<<vars, starts>>
  PROVE  TypeOK'
<1>1. CASE [Next]_vars
  BY <1>1, TypeNext
<1>2. CASE SenderRestarts
  BY <1>2 DEF SenderRestarts, TypeOK, receiver
<1>3. CASE ReceiverRestarts
  BY <1>3, NewSequencerFacts DEF ReceiverRestarts, TypeOK
<1>. QED  BY <1>1, <1>2, <1>3, RunsIsFlow DEF RestartNext

(* Steps that take nothing in and put nothing out keep the invariant:      *)
(* datagrams may disappear, time may pass, the release loop may end.       *)
LEMMA QuietRestart ==
  ASSUME RestartInv, TypeOK', UNCHANGED starts,
         UNCHANGED <<tx_counter, known, delivered>>,
         net' \subseteq net,
         sequencer'.packet_queue = sequencer.packet_queue,
         sequencer'.next_seq = sequencer.next_seq
  PROVE  RestartInv'
BY DEF RestartInv, OrderSurvivesRestarts, BlackoutIsBounded, Used, Keys, starts

(* The sender uses a new number, or one below those of an earlier start. *)
LEMMA SendRestart ==
  ASSUME RestartInv, TypeOK', UNCHANGED starts, handle_packet_from_local(epoch)
  PROVE  RestartInv'
<1>1. /\ tx_counter' = tx_counter + 1 /\ UNCHANGED <<known, sequencer, delivered>>
      /\ net' = net \cup
           {[path |-> p, pkt |-> [seq |-> tx_counter, bytes |-> epoch]] : p \in Paths}
  BY DEF handle_packet_from_local, receiver
<1>2. /\ tx_counter \in Nat /\ before \in Nat /\ sequencer.next_seq \in Nat
      /\ Keys(sequencer) \subseteq Nat /\ \A d \in net : d.pkt.seq \in Nat
  BY DEF RestartInv, TypeOK, IsSequencer, Datagram, Packet
<1>3. Used \in Nat /\ Used' \in Nat /\ Used <= Used' /\ tx_counter < Used'
  BY <1>1, <1>2 DEF Used, starts
<1>4. BlackoutIsBounded'
  BY <1>1, <1>2, <1>3 DEF RestartInv, BlackoutIsBounded
<1>5. \A d \in net' : d.pkt.seq < Used'
  BY <1>1, <1>2, <1>3 DEF RestartInv
<1>6. \A k \in Keys(sequencer) : k < Used'
  BY <1>2, <1>3 DEF RestartInv
<1>. QED
  BY <1>1, <1>4, <1>5, <1>6 DEF RestartInv, OrderSurvivesRestarts, starts

(* What arrives was sent by some start, and is taken in only at or above   *)
(* next_seq.                                                               *)
LEMMA ReceiveRestart ==
  ASSUME RestartInv, TypeOK', UNCHANGED starts,
         NEW d \in net, handle_incoming_packet(d)
  PROVE  RestartInv'
<1>1. /\ net' \subseteq net /\ UNCHANGED <<tx_counter, known, delivered>>
      /\ known => sequencer' = insert_packet(sequencer, d.pkt)
      /\ ~known => UNCHANGED sequencer
  BY DEF handle_incoming_packet
<1>2. CASE ~known
  BY <1>1, <1>2, QuietRestart
<1>3. CASE known
  <2>1. /\ d.pkt \in Packet /\ d.pkt.seq \in Nat /\ d.pkt.seq < Used
        /\ IsSequencer(sequencer, Packet)
    BY DEF RestartInv, TypeOK, Datagram, Packet
  <2>2. /\ sequencer'.next_seq = sequencer.next_seq
        /\ \A k \in Keys(sequencer) :
             sequencer'.packet_queue[k] = sequencer.packet_queue[k]
        /\ \A k \in Keys(sequencer') \ Keys(sequencer) :
             /\ k = d.pkt.seq /\ k >= sequencer.next_seq
             /\ sequencer'.packet_queue[k] = d.pkt
    BY <1>1, <1>3, <2>1, InsertFacts
  <2>3. UNCHANGED Used
    BY <1>1 DEF Used, starts
  <2>4. \A k \in Keys(sequencer') :
          k >= sequencer.next_seq /\ k < Used /\ sequencer'.packet_queue[k].seq = k
    BY <2>1, <2>2 DEF RestartInv, OrderSurvivesRestarts
  <2>. QED
    BY <1>1, <1>3, <2>2, <2>3, <2>4
    DEF RestartInv, OrderSurvivesRestarts, BlackoutIsBounded, starts
<1>. QED  BY <1>2, <1>3

(* The deadline moves next_seq to a number that was used. *)
LEMMA TickRestart ==
  ASSUME RestartInv, TypeOK', UNCHANGED starts, SequencerTick
  PROVE  RestartInv'
<1>1. /\ sequencer' = advance_queue(sequencer) /\ known
      /\ UNCHANGED <<tx_counter, net, known, delivered>>
  BY DEF SequencerTick
<1>2. IsSequencer(sequencer, Packet)
  BY DEF RestartInv, TypeOK
<1>3. /\ Keys(sequencer') = Keys(sequencer)
      /\ sequencer'.packet_queue = sequencer.packet_queue
      /\ Keys(sequencer) = {} => sequencer'.next_seq = sequencer.next_seq
      /\ Keys(sequencer) # {} => /\ sequencer'.next_seq \in Keys(sequencer)
                                 /\ \A k \in Keys(sequencer) : sequencer'.next_seq <= k
  BY <1>1, <1>2, AdvanceFacts
<1>4. CASE Keys(sequencer) = {}
  BY <1>1, <1>3, <1>4, QuietRestart
<1>5. CASE Keys(sequencer) # {}
  <2>1. /\ sequencer.next_seq \in Nat /\ Keys(sequencer) \subseteq Nat
        /\ sequencer'.next_seq \in Nat
    BY <1>2, <1>3, <1>5 DEF IsSequencer
  <2>2. UNCHANGED Used /\ Used \in Nat
    BY <1>1, UsedFacts DEF Used, starts, RestartInv, TypeOK
  <2>3. sequencer.next_seq <= sequencer'.next_seq /\ sequencer'.next_seq <= Used
    BY <1>3, <1>5, <2>1, <2>2 DEF RestartInv, OrderSurvivesRestarts
  <2>4. \A i \in DOMAIN delivered : delivered[i].seq < sequencer'.next_seq
    <3>. SUFFICES ASSUME NEW i \in DOMAIN delivered
                  PROVE  delivered[i].seq < sequencer'.next_seq
      OBVIOUS
    <3>1. delivered[i].seq \in Nat
      BY DeliveredType DEF RestartInv, TypeOK
    <3>2. delivered[i].seq < sequencer.next_seq
      BY DEF RestartInv
    <3>. QED  BY <2>1, <2>3, <3>1, <3>2
  <2>. QED
    BY <1>1, <1>3, <1>5, <2>2, <2>3, <2>4
    DEF RestartInv, OrderSurvivesRestarts, BlackoutIsBounded, starts
<1>. QED  BY <1>4, <1>5

(* The packet that is released has a larger number than all that this      *)
(* start of the receiver released before.                                  *)
LEMMA ReleaseRestart ==
  ASSUME RestartInv, TypeOK', UNCHANGED starts, ReleaseNext
  PROVE  RestartInv'
<1>. DEFINE n == sequencer.next_seq
            pkt == next_packet(sequencer)
<1>1. /\ sequencer' = get_next_packet(sequencer) /\ have_next_packet(sequencer)
      /\ delivered' = Append(delivered, pkt)
      /\ UNCHANGED <<tx_counter, net, known>>
  BY DEF ReleaseNext
<1>2. /\ IsSequencer(sequencer, Packet) /\ delivered \in Seq(Packet)
      /\ Len(delivered) \in Nat /\ DOMAIN delivered = 1..Len(delivered)
  BY LenProperties DEF RestartInv, TypeOK
<1>3. /\ n \in Keys(sequencer) /\ pkt = sequencer.packet_queue[n] /\ pkt \in Packet
      /\ sequencer'.next_seq = n + 1
      /\ Keys(sequencer') = Keys(sequencer) \ {n}
      /\ \A k \in Keys(sequencer') :
           sequencer'.packet_queue[k] = sequencer.packet_queue[k]
  BY <1>1, <1>2, GetNextFacts
<1>4. n \in Nat /\ Keys(sequencer) \subseteq Nat
  BY <1>2 DEF IsSequencer
<1>5. pkt.seq = n /\ n < Used /\ known
  BY <1>3 DEF RestartInv
<1>6. UNCHANGED Used /\ Used \in Nat
  BY <1>1, UsedFacts DEF Used, starts, RestartInv, TypeOK
<1>. HIDE DEF pkt
<1>7. /\ Len(delivered') = Len(delivered) + 1
      /\ DOMAIN delivered' = 1..(Len(delivered) + 1)
      /\ delivered'[Len(delivered) + 1] = pkt
      /\ \A i \in 1..Len(delivered) : delivered'[i] = delivered[i]
  BY <1>1, <1>2, <1>3, AppendProperties, LenProperties
<1>. HIDE DEF n
<1>8. ASSUME NEW i \in 1..Len(delivered)
      PROVE  delivered[i].seq \in Nat /\ delivered[i].seq < n /\ delivered'[i] = delivered[i]
  <2>1. delivered[i].seq \in Nat
    BY <1>2, DeliveredType
  <2>2. delivered[i].seq < n
    BY <1>2 DEF RestartInv, n
  <2>. QED  BY <1>7, <2>1, <2>2
<1>9. ASSUME NEW i \in DOMAIN delivered'
      PROVE  delivered'[i].seq < n + 1
  <2>1. i \in 1..Len(delivered) \/ i = Len(delivered) + 1
    BY <1>2, <1>7
  <2>. QED  BY <1>4, <1>5, <1>7, <1>8, <2>1
<1>10. ASSUME NEW i \in DOMAIN delivered', NEW j \in DOMAIN delivered', i < j
       PROVE  delivered'[i].seq < delivered'[j].seq
  <2>1. i \in 1..Len(delivered)
    BY <1>2, <1>7, <1>10
  <2>2. CASE j \in 1..Len(delivered)
    BY <1>2, <1>8, <1>10, <2>1, <2>2 DEF RestartInv, OrderSurvivesRestarts
  <2>3. CASE j = Len(delivered) + 1
    BY <1>5, <1>7, <1>8, <2>1, <2>3
  <2>. QED  BY <1>2, <1>7, <2>2, <2>3
<1>11. \A k \in Keys(sequencer') :
         k >= n + 1 /\ k < Used /\ sequencer'.packet_queue[k].seq = k
  BY <1>3, <1>4 DEF RestartInv, OrderSurvivesRestarts, n
<1>12. OrderSurvivesRestarts'
  BY <1>3, <1>10, <1>11 DEF OrderSurvivesRestarts, starts
<1>13. BlackoutIsBounded'
  BY <1>3, <1>4, <1>5, <1>6 DEF BlackoutIsBounded
<1>. QED
  BY <1>1, <1>3, <1>5, <1>6, <1>9, <1>11, <1>12, <1>13 DEF RestartInv, starts

(* The first keepalive makes a new sequencer, of which nothing came out. *)
LEMMA LearnRestart ==
  ASSUME RestartInv, TypeOK', UNCHANGED starts, LearnPeer
  PROVE  RestartInv'
<1>1. /\ known' /\ ~known /\ sequencer' = NewSequencer
      /\ UNCHANGED <<tx_counter, net, delivered>>
  BY DEF LearnPeer, history
<1>2. Keys(sequencer') = {} /\ sequencer'.next_seq = 0
  BY <1>1, NewSequencerFacts
<1>3. Keys(sequencer) = {} /\ sequencer.next_seq = 0 /\ delivered = << >>
  BY <1>1 DEF RestartInv
<1>. QED
  BY <1>1, <1>2, <1>3
  DEF RestartInv, OrderSurvivesRestarts, BlackoutIsBounded, Used, starts

(* A sender that is started again has used no fewer numbers than before. *)
LEMMA SenderRestartKeeps ==
  ASSUME RestartInv, TypeOK', SenderRestarts
  PROVE  RestartInv'
<1>1. /\ epoch' = epoch + 1 /\ epoch < MaxEpoch /\ before' = Used /\ tx_counter' = 0
      /\ net' \subseteq net
      /\ UNCHANGED <<known, sequencer, delivered, configured>>
  BY DEF SenderRestarts, receiver
<1>2. epoch' \in Payload
  BY <1>1, RestartAssumption DEF RestartInv
<1>3. Used \in Nat
  BY UsedFacts DEF RestartInv, TypeOK
<1>4. Used' = Used
  BY <1>1, <1>3 DEF Used
<1>. QED
  BY <1>1, <1>2, <1>3, <1>4 DEF RestartInv, OrderSurvivesRestarts, BlackoutIsBounded

(* A receiver that is started again has delivered nothing yet. *)
LEMMA ReceiverRestartKeeps ==
  ASSUME RestartInv, TypeOK', ReceiverRestarts
  PROVE  RestartInv'
<1>1. /\ delivered' = << >> /\ sequencer' = NewSequencer
      /\ net' \subseteq net
      /\ UNCHANGED <<tx_counter, epoch, before, configured>>
  BY DEF ReceiverRestarts
<1>2. Keys(sequencer') = {} /\ sequencer'.next_seq = 0
  BY <1>1, NewSequencerFacts
<1>3. Used \in Nat /\ UNCHANGED Used
  BY <1>1, UsedFacts DEF RestartInv, TypeOK, Used
<1>4. DOMAIN delivered' = {}
  BY <1>1
<1>. QED
  BY <1>1, <1>2, <1>3, <1>4 DEF RestartInv, OrderSurvivesRestarts, BlackoutIsBounded

(* Every step, also a restart of either end, keeps the invariant. *)
LEMMA RestartKeeps == RestartInv /\ [RestartNext]_<<vars, starts>> => RestartInv'
<1>. SUFFICES ASSUME RestartInv, [RestartNext]_<<vars, starts>> PROVE RestartInv'
  OBVIOUS
<1>1. TypeOK'
  BY RestartTypes DEF RestartInv
<1>2. CASE Runs /\ UNCHANGED starts
  <2>. USE <1>1, <1>2
  <2>1. CASE handle_packet_from_local(epoch)
    BY <2>1, SendRestart
  <2>2. CASE LearnPeer
    BY <2>2, LearnRestart
  <2>3. ASSUME NEW d \in net, handle_incoming_packet(d) PROVE RestartInv'
    BY <2>3, ReceiveRestart
  <2>4. CASE SequencerTick
    BY <2>4, TickRestart
  <2>5. CASE ReleaseNext
    BY <2>5, ReleaseRestart
  <2>6. CASE HandlerReturns
    BY <2>6, QuietRestart DEF HandlerReturns, history
  <2>7. CASE MillisecondPasses
    <3>1. /\ sequencer'.packet_queue = sequencer.packet_queue
          /\ sequencer'.next_seq = sequencer.next_seq
      BY <2>7, ElapseFacts DEF MillisecondPasses, RestartInv, TypeOK
    <3>. QED  BY <2>7, <3>1, QuietRestart DEF MillisecondPasses, history
  <2>. QED  BY <2>1, <2>2, <2>3, <2>4, <2>5, <2>6, <2>7 DEF Runs
<1>3. CASE UNCHANGED <<vars, starts>>
  BY <1>1, <1>3, QuietRestart DEF vars, receiver, history
<1>. QED
  BY <1>1, <1>2, <1>3, SenderRestartKeeps, ReceiverRestartKeeps DEF RestartNext

(* The inductive invariant of a tunnel whose ends restart. *)
THEOREM RestartCorrect == RestartSpec => []RestartInv
<1>1. RestartInit => RestartInv
  <2>. SUFFICES ASSUME RestartInit PROVE RestartInv
    OBVIOUS
  <2>1. TypeOK
    BY TypeInit DEF RestartInit
  <2>2. Keys(sequencer) = {} /\ sequencer.next_seq = 0
    BY NewSequencerFacts DEF RestartInit, Init
  <2>3. epoch \in Payload
    BY RestartAssumption DEF RestartInit
  <2>. QED
    BY <2>1, <2>2, <2>3
    DEF RestartInit, Init, RestartInv, OrderSurvivesRestarts, BlackoutIsBounded, Used
<1>. QED  BY <1>1, RestartKeeps, PTL DEF RestartSpec

(* A running receiver hands over strictly increasing numbers, whatever     *)
(* restarts the sender goes through and whatever old copies still arrive.  *)
THEOREM RestartOrderCorrect == RestartSpec => []OrderSurvivesRestarts
<1>1. RestartInv => OrderSurvivesRestarts
  BY DEF RestartInv
<1>. QED  BY <1>1, RestartCorrect, PTL

(* A restarted sender is refused no longer than until its counter has come *)
(* to where it was before.                                                 *)
THEOREM BlackoutCorrect == RestartSpec => []BlackoutIsBounded
<1>1. RestartInv => BlackoutIsBounded
  BY DEF RestartInv
<1>. QED  BY <1>1, RestartCorrect, PTL
=============================================================================
