----------------------------- MODULE FlowProofs -----------------------------
(***************************************************************************)
(* Proofs about Flow for every set of payloads, every set of paths,        *)
(* whichever of them lose datagrams, every deadline and every bound on the *)
(* number of packets.                                                      *)
(***************************************************************************)
EXTENDS Flow, SequencerProofs, SequenceTheorems

(* The initial states are well typed. *)
LEMMA TypeInit == Init => TypeOK
BY NewSequencerFacts DEF Init, TypeOK

(* Every step preserves the types. *)
LEMMA TypeNext == TypeOK /\ [Next]_vars => TypeOK'
<1>. SUFFICES ASSUME TypeOK, [Next]_vars PROVE TypeOK'
  OBVIOUS
<1>. USE DEF TypeOK
<1>1. ASSUME NEW b \in Payload, handle_packet_from_local(b)
      PROVE  TypeOK'
  BY <1>1, AppendProperties
  DEF handle_packet_from_local, receiver, Datagram, Packet
<1>2. CASE LearnPeer
  BY <1>2, NewSequencerFacts DEF LearnPeer, history
<1>3. ASSUME NEW d \in net, handle_incoming_packet(d)
      PROVE  TypeOK'
  <2>1. d.pkt \in Packet /\ d.pkt.seq \in Nat
    BY <1>3 DEF Datagram, Packet
  <2>2. CASE known
    <3>1. IsSequencer(insert_packet(sequencer, d.pkt), Packet)
      BY <2>1, InsertFacts
    <3>2. sequencer' = insert_packet(sequencer, d.pkt) /\ cm' = "draining"
          /\ accepted' = accepted \cup (Keys(sequencer') \ Keys(sequencer))
          /\ UNCHANGED <<refused, tx_counter, known, sent, delivered, skipped>>
          /\ net' = net \ {d}
      BY <1>3, <2>2 DEF handle_incoming_packet
    <3>3. Keys(sequencer') \subseteq Nat
      BY <3>1, <3>2 DEF IsSequencer
    <3>. QED  BY <3>1, <3>2, <3>3
  <2>3. CASE ~known
    BY <1>3, <2>1, <2>3 DEF handle_incoming_packet
  <2>. QED  BY <2>2, <2>3
<1>4. CASE SequencerTick
  <2>1. IsSequencer(sequencer', Packet)
    BY <1>4, AdvanceFacts DEF SequencerTick
  <2>2. sequencer.next_seq \in Nat /\ sequencer'.next_seq \in Nat
    BY <2>1 DEF IsSequencer
  <2>3. \A m, n \in Nat : m..(n - 1) \subseteq Nat
    OBVIOUS
  <2>4. skipped' \subseteq Nat
    BY <1>4, <2>2, <2>3 DEF SequencerTick
  <2>. QED  BY <1>4, <2>1, <2>4 DEF SequencerTick
<1>5. CASE ReleaseNext
  <2>1. next_packet(sequencer) \in Packet /\ IsSequencer(sequencer', Packet)
    BY <1>5, GetNextFacts DEF ReleaseNext
  <2>. QED  BY <1>5, <2>1, AppendProperties DEF ReleaseNext
<1>6. CASE HandlerReturns
  BY <1>6 DEF HandlerReturns, history
<1>7. CASE MillisecondPasses
  BY <1>7, ElapseFacts DEF MillisecondPasses, history
<1>8. ASSUME NEW d \in net, Lose(d)
      PROVE  TypeOK'
  BY <1>8 DEF Lose, receiver, history
<1>9. CASE UNCHANGED vars
  BY <1>9 DEF vars, receiver, history
<1>. QED  BY <1>1, <1>2, <1>3, <1>4, <1>5, <1>6, <1>7, <1>8, <1>9 DEF Next

(* Every reachable state is well typed. *)
THEOREM TypeCorrect == Spec => []TypeOK
BY TypeInit, TypeNext, PTL DEF Spec
-----------------------------------------------------------------------------
(***************************************************************************)
(* The invariants.  DeliveredInOrder alone is not inductive: that the next *)
(* packet released has a larger number than all before it needs the bound  *)
(* of delivered by next_seq, and that it is the packet the sender numbered *)
(* so needs NumbersAreUnique for the queue and for the network.            *)
(***************************************************************************)

(* Delivered packets carry sequence numbers. *)
LEMMA DeliveredType ==
  ASSUME delivered \in Seq(Packet)
  PROVE  \A i \in DOMAIN delivered : delivered[i].seq \in Nat
<1>1. ASSUME NEW i \in DOMAIN delivered PROVE delivered[i].seq \in Nat
  <2>1. i \in 1..Len(delivered)
    BY <1>1, LenProperties
  <2>2. delivered[i] \in Packet
    BY <2>1, ElementOfSeq
  <2>. QED  BY <2>2 DEF Packet
<1>. QED  BY <1>1

(* The invariants hold before the first packet. *)
LEMMA InvInit == Init => Inv
<1>. SUFFICES ASSUME Init PROVE Inv
  OBVIOUS
<1>1. TypeOK
  BY TypeInit
<1>2. Keys(sequencer) = {} /\ sequencer.next_seq = 0
  BY NewSequencerFacts DEF Init
<1>3. delivered = << >> /\ DOMAIN delivered = {} /\ DeliveredSeqs = {}
  BY DEF Init, DeliveredSeqs
<1>. QED  BY <1>1, <1>2, <1>3
          DEF Init, Inv, NumbersAreUnique, DeliveredInOrder,
              NothingAcceptedIsLost, EveryGapHasADeadline

(* Tunnelling one more packet uses a number no earlier packet has. *)
LEMMA SendPreserves ==
  ASSUME Inv, TypeOK', NEW b \in Payload, handle_packet_from_local(b)
  PROVE  Inv'
<1>. USE DEF Inv, TypeOK
<1>1. /\ Len(sent') = Len(sent) + 1
      /\ sent'[Len(sent) + 1] = b
      /\ \A k \in Nat : k < Len(sent) => sent'[k + 1] = sent[k + 1]
      /\ Len(sent) \in Nat
  <2>1. /\ Len(sent) \in Nat /\ Len(sent') = Len(sent) + 1
        /\ sent'[Len(sent) + 1] = b
        /\ \A i \in 1..Len(sent) : sent'[i] = sent[i]
    BY AppendProperties, LenProperties DEF handle_packet_from_local
  <2>. QED  BY <2>1
<1>2. UNCHANGED <<receiver, delivered, accepted, skipped>>
  BY DEF handle_packet_from_local
<1>3. NumbersAreUnique'
  <2>1. tx_counter' = Len(sent')
    BY <1>1 DEF handle_packet_from_local, NumbersAreUnique
  <2>2. ASSUME NEW d \in net'
        PROVE  d.pkt.seq < Len(sent') /\ d.pkt.bytes = sent'[d.pkt.seq + 1]
    <3>1. CASE d \in net
      <4>1. d.pkt.seq \in Nat
        BY <3>1 DEF Datagram, Packet
      <4>2. d.pkt.seq < Len(sent) /\ d.pkt.bytes = sent[d.pkt.seq + 1]
        BY <3>1 DEF NumbersAreUnique
      <4>. QED  BY <1>1, <4>1, <4>2
    <3>2. CASE d \notin net
      <4>1. d.pkt.seq = tx_counter /\ d.pkt.bytes = b
        BY <2>2, <3>2 DEF handle_packet_from_local
      <4>. QED  BY <1>1, <4>1 DEF NumbersAreUnique
    <3>. QED  BY <3>1, <3>2
  <2>3. ASSUME NEW k \in Keys(sequencer)
        PROVE  /\ k < Len(sent')
               /\ sequencer.packet_queue[k] = [seq |-> k, bytes |-> sent'[k + 1]]
    <3>1. k \in Nat
      BY <2>3 DEF IsSequencer
    <3>2. k < Len(sent) /\ sequencer.packet_queue[k] = [seq |-> k, bytes |-> sent[k + 1]]
      BY <2>3 DEF NumbersAreUnique
    <3>. QED  BY <1>1, <3>1, <3>2
  <2>. QED  BY <1>2, <2>1, <2>2, <2>3 DEF NumbersAreUnique, receiver
<1>4. DeliveredInOrder'
  <2>1. \A i \in DOMAIN delivered : delivered[i].seq \in Nat
    BY DeliveredType
  <2>. QED  BY <1>1, <1>2, <2>1 DEF DeliveredInOrder
<1>. QED  BY <1>2, <1>3, <1>4
          DEF receiver, NothingAcceptedIsLost, EveryGapHasADeadline, DeliveredSeqs

(* A copy that arrives is queued under its own number or changes nothing. *)
LEMMA ReceivePreserves ==
  ASSUME Inv, TypeOK', NEW d \in net, handle_incoming_packet(d)
  PROVE  Inv'
<1>. USE DEF Inv, TypeOK
<1>1. d.pkt \in Packet /\ d.pkt.seq \in Nat
  BY DEF Datagram, Packet
<1>2. UNCHANGED <<tx_counter, sent, delivered, skipped>> /\ net' \subseteq net
  BY DEF handle_incoming_packet
<1>3. /\ sequencer'.next_seq = sequencer.next_seq
      /\ Keys(sequencer) \subseteq Keys(sequencer')
      /\ accepted' = accepted \cup (Keys(sequencer') \ Keys(sequencer))
      /\ \A k \in Keys(sequencer) :
           sequencer'.packet_queue[k] = sequencer.packet_queue[k]
      /\ \A k \in Keys(sequencer') \ Keys(sequencer) :
           /\ k = d.pkt.seq
           /\ k >= sequencer.next_seq
           /\ sequencer'.packet_queue[k] = d.pkt
  <2>1. CASE known
    <3>1. sequencer' = insert_packet(sequencer, d.pkt)
      BY <2>1 DEF handle_incoming_packet
    <3>2. accepted' = accepted \cup (Keys(sequencer') \ Keys(sequencer))
      BY <2>1 DEF handle_incoming_packet
    <3>. QED  BY <1>1, <3>1, <3>2, InsertFacts
  <2>2. CASE ~known
    BY <2>2 DEF handle_incoming_packet
  <2>. QED  BY <2>1, <2>2
<1>4. d.pkt = [seq |-> d.pkt.seq, bytes |-> sent[d.pkt.seq + 1]]
      /\ d.pkt.seq < Len(sent)
  BY <1>1 DEF NumbersAreUnique, Packet
<1>5. NumbersAreUnique' /\ (~known' => sequencer' = sequencer /\ ~known)
  BY <1>2, <1>3, <1>4 DEF NumbersAreUnique, handle_incoming_packet
<1>6. NothingAcceptedIsLost'
  BY <1>2, <1>3 DEF NothingAcceptedIsLost, DeliveredSeqs
<1>. QED  BY <1>2, <1>3, <1>5, <1>6
          DEF DeliveredInOrder, EveryGapHasADeadline, DeliveredSeqs

(* The deadline steps over missing numbers only. *)
LEMMA TickPreserves ==
  ASSUME Inv, TypeOK', SequencerTick
  PROVE  Inv'
<1>. USE DEF Inv, TypeOK
<1>1. UNCHANGED <<tx_counter, net, sent, delivered, accepted>>
  BY DEF SequencerTick
<1>2. /\ Keys(sequencer') = Keys(sequencer)
      /\ sequencer'.packet_queue = sequencer.packet_queue
      /\ Keys(sequencer) = {} => sequencer'.next_seq = sequencer.next_seq
      /\ Keys(sequencer) # {} => /\ sequencer'.next_seq \in Keys(sequencer)
                                 /\ \A k \in Keys(sequencer) : sequencer'.next_seq <= k
  BY AdvanceFacts DEF SequencerTick
<1>3. /\ sequencer.next_seq \in Nat
      /\ sequencer'.next_seq \in Nat
      /\ sequencer'.next_seq >= sequencer.next_seq
  <2>1. sequencer.next_seq \in Nat /\ sequencer'.next_seq \in Nat
    BY DEF IsSequencer
  <2>. QED  BY <1>2, <2>1 DEF NothingAcceptedIsLost
<1>4. NumbersAreUnique'
  BY <1>1, <1>2 DEF NumbersAreUnique
<1>5. NothingAcceptedIsLost'
  <2>1. \A k \in Keys(sequencer) : sequencer'.next_seq <= k /\ k \in Nat
    BY <1>2 DEF IsSequencer
  <2>. QED  BY <1>1, <1>2, <1>3, <2>1 DEF NothingAcceptedIsLost, DeliveredSeqs
<1>6. EveryGapHasADeadline'
  <2>1. DeliveredSeqs' = DeliveredSeqs
    BY <1>1 DEF DeliveredSeqs
  <2>2. skipped' = skipped \cup (sequencer.next_seq..(sequencer'.next_seq - 1))
    BY DEF SequencerTick
  <2>3. \A k \in DeliveredSeqs : k \in Nat /\ k < sequencer.next_seq
    BY <1>3 DEF EveryGapHasADeadline
  <2>. QED  BY <1>3, <2>1, <2>2, <2>3 DEF EveryGapHasADeadline
<1>7. \A i \in DOMAIN delivered : delivered[i].seq < sequencer'.next_seq
  <2>1. \A i \in DOMAIN delivered : delivered[i].seq \in Nat
    BY DeliveredType
  <2>. QED  BY <1>3, <2>1
<1>8. known'
  BY DEF SequencerTick
<1>. QED  BY <1>1, <1>4, <1>5, <1>6, <1>7, <1>8 DEF DeliveredInOrder

(* The packet released next extends the delivered sequence in order. *)
LEMMA ReleasePreserves ==
  ASSUME Inv, TypeOK', ReleaseNext
  PROVE  Inv'
<1>. USE DEF Inv, TypeOK
<1>. DEFINE n == sequencer.next_seq
            pkt == next_packet(sequencer)
<1>1. UNCHANGED <<tx_counter, net, sent, accepted, skipped>>
      /\ delivered' = Append(delivered, pkt)
  BY DEF ReleaseNext
<1>2. /\ n \in Keys(sequencer)
      /\ n \in Nat
      /\ pkt = sequencer.packet_queue[n]
      /\ sequencer'.next_seq = n + 1
      /\ Keys(sequencer') = Keys(sequencer) \ {n}
      /\ \A k \in Keys(sequencer') :
           sequencer'.packet_queue[k] = sequencer.packet_queue[k]
  BY GetNextFacts DEF ReleaseNext, IsSequencer
<1>3. n < Len(sent) /\ pkt = [seq |-> n, bytes |-> sent[n + 1]] /\ pkt \in Packet
  <2>1. pkt \in Packet
    BY GetNextFacts DEF ReleaseNext
  <2>. QED  BY <1>2, <2>1 DEF NumbersAreUnique
<1>4. /\ Len(delivered) \in Nat
      /\ DOMAIN delivered = 1..Len(delivered)
      /\ DOMAIN delivered' = 1..(Len(delivered) + 1)
      /\ delivered'[Len(delivered) + 1] = pkt
      /\ \A i \in 1..Len(delivered) : delivered'[i] = delivered[i]
  <2>. HIDE DEF pkt
  <2>. QED  BY <1>1, <1>3, AppendProperties, LenProperties
<1>5. \A i \in DOMAIN delivered : delivered[i].seq \in Nat /\ delivered[i].seq < n
  BY DeliveredType
<1>6. DeliveredSeqs' = DeliveredSeqs \cup {n}
  <2>1. ASSUME NEW i \in DOMAIN delivered' PROVE delivered'[i].seq \in DeliveredSeqs \cup {n}
    <3>1. CASE i \in DOMAIN delivered
      BY <1>4, <3>1 DEF DeliveredSeqs
    <3>2. CASE i \notin DOMAIN delivered
      BY <1>3, <1>4, <2>1, <3>2
    <3>. QED  BY <3>1, <3>2
  <2>2. n \in DeliveredSeqs'
    <3>1. Len(delivered) + 1 \in DOMAIN delivered'
      BY <1>4
    <3>2. delivered'[Len(delivered) + 1].seq = n
      BY <1>3, <1>4
    <3>. QED  BY <3>1, <3>2 DEF DeliveredSeqs
  <2>3. DeliveredSeqs \subseteq DeliveredSeqs'
    BY <1>4 DEF DeliveredSeqs
  <2>. QED  BY <2>1, <2>2, <2>3 DEF DeliveredSeqs
<1>7. NumbersAreUnique'
  BY <1>1, <1>2 DEF NumbersAreUnique
<1>8. DeliveredInOrder'
  <2>1. ASSUME NEW i \in DOMAIN delivered', NEW j \in DOMAIN delivered', i < j
        PROVE  delivered'[i].seq < delivered'[j].seq
    <3>1. CASE j \in DOMAIN delivered
      <4>1. i \in DOMAIN delivered
        BY <1>4, <2>1, <3>1
      <4>2. delivered[i].seq < delivered[j].seq
        BY <2>1, <3>1, <4>1 DEF DeliveredInOrder
      <4>. QED  BY <1>4, <3>1, <4>1, <4>2
    <3>2. CASE j \notin DOMAIN delivered
      <4>1. i \in DOMAIN delivered /\ j = Len(delivered) + 1
        BY <1>4, <2>1, <3>2
      <4>2. delivered'[j].seq = n
        BY <1>3, <1>4, <4>1
      <4>. QED  BY <1>4, <1>5, <4>1, <4>2
    <3>. QED  BY <3>1, <3>2
  <2>2. ASSUME NEW i \in DOMAIN delivered'
        PROVE  /\ delivered'[i].seq < Len(sent)
               /\ delivered'[i].bytes = sent[delivered'[i].seq + 1]
    BY <1>3, <1>4, <2>2 DEF DeliveredInOrder
  <2>. QED  BY <1>1, <2>1, <2>2 DEF DeliveredInOrder
<1>9. NothingAcceptedIsLost'
  <2>1. \A k \in Keys(sequencer) : k \in Nat /\ k >= n
    BY DEF NothingAcceptedIsLost, IsSequencer
  <2>. QED  BY <1>1, <1>2, <1>6, <2>1 DEF NothingAcceptedIsLost
<1>10. EveryGapHasADeadline'
  <2>1. n \notin skipped
    BY <1>2 DEF EveryGapHasADeadline
  <2>2. 0..(n + 1 - 1) = (0..(n - 1)) \cup {n}
    BY <1>2
  <2>. QED  BY <1>1, <1>2, <1>6, <2>1, <2>2 DEF EveryGapHasADeadline
<1>11. \A i \in DOMAIN delivered' : delivered'[i].seq < sequencer'.next_seq
  BY <1>2, <1>3, <1>4, <1>5
<1>12. known'
  BY <1>2 DEF ReleaseNext
<1>. QED  BY <1>7, <1>8, <1>9, <1>10, <1>11, <1>12

(* Steps that leave the queue's contents, next_seq, sent and the records   *)
(* of what happened alone preserve the invariants.                         *)
LEMMA QuietPreserves ==
  ASSUME Inv, TypeOK',
         UNCHANGED <<tx_counter, known, sent, delivered, accepted, skipped>>,
         net' \subseteq net,
         sequencer'.packet_queue = sequencer.packet_queue,
         sequencer'.next_seq = sequencer.next_seq
  PROVE  Inv'
BY DEF Inv, NumbersAreUnique, DeliveredInOrder, NothingAcceptedIsLost,
       EveryGapHasADeadline, DeliveredSeqs, Keys

(* Every reachable state satisfies the inductive invariant. *)
THEOREM InvCorrect == Spec => []Inv
<1>1. ASSUME Inv, [Next]_vars PROVE Inv'
  <2>1. TypeOK'
    BY <1>1, TypeNext DEF Inv
  <2>2. ASSUME NEW b \in Payload, handle_packet_from_local(b) PROVE Inv'
    BY <1>1, <2>1, <2>2, SendPreserves
  <2>3. CASE LearnPeer
    <3>1. Keys(sequencer') = {} /\ sequencer'.next_seq = 0
      BY <2>3, NewSequencerFacts DEF LearnPeer
    <3>2. Keys(sequencer) = {} /\ sequencer.next_seq = 0 /\ known'
      BY <1>1, <2>3 DEF LearnPeer, Inv
    <3>3. UNCHANGED <<tx_counter, net, sent, delivered, accepted, skipped>>
      BY <2>3 DEF LearnPeer, history
    <3>4. NumbersAreUnique' /\ DeliveredInOrder'
      BY <1>1, <3>1, <3>3 DEF Inv, NumbersAreUnique, DeliveredInOrder
    <3>5. NothingAcceptedIsLost' /\ EveryGapHasADeadline'
      BY <1>1, <3>1, <3>2, <3>3
      DEF Inv, NothingAcceptedIsLost, EveryGapHasADeadline, DeliveredSeqs
    <3>. QED  BY <1>1, <2>1, <3>1, <3>2, <3>3, <3>4, <3>5 DEF Inv
  <2>4. ASSUME NEW d \in net, handle_incoming_packet(d) PROVE Inv'
    BY <1>1, <2>1, <2>4, ReceivePreserves
  <2>5. CASE SequencerTick
    BY <1>1, <2>1, <2>5, TickPreserves
  <2>6. CASE ReleaseNext
    BY <1>1, <2>1, <2>6, ReleasePreserves
  <2>7. CASE HandlerReturns
    BY <1>1, <2>1, <2>7, QuietPreserves DEF HandlerReturns, history
  <2>8. CASE MillisecondPasses
    <3>1. /\ sequencer'.packet_queue = sequencer.packet_queue
          /\ sequencer'.next_seq = sequencer.next_seq
      BY <1>1, <2>8, ElapseFacts DEF MillisecondPasses, Inv, TypeOK
    <3>. QED  BY <1>1, <2>1, <2>8, <3>1, QuietPreserves DEF MillisecondPasses, history
  <2>9. ASSUME NEW d \in net, Lose(d) PROVE Inv'
    BY <1>1, <2>1, <2>9, QuietPreserves DEF Lose, receiver, history
  <2>10. CASE UNCHANGED vars
    BY <1>1, <2>1, <2>10, QuietPreserves DEF vars, receiver, history
  <2>. QED  BY <1>1, <2>2, <2>3, <2>4, <2>5, <2>6, <2>7, <2>8, <2>9, <2>10 DEF Next
<1>. QED  BY <1>1, InvInit, PTL DEF Spec
-----------------------------------------------------------------------------
(* Packets reach the local interface in the order of their numbers, each   *)
(* at most once and with the bytes the sender read.                        *)
THEOREM InOrderCorrect == Spec => []DeliveredInOrder
<1>1. Inv => DeliveredInOrder
  BY DEF Inv
<1>. QED  BY <1>1, InvCorrect, PTL

(* advance_queue never steps over a packet that is in the queue. *)
THEOREM NothingLostCorrect == Spec => []NothingAcceptedIsLost
<1>1. Inv => NothingAcceptedIsLost
  BY DEF Inv
<1>. QED  BY <1>1, InvCorrect, PTL

(* Every hole in the delivered numbers is one a deadline gave up. *)
THEOREM GapsCorrect == Spec => []EveryGapHasADeadline
<1>1. Inv => EveryGapHasADeadline
  BY DEF Inv
<1>. QED  BY <1>1, InvCorrect, PTL

(* The release loops of handle_incoming_packet and of the tick end only    *)
(* when nothing more can go out.                                           *)
THEOREM NoWaitCorrect == Spec => []NoReleasablePacketWaits
<1>1. Init => NoReleasablePacketWaits
  BY NewSequencerFacts DEF Init, NoReleasablePacketWaits
<1>2. ASSUME Inv, NoReleasablePacketWaits, [Next]_vars
      PROVE  NoReleasablePacketWaits'
  <2>. USE <1>2 DEF NoReleasablePacketWaits
  <2>1. ASSUME NEW b \in Payload, handle_packet_from_local(b)
        PROVE  NoReleasablePacketWaits'
    BY <2>1 DEF handle_packet_from_local, receiver
  <2>2. CASE LearnPeer
    BY <2>2, NewSequencerFacts DEF LearnPeer
  <2>3. ASSUME NEW d \in net, handle_incoming_packet(d)
        PROVE  NoReleasablePacketWaits'
    BY <2>3 DEF handle_incoming_packet
  <2>4. CASE SequencerTick
    BY <2>4 DEF SequencerTick
  <2>5. CASE ReleaseNext
    BY <2>5 DEF ReleaseNext
  <2>6. CASE HandlerReturns
    <3>1. Keys(sequencer) \subseteq Nat /\ sequencer.next_seq \in Nat
      BY DEF Inv, TypeOK, IsSequencer
    <3>2. ASSUME sequencer.next_seq \in Keys(sequencer) PROVE FALSE
      <4>1. /\ first_key(sequencer) \in Keys(sequencer)
            /\ first_key(sequencer) <= sequencer.next_seq
        BY <3>1, <3>2, FirstKey
      <4>2. first_key(sequencer) >= sequencer.next_seq
        BY <4>1 DEF Inv, NothingAcceptedIsLost
      <4>3. first_key(sequencer) = sequencer.next_seq
        BY <3>1, <4>1, <4>2
      <4>. QED  BY <2>6, <3>2, <4>3 DEF HandlerReturns, have_next_packet
    <3>. QED  BY <2>6, <3>2 DEF HandlerReturns
  <2>7. CASE MillisecondPasses
    BY <2>7, ElapseFacts DEF MillisecondPasses, Inv, TypeOK
  <2>8. ASSUME NEW d \in net, Lose(d)
        PROVE  NoReleasablePacketWaits'
    BY <2>8 DEF Lose, receiver
  <2>9. CASE UNCHANGED vars
    BY <2>9 DEF vars, receiver
  <2>. QED  BY <2>1, <2>2, <2>3, <2>4, <2>5, <2>6, <2>7, <2>8, <2>9 DEF Next
<1>. QED  BY <1>1, <1>2, InvCorrect, PTL DEF Spec

(* The step of the abstract tunnel that a released packet is. *)
LEMMA ReleaseDelivers ==
  ASSUME Inv, ReleaseNext
  PROVE  T!Deliver
<1>. USE DEF Inv, TypeOK
<1>. DEFINE n == sequencer.next_seq
            pkt == next_packet(sequencer)
<1>1. n \in Keys(sequencer) /\ n \in Nat /\ pkt = sequencer.packet_queue[n]
      /\ pkt \in Packet
  BY GetNextFacts DEF ReleaseNext, IsSequencer
<1>2. n < Len(sent) /\ pkt = [seq |-> n, bytes |-> sent[n + 1]]
  BY <1>1 DEF NumbersAreUnique
<1>3. delivered' = Append(delivered, pkt) /\ UNCHANGED sent
  BY DEF ReleaseNext
<1>4. /\ Len(delivered) \in Nat
      /\ DOMAIN delivered = 1..Len(delivered)
      /\ Len(delivered') = Len(delivered) + 1
      /\ delivered'[Len(delivered) + 1] = pkt
      /\ \A i \in 1..Len(delivered) : delivered'[i] = delivered[i]
      /\ delivered' # << >>
  <2>. HIDE DEF pkt
  <2>. QED  BY <1>1, <1>3, AppendProperties, LenProperties
<1>5. Received' = Append(Received, sent[n + 1])
  <2>. HIDE DEF pkt, n
  <2>. QED  BY <1>2, <1>4 DEF Received
<1>6. LastReceived' = n + 1
  BY <1>2, <1>4 DEF LastReceived
<1>7. LastReceived \in Nat /\ LastReceived <= n
  <2>1. CASE delivered = << >>
    BY <1>1, <2>1 DEF LastReceived
  <2>2. CASE delivered # << >>
    <3>1. Len(delivered) \in DOMAIN delivered
      BY <1>4, <2>2, EmptySeq
    <3>2. delivered[Len(delivered)].seq \in Nat
      BY <3>1, DeliveredType
    <3>3. delivered[Len(delivered)].seq < n
      BY <3>1
    <3>. QED  BY <1>1, <2>2, <3>2, <3>3 DEF LastReceived
  <2>. QED  BY <2>1, <2>2
<1>8. n + 1 \in (LastReceived + 1)..Len(sent)
  <2>1. Len(sent) \in Nat
    BY LenProperties
  <2>. QED  BY <1>1, <1>2, <1>7, <2>1
<1>. QED  BY <1>3, <1>5, <1>6, <1>8 DEF T!Deliver

(* Copying packets over many lossy, reordering paths and releasing them    *)
(* through the sequencer implements the abstract tunnel.                   *)
THEOREM TunnelRefined == Spec => ImplementsTunnel
<1>1. Init => T!Init
  BY DEF Init, T!Init, Received, LastReceived
<1>2. ASSUME Inv, [Next]_vars
      PROVE  [T!Next]_(T!tunnelVars)
  <2>. USE <1>2
  <2>1. ASSUME NEW b \in Payload, handle_packet_from_local(b)
        PROVE  T!Next
    BY <2>1 DEF handle_packet_from_local, T!Next, T!Send, Received, LastReceived
  <2>2. CASE ReleaseNext
    BY <2>2, ReleaseDelivers DEF T!Next
  <2>3. CASE UNCHANGED <<sent, delivered>>
    BY <2>3 DEF T!tunnelVars, Received, LastReceived
  <2>4. CASE LearnPeer
    BY <2>3, <2>4 DEF LearnPeer, history
  <2>5. ASSUME NEW d \in net, handle_incoming_packet(d)
        PROVE  UNCHANGED <<sent, delivered>>
    BY <2>5 DEF handle_incoming_packet
  <2>6. CASE SequencerTick
    BY <2>3, <2>6 DEF SequencerTick
  <2>7. CASE HandlerReturns
    BY <2>3, <2>7 DEF HandlerReturns, history
  <2>8. CASE MillisecondPasses
    BY <2>3, <2>8 DEF MillisecondPasses, history
  <2>9. ASSUME NEW d \in net, Lose(d)
        PROVE  UNCHANGED <<sent, delivered>>
    BY <2>9 DEF Lose, history
  <2>10. CASE UNCHANGED vars
    BY <2>3, <2>10 DEF vars, history
  <2>. QED  BY <2>1, <2>2, <2>3, <2>4, <2>5, <2>6, <2>7, <2>8, <2>9, <2>10 DEF Next
<1>. QED  BY <1>1, <1>2, InvCorrect, PTL DEF Spec, ImplementsTunnel, T!Spec
=============================================================================
