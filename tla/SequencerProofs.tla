--------------------------- MODULE SequencerProofs ---------------------------
(***************************************************************************)
(* What the operations of the sequencer do to its keys, its counter and    *)
(* the packets it holds, for every state and every deadline.  The proofs   *)
(* about the modules that use a sequencer cite these facts and never       *)
(* expand the operators.                                                   *)
(***************************************************************************)
EXTENDS Sequencer, NaturalsInduction, WellFoundedInduction, TLAPS

(* A BTreeMap that is not empty has a first entry. *)
LEMMA FirstKey ==
  ASSUME NEW s, Keys(s) \subseteq Nat, Keys(s) # {}
  PROVE  /\ first_key(s) \in Keys(s)
         /\ \A j \in Keys(s) : first_key(s) <= j
<1>1. PICK k \in Keys(s) : \A j \in Keys(s) : <<j, k>> \notin OpToRel(<, Nat)
  BY NatLessThanWellFounded, WFMin, Zenon
<1>2. \A j \in Keys(s) : ~ (j < k)
  BY <1>1, Zenon DEF OpToRel
<1>3. \A j \in Keys(s) : k <= j
  BY <1>2
<1>. QED  BY <1>3 DEF first_key

(* A fresh sequencer is empty and waits for packet 0. *)
LEMMA NewSequencerFacts ==
  ASSUME NEW P
  PROVE  /\ IsSequencer(NewSequencer, P)
         /\ Keys(NewSequencer) = {}
         /\ NewSequencer.next_seq = 0
BY DeadlineAssumption DEF IsSequencer, NewSequencer, Keys

(* insert_packet adds at most the packet's own number, only when that      *)
(* number has not been passed, and replaces nothing.                       *)
LEMMA InsertFacts ==
  ASSUME NEW P, NEW s, IsSequencer(s, P), NEW pkt \in P, pkt.seq \in Nat
  PROVE  LET t == insert_packet(s, pkt)
         IN  /\ IsSequencer(t, P)
             /\ t.next_seq = s.next_seq
             /\ Keys(s) \subseteq Keys(t)
             /\ \A k \in Keys(s) : t.packet_queue[k] = s.packet_queue[k]
             /\ \A k \in Keys(t) \ Keys(s) :
                  k = pkt.seq /\ k >= s.next_seq /\ t.packet_queue[k] = pkt
<1>1. CASE pkt.seq >= s.next_seq /\ pkt.seq \notin Keys(s)
  BY <1>1 DEF insert_packet, IsSequencer, Keys
<1>2. CASE ~ (pkt.seq >= s.next_seq /\ pkt.seq \notin Keys(s))
  BY <1>2 DEF insert_packet, IsSequencer, Keys
<1>. QED  BY <1>1, <1>2

(* get_next_packet removes exactly the packet numbered next_seq. *)
LEMMA GetNextFacts ==
  ASSUME NEW P, NEW s, IsSequencer(s, P), have_next_packet(s)
  PROVE  LET t == get_next_packet(s)
         IN  /\ IsSequencer(t, P)
             /\ s.next_seq \in Keys(s)
             /\ next_packet(s) = s.packet_queue[s.next_seq]
             /\ next_packet(s) \in P
             /\ t.next_seq = s.next_seq + 1
             /\ Keys(t) = Keys(s) \ {s.next_seq}
             /\ \A k \in Keys(t) : t.packet_queue[k] = s.packet_queue[k]
<1>1. s.next_seq \in Keys(s)
  BY FirstKey DEF have_next_packet, IsSequencer
<1>. DEFINE t == get_next_packet(s)
            q == [k \in Keys(s) \ {s.next_seq} |-> s.packet_queue[k]]
<1>2. /\ s \in [packet_queue : [Keys(s) -> P], next_seq : Nat,
                since_update : 0..(DeadlineMs + 1)]
      /\ Keys(s) \subseteq Nat
  BY DEF IsSequencer
<1>3. q \in [Keys(s) \ {s.next_seq} -> P]
  BY <1>2
<1>4. t = [packet_queue |-> q, next_seq |-> s.next_seq + 1, since_update |-> 0]
  BY DEF get_next_packet
<1>5. Keys(t) = Keys(s) \ {s.next_seq}
  BY <1>4 DEF Keys
<1>6. IsSequencer(t, P)
  <2>1. 0 \in 0..(DeadlineMs + 1) /\ s.next_seq + 1 \in Nat
    BY <1>2, DeadlineAssumption
  <2>2. t \in [packet_queue : [Keys(t) -> P], next_seq : Nat,
               since_update : 0..(DeadlineMs + 1)]
    <3>. HIDE DEF t, q
    <3>. QED  BY <1>3, <1>4, <1>5, <2>1
  <2>. QED  BY <1>2, <1>5, <2>2 DEF IsSequencer
<1>7. next_packet(s) = s.packet_queue[s.next_seq] /\ next_packet(s) \in P
  BY <1>1, <1>2 DEF next_packet
<1>8. t.next_seq = s.next_seq + 1 /\ t.packet_queue = q
  BY <1>4
<1>. QED  BY <1>1, <1>5, <1>6, <1>7, <1>8

(* advance_queue moves next_seq to the first queued packet and nothing     *)
(* else; with an empty queue it does nothing.                              *)
LEMMA AdvanceFacts ==
  ASSUME NEW P, NEW s, IsSequencer(s, P)
  PROVE  LET t == advance_queue(s)
         IN  /\ IsSequencer(t, P)
             /\ Keys(t) = Keys(s)
             /\ t.packet_queue = s.packet_queue
             /\ Keys(s) = {} => t.next_seq = s.next_seq
             /\ Keys(s) # {} => /\ t.next_seq \in Keys(s)
                                /\ \A k \in Keys(s) : t.next_seq <= k
<1>1. CASE Keys(s) = {}
  BY <1>1 DEF advance_queue, IsSequencer
<1>2. CASE Keys(s) # {}
  <2>1. first_key(s) \in Keys(s) /\ \A j \in Keys(s) : first_key(s) <= j
    BY <1>2, FirstKey DEF IsSequencer
  <2>. QED  BY <1>2, <2>1 DEF advance_queue, IsSequencer, Keys
<1>. QED  BY <1>1, <1>2

(* The passing of time changes neither the queue nor next_seq. *)
LEMMA ElapseFacts ==
  ASSUME NEW P, NEW s, IsSequencer(s, P)
  PROVE  LET t == Elapse(s)
         IN  /\ IsSequencer(t, P)
             /\ t.next_seq = s.next_seq
             /\ t.packet_queue = s.packet_queue
             /\ Keys(t) = Keys(s)
<1>1. CASE s.since_update > DeadlineMs
  BY <1>1 DEF Elapse
<1>2. CASE ~ (s.since_update > DeadlineMs)
  BY <1>2, DeadlineAssumption DEF Elapse, IsSequencer, Keys
<1>. QED  BY <1>1, <1>2
=============================================================================
