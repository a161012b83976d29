------------------------------ MODULE Sequencer ------------------------------
(***************************************************************************)
(* The reordering buffer that a node keeps for each peer                   *)
(* (src/src/sequencer.rs), as operators on a record.                       *)
(*                                                                         *)
(*   packet_queue  the BTreeMap: a function whose domain is the set of     *)
(*                 queued sequence numbers                                 *)
(*   next_seq      the sequence number to release next                     *)
(*   since_update  SystemTime::now() - last_update in milliseconds; the    *)
(*                 code only compares it with the deadline, so it stops    *)
(*                 at DeadlineMs + 1                                       *)
(*                                                                         *)
(* A packet is a record with a field seq.  Sequence numbers are u64 in the *)
(* code; a counter that advances by one per packet does not reach 2^64, so *)
(* they are natural numbers here.                                          *)
(***************************************************************************)
EXTENDS Naturals

CONSTANT DeadlineMs    \* Sequencer::deadline; 3 ms for every peer in the code

ASSUME DeadlineAssumption == DeadlineMs \in Nat

Keys(s) == DOMAIN s.packet_queue

(* BTreeMap::first_entry().key(), for a queue that is not empty. *)
first_key(s) == CHOOSE k \in Keys(s) : \A j \in Keys(s) : k <= j

(* The fields of struct Sequencer, for packets drawn from the set P. *)
IsSequencer(s, P) ==
  /\ Keys(s) \subseteq Nat
  /\ s \in [packet_queue : [Keys(s) -> P], next_seq : Nat,
            since_update : 0..(DeadlineMs + 1)]

NewSequencer ==
  [packet_queue |-> [k \in {} |-> k], next_seq |-> 0, since_update |-> 0]

(***************************************************************************)
(* Faulty variants, used to show which properties depend on which line.    *)
(***************************************************************************)
InsertAnySeq(s, pkt) ==          \* no test against next_seq
  IF pkt.seq \notin Keys(s)
  THEN [s EXCEPT !.packet_queue =
         [k \in Keys(s) \cup {pkt.seq} |-> IF k \in Keys(s) THEN @[k] ELSE pkt]]
  ELSE s

InsertAfterNextSeq(s, pkt) ==    \* > where the code has >=
  IF pkt.seq > s.next_seq THEN InsertAnySeq(s, pkt) ELSE s

InsertCountsRepeat(s, pkt) ==    \* the last number again is taken for the next one
  IF pkt.seq + 1 = s.next_seq THEN [s EXCEPT !.next_seq = @ + 1]
  ELSE IF pkt.seq >= s.next_seq THEN InsertAnySeq(s, pkt) ELSE s

AdvanceToLast(s) ==              \* last_entry() where the code has first_entry()
  IF Keys(s) = {} THEN s
  ELSE [s EXCEPT !.next_seq = CHOOSE k \in Keys(s) : \A j \in Keys(s) : k >= j]

GetNextKeepsNextSeq(s) ==        \* next_seq += 1 forgotten
  [s EXCEPT !.packet_queue = [k \in Keys(s) \ {first_key(s)} |-> @[k]],
            !.since_update = 0]

NeverExceeded(s) ==              \* the clock is compared with a later instant
  s.since_update > DeadlineMs + 1

-----------------------------------------------------------------------------
(***************************************************************************)
(* insert_packet: entry(seq).or_insert(pkt) unless the number has passed.  *)
(***************************************************************************)
insert_packet(s, pkt) ==
  IF pkt.seq >= s.next_seq /\ pkt.seq \notin Keys(s)
  THEN [s EXCEPT !.packet_queue =
         [k \in Keys(s) \cup {pkt.seq} |-> IF k \in Keys(s) THEN @[k] ELSE pkt]]
  ELSE s

have_next_packet(s) == Keys(s) # {} /\ first_key(s) = s.next_seq

(***************************************************************************)
(* get_next_packet returns the packet at the front of the queue when       *)
(* have_next_packet holds; next_packet is what it returns, get_next_packet *)
(* the sequencer it leaves behind.                                         *)
(***************************************************************************)
next_packet(s) == s.packet_queue[s.next_seq]

get_next_packet(s) ==
  [packet_queue |-> [k \in Keys(s) \ {s.next_seq} |-> s.packet_queue[k]],
   next_seq     |-> s.next_seq + 1,
   since_update |-> 0]

advance_queue(s) ==
  IF Keys(s) = {} THEN s ELSE [s EXCEPT !.next_seq = first_key(s)]

is_deadline_exceeded(s) == s.since_update > DeadlineMs

(* One millisecond passes on the system clock. *)
Elapse(s) ==
  IF s.since_update > DeadlineMs THEN s
  ELSE [s EXCEPT !.since_update = @ + 1]
=============================================================================
