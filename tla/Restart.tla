------------------------------- MODULE Restart -------------------------------
(***************************************************************************)
(* Flow with instances that end and are started again.  Nothing is kept    *)
(* over a restart: the sender counts from 0 again, the receiver has a new  *)
(* sequencer and knows the peers of its settings file.  A packet does not  *)
(* say which start of the sender it comes from; here its content does, so  *)
(* that the properties can tell.                                           *)
(***************************************************************************)
EXTENDS Flow

CONSTANTS
  MaxEpoch,   \* bound: restarts of the sender
  MaxBoots    \* bound: restarts of the receiver

ASSUME RestartAssumption ==
  MaxEpoch \in Nat /\ MaxBoots \in Nat /\ Payload = 0..MaxEpoch

VARIABLES
  epoch,        \* restarts of the sender so far
  boots,        \* restarts of the receiver so far
  configured,   \* is the sender in the receiver's settings file?
  before        \* the largest counter the sender had before its restarts

starts == <<epoch, boots, configured, before>>

RestartInit ==
  /\ Init
  /\ epoch = 0 /\ boots = 0
  /\ configured = known
  /\ before = 0

(* The numbers below are those some start of the sender has used. *)
Used == IF tx_counter > before THEN tx_counter ELSE before

(* Messages in the channels of the old process are lost.  The counter is 0 *)
(* again, and with it the bound on the packets of this start.              *)
SenderRestarts ==
  /\ epoch < MaxEpoch
  /\ epoch' = epoch + 1
  /\ before' = Used
  /\ tx_counter' = 0
  /\ sent' = << >>
  /\ net' \in SUBSET net
  /\ UNCHANGED <<receiver, delivered, accepted, skipped, refused>>
  /\ UNCHANGED <<boots, configured>>

(* The record of what came out, was taken in, given up or refused is from  *)
(* now on that of the new process.                                         *)
ReceiverRestarts ==
  /\ boots < MaxBoots
  /\ boots' = boots + 1
  /\ known' = configured
  /\ sequencer' = NewSequencer
  /\ cm' = "select"
  /\ delivered' = << >> /\ accepted' = {} /\ skipped' = {} /\ refused' = {}
  /\ net' \in SUBSET net
  /\ UNCHANGED <<tx_counter, sent, epoch, configured, before>>

(* The steps of Flow.  A copy that a lossy path loses is one that is never *)
(* received.                                                               *)
Runs ==
  \/ handle_packet_from_local(epoch)
  \/ LearnPeer
  \/ \E d \in net : handle_incoming_packet(d)
  \/ SequencerTick
  \/ ReleaseNext
  \/ HandlerReturns
  \/ MillisecondPasses

RestartNext ==
  \/ Runs /\ UNCHANGED starts
  \/ SenderRestarts
  \/ ReceiverRestarts

RestartSpec == RestartInit /\ [][RestartNext]_<<vars, starts>>

(* The fairness of Flow; nothing need restart. *)
RestartFairSpec == RestartSpec /\ Fairness

-----------------------------------------------------------------------------
(***************************************************************************)
(* Properties.                                                             *)
(***************************************************************************)

(* While the receiver runs, what it puts on its local interface has        *)
(* strictly increasing numbers, also across restarts of the sender: copies *)
(* from before a restart that are still in flight cannot make it repeat or *)
(* reorder the packets of one start.                                       *)
OrderSurvivesRestarts ==
  /\ \A i, j \in DOMAIN delivered :
       i < j => delivered[i].seq < delivered[j].seq
  /\ \A k \in Keys(sequencer) : k >= sequencer.next_seq

(* The receiver refuses the packets of a restarted sender no longer than   *)
(* until it has sent as many as in any start before.                       *)
BlackoutIsBounded == sequencer.next_seq <= Used

(* The strengthening that makes the two inductive: every number in flight, *)
(* in the queue or below next_seq was used in some start of the sender;    *)
(* what this start of the receiver delivered lies below next_seq; and a    *)
(* receiver that has not heard of the sender since it was started has      *)
(* nothing of it.                                                          *)
RestartInv ==
  /\ TypeOK
  /\ epoch \in Payload
  /\ before \in Nat
  /\ configured \in BOOLEAN
  /\ OrderSurvivesRestarts
  /\ BlackoutIsBounded
  /\ \A d \in net : d.pkt.seq < Used
  /\ \A k \in Keys(sequencer) : k < Used /\ sequencer.packet_queue[k].seq = k
  /\ \A i \in DOMAIN delivered : delivered[i].seq < sequencer.next_seq
  /\ ~known => /\ Keys(sequencer) = {}
               /\ sequencer.next_seq = 0
               /\ delivered = << >>

(* A sender that was started again is heard once it has caught up: a       *)
(* packet with a number that no earlier start has used, in flight on a     *)
(* path that loses nothing, is put out by the receiver that runs now, with *)
(* its own content and not that of a packet of an earlier start, unless a  *)
(* deadline gave it up, it came before the first keepalive, or one of the  *)
(* two restarts again.  What arrives while the sender has not caught up    *)
(* does not push the point further away.                                   *)
RestartedSenderIsHeard ==
  \A e \in 1..MaxEpoch : \A n \in 0..MaxBoots : \A k \in 1..(MaxSeq - 1) :
    LET pkt == [seq |-> k, bytes |-> e]
        now == epoch = e /\ boots = n
        caught_up == 0 < before /\ before <= k
        in_flight == \E p \in Paths \ LossyPaths : [path |-> p, pkt |-> pkt] \in net
        out == \E i \in DOMAIN delivered : delivered[i] = pkt
    IN  (now /\ caught_up /\ in_flight) ~> (out \/ k \in skipped \cup refused \/ ~now)

(* Nothing that a started receiver queues waits for ever for the numbers   *)
(* that were used up before it was started.                                *)
RestartedReceiverCatchesUp ==
  \A n \in 1..MaxBoots : \A k \in 0..(MaxSeq - 1) :
    (boots = n /\ k \in Keys(sequencer)) ~> (k \in DeliveredSeqs \/ boots # n)
=============================================================================
