------------------------------- MODULE Tunnel -------------------------------
(***************************************************************************)
(* What one direction of a tunnel between two peers promises to the        *)
(* network on its far side: packets come out in the order in which they    *)
(* went in, each at most once and unaltered; some may be missing.          *)
(***************************************************************************)
EXTENDS Naturals, Sequences

CONSTANT Payload    \* what a tunnelled packet can hold

VARIABLES
  sent,       \* packets the sender read from its local interface, in order
  received,   \* packets handed to the receiver's local interface, in order
  last        \* index in sent of the packet handed over last, 0 if none

tunnelVars == <<sent, received, last>>

Init ==
  /\ sent = << >>
  /\ received = << >>
  /\ last = 0

Send ==
  /\ \E b \in Payload : sent' = Append(sent, b)
  /\ UNCHANGED <<received, last>>

Deliver ==
  /\ \E i \in (last + 1)..Len(sent) :
       /\ received' = Append(received, sent[i])
       /\ last' = i
  /\ UNCHANGED sent

Next == Send \/ Deliver

Spec == Init /\ [][Next]_tunnelVars
=============================================================================
