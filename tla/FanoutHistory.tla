----------------------------- MODULE FanoutHistory -----------------------------
(***************************************************************************)
(* Fanout with a record of what was sent to the remotes and what each of   *)
(* them wrote to its socket.  A remote that lags loses messages; it is a   *)
(* tunnel in the sense of Tunnel all the same.                             *)
(***************************************************************************)
EXTENDS Fanout

CONSTANT MaxSent    \* bound: number of messages sent to the remotes

ASSUME MaxSentAssumption == MaxSent \in Nat

VARIABLES
  outgoing,   \* everything sent into the broadcast channel, in order
  written,    \* written[r]: what r wrote to its socket, in order
  position,   \* position[r]: index in outgoing of what r wrote last, 0 if none
  wrote,      \* wrote[r]: indices in outgoing of all that r wrote
  overrun     \* overrun[r]: indices that left the channel before r received them

history == <<outgoing, written, position, wrote, overrun>>

HistoryInit ==
  /\ Init
  /\ outgoing = << >>
  /\ written = [r \in Remote |-> << >>]
  /\ position = [r \in Remote |-> 0]
  /\ wrote = [r \in Remote |-> {}]
  /\ overrun = [r \in Remote |-> {}]

(* A message into a full channel takes the place of the one Capacity       *)
(* before it, which a remote that is so far behind will not get.           *)
Overwritten(r) ==
  IF r \in alive /\ unread[r] >= Capacity THEN {Len(outgoing) + 1 - Capacity} ELSE {}

RecordedBroadcast ==
  /\ Broadcast
  /\ outgoing' = Append(outgoing, Head(burst))
  /\ overrun' = [r \in Remote |-> overrun[r] \cup Overwritten(r)]
  /\ UNCHANGED <<written, position, wrote>>

(* Index in outgoing of the message that r receives next. *)
NextIndex(r) == Len(outgoing) - unread[r] + 1

RecordedWrite(r, a) ==
  /\ WritesTo(r, a)
  /\ written' = [written EXCEPT ![r] = Append(@, a)]
  /\ position' = [position EXCEPT ![r] = NextIndex(r)]
  /\ wrote' = [wrote EXCEPT ![r] = @ \cup {NextIndex(r)}]
  /\ UNCHANGED <<outgoing, overrun>>

(* No handler starts to send what the bound leaves no room for. *)
Unrecorded(Step) ==
  /\ Step
  /\ Len(outgoing) + Len(burst') <= MaxSent
  /\ UNCHANGED history

HistoryNext ==
  \/ RecordedBroadcast
  \/ \E r \in Remote : \E a \in Addr : RecordedWrite(r, a)
  \/ Unrecorded(Silent)

HistorySpec == HistoryInit /\ [][HistoryNext]_<<vars, history>>

(***************************************************************************)
(* The thread runs on, and select! does not pass over a branch that is     *)
(* ready again and again.  Nothing need arrive from the network or from    *)
(* the local interface, and no interval need tick.                         *)
(***************************************************************************)
ReceiveBranch(r) ==
  (\E a \in Addr : RecordedWrite(r, a)) \/ Unrecorded(Unreachable(r) \/ Lagged(r))

HistoryFairSpec ==
  /\ HistorySpec
  /\ WF_<<vars, history>>(RecordedBroadcast)
  /\ SF_<<vars, history>>(Unrecorded(handle_udp_packet))
  /\ \A r \in Remote : /\ SF_<<vars, history>>(Unrecorded(Forwards(r)))
                       /\ SF_<<vars, history>>(ReceiveBranch(r))

-----------------------------------------------------------------------------
(***************************************************************************)
(* Properties.                                                             *)
(***************************************************************************)
T(r) == INSTANCE Tunnel
  WITH Payload <- Addr, sent <- outgoing, received <- written[r], last <- position[r]

(* Whatever the remotes miss while they wait or lag, each of them writes   *)
(* the messages in the order in which they were sent, each at most once:   *)
(* this is T(r)!Spec for every remote r.                                   *)
EveryRemoteIsATunnel ==
  /\ \A r \in Remote : T(r)!Init
  /\ [][\A r \in Remote : [T(r)!Next]_<<outgoing, written[r], position[r]>>]_<<vars, history>>

(* s holds the newest messages of out. *)
Newest(s, out) ==
  /\ Len(s) <= Len(out)
  /\ \A i \in DOMAIN s : s[i] = out[Len(out) - Len(s) + i]

(* Messages a remote may still receive: those it has not received, or all  *)
(* the channel holds once it has fallen behind.                            *)
Behind(r) == IF unread[r] <= Capacity THEN unread[r] ELSE Capacity

(* A running remote accounts for every message: it wrote it, may still     *)
(* receive it, its network does not reach the address, or it was Capacity  *)
(* messages late and the channel had dropped it.  Neither lagging, nor     *)
(* waiting for raw_udp, nor an unreachable network makes the select! loop  *)
(* lose anything else, and what was dropped is not written later.          *)
OnlyLaggardsMiss ==
  \A r \in Remote :
    /\ r \in alive => \A i \in 1..(Len(outgoing) - Behind(r)) :
                        i \in wrote[r] \cup overrun[r] \/ outgoing[i] \in NoRoute[r]
    /\ \A i \in overrun[r] : i \notin wrote[r] /\ i + Capacity <= Len(outgoing)

(* The channel holds the newest messages; a remote falls behind them only  *)
(* when the channel is full, so that it resumes with a message that is     *)
(* there, and it has written nothing it has not received.                  *)
ChannelHoldsNewest ==
  /\ Newest(slots, outgoing)
  /\ \A r \in Remote :
       /\ position[r] + unread[r] <= Len(outgoing)
       /\ unread[r] <= Capacity => unread[r] <= Len(slots)
       /\ unread[r] > Capacity => Len(slots) = Capacity
       /\ \A i \in wrote[r] : i <= position[r]

(* The strengthening that makes OnlyLaggardsMiss inductive. *)
FanoutInv ==
  /\ TypeOK
  /\ outgoing \in Seq(Addr)
  /\ written \in [Remote -> Seq(Addr)]
  /\ position \in [Remote -> Nat]
  /\ wrote \in [Remote -> SUBSET Nat]
  /\ overrun \in [Remote -> SUBSET Nat]
  /\ ChannelHoldsNewest
  /\ OnlyLaggardsMiss

(* What the ConnectionManager sends is written by every remote that lives  *)
(* and has a route, also when the task of another remote has ended, which  *)
(* nobody notices: only Capacity newer messages take it from a remote.     *)
SentIsWritten ==
  \A r \in Remote : \A i \in 1..MaxSent :
    Len(outgoing) = i ~>
      \/ position[r] = i
      \/ r \notin alive
      \/ Len(outgoing) >= i + Capacity
      \/ Len(outgoing) >= i /\ outgoing[i] \in NoRoute[r]
=============================================================================
