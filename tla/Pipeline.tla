------------------------------- MODULE Pipeline -------------------------------
(***************************************************************************)
(* The tasks of one instance and the bounded channels between them         *)
(* (src/src/main.rs, remote_manager.rs, connection_manager.rs,             *)
(* local_manager.rs): who waits for whom, and what a task's death does to  *)
(* the others.  Packets are counted, not looked at.                        *)
(*                                                                         *)
(*   remote task  --raw_udp-->     ConnectionManager  --to_local-->   Local *)
(*   remote task  <--broadcast--   ConnectionManager  <--from_local-- Local *)
(*                                                                         *)
(* A task inside an mpsc send().await serves none of its other channels.   *)
(* A broadcast send never waits: a receiver that is more than Capacity     *)
(* messages behind loses the oldest.  A task that panics drops its ends of *)
(* the channels; its neighbours notice when they next use them, and unwrap.*)
(***************************************************************************)
EXTENDS Naturals

CONSTANTS
  Remote,        \* the remote tasks
  FirstRemote,   \* the first of RemoteManager::remote_tasks
  Capacity,      \* channel_capacity; 128 in the code
  MaxQueued,     \* bound: packets waiting in the sequencers
  Copies,        \* how many addresses one event can be sent to
  CanFail        \* the tasks that may meet an error they unwrap

Task == Remote \cup {"cm", "lm"}

ASSUME RemoteAssumption == FirstRemote \in Remote /\ Remote \cap {"cm", "lm"} = {}
ASSUME CapacityAssumption == Capacity \in Nat \ {0}
ASSUME BoundsAssumption == MaxQueued \in Nat /\ Copies \subseteq Nat
ASSUME CanFailAssumption == CanFail \subseteq Task

VARIABLES
  raw_udp,      \* number of datagrams in the raw_udp channel
  to_local,     \* number of packets in packets_to_local
  from_local,   \* number of packets in packets_from_local
  lag,          \* lag[r]: broadcasts r has not received, Capacity + 1 for more
  hold,         \* the remotes that are sending a datagram into raw_udp
  queued,       \* packets waiting in the sequencers for an earlier one
  cm,           \* packets the ConnectionManager's handler has yet to send
  lm_holds,     \* is the LocalManager sending a packet into from_local?
  alive,        \* the tasks that have not panicked
  exited        \* has main panicked?

vars == <<raw_udp, to_local, from_local, lag, hold, queued, cm, lm_holds,
          alive, exited>>

Init ==
  /\ raw_udp = 0
  /\ to_local = 0
  /\ from_local = 0
  /\ lag = [r \in Remote |-> 0]
  /\ hold = {}
  /\ queued = 0
  /\ cm = 0
  /\ lm_holds = FALSE
  /\ alive = Task
  /\ exited = FALSE

Runs(t) == t \in alive /\ ~exited

Panics(t) ==
  /\ alive' = alive \ {t}
  /\ UNCHANGED <<raw_udp, to_local, from_local, lag, hold, queued, cm, lm_holds,
                 exited>>

-----------------------------------------------------------------------------
(***************************************************************************)
(* A remote task.                                                          *)
(***************************************************************************)
RemoteReads(r) ==
  /\ Runs(r)
  /\ r \notin hold
  /\ hold' = hold \cup {r}
  /\ UNCHANGED <<raw_udp, to_local, from_local, lag, queued, cm, lm_holds, alive, exited>>

MutantUnbounded(r) ==               \* unbounded_channel() for channel(capacity)
  /\ Runs(r)
  /\ r \in hold
  /\ raw_udp' = raw_udp + 1
  /\ hold' = hold \ {r}
  /\ UNCHANGED <<to_local, from_local, lag, queued, cm, lm_holds, alive, exited>>

(* mpsc_channel.send(incoming).await.unwrap() *)
RemoteForwards(r) ==
  /\ Runs(r)
  /\ r \in hold
  /\ IF "cm" \in alive
     THEN /\ raw_udp < Capacity
          /\ raw_udp' = raw_udp + 1
          /\ hold' = hold \ {r}
          /\ UNCHANGED <<to_local, from_local, lag, queued, cm, lm_holds, alive, exited>>
     ELSE Panics(r)

(* One bc.recv(): the next message is written out, or the loss is logged. *)
RemoteWrites(r) ==
  /\ Runs(r)
  /\ r \notin hold
  /\ lag[r] > 0
  /\ lag' = [lag EXCEPT ![r] = @ - 1]
  /\ UNCHANGED <<raw_udp, to_local, from_local, hold, queued, cm, lm_holds, alive, exited>>

MutantIgnoresClosed(r) ==           \* closed is treated like lagged
  /\ Runs(r)
  /\ r \notin hold
  /\ lag[r] = 0
  /\ "cm" \notin alive
  /\ UNCHANGED vars

(* RecvError::Closed: the sender went with the ConnectionManager. *)
RemoteSeesClosed(r) ==
  /\ Runs(r)
  /\ r \notin hold
  /\ lag[r] = 0
  /\ "cm" \notin alive
  /\ Panics(r)

-----------------------------------------------------------------------------
(***************************************************************************)
(* The ConnectionManager task.                                             *)
(***************************************************************************)
CmIdle == Runs("cm") /\ cm = 0

(* The handler will send b packets; the others stay in the sequencers. *)
Release(packets, b) ==
  /\ cm' = b
  /\ queued' = packets - b
  /\ queued' <= MaxQueued

(* k sends on the broadcast channel, of which main keeps a receiver. *)
Outgoing(k) ==
  lag' = [r \in Remote |->
            IF lag[r] + k > Capacity THEN Capacity + 1 ELSE lag[r] + k]

(* A packet that its sequencer takes in. *)
CmTakesIn ==
  /\ CmIdle
  /\ raw_udp > 0
  /\ \E b \in 0..(queued + 1) : Release(queued + 1, b)
  /\ raw_udp' = raw_udp - 1
  /\ UNCHANGED <<to_local, from_local, lag, hold, lm_holds, alive, exited>>

(* A keepalive, answered with k instant keepalives if its route is new; a  *)
(* duplicate or garbage is answered with none.                             *)
CmAnswers(k) ==
  /\ CmIdle
  /\ raw_udp > 0
  /\ raw_udp' = raw_udp - 1
  /\ Outgoing(k)
  /\ UNCHANGED <<to_local, from_local, hold, queued, cm, lm_holds, alive, exited>>

CmReceives == CmTakesIn \/ \E k \in Copies \cup {0} : CmAnswers(k)

(* The sequencer tick. *)
CmTick ==
  /\ CmIdle
  /\ \E b \in 1..queued : Release(queued, b)
  /\ UNCHANGED <<raw_udp, to_local, from_local, lag, hold, lm_holds, alive, exited>>

CmTakesLocal(k) ==
  /\ CmIdle
  /\ from_local > 0
  /\ from_local' = from_local - 1
  /\ Outgoing(k)
  /\ UNCHANGED <<raw_udp, to_local, hold, queued, cm, lm_holds, alive, exited>>

CmKeepalive(k) ==
  /\ CmIdle
  /\ Outgoing(k)
  /\ UNCHANGED <<raw_udp, to_local, from_local, hold, queued, cm, lm_holds, alive, exited>>

MutantReleasesForever ==            \* the packet is cloned, not removed, from the queue
  /\ Runs("cm")
  /\ cm > 0
  /\ IF "lm" \in alive
     THEN /\ to_local < Capacity
          /\ to_local' = to_local + 1
          /\ UNCHANGED <<raw_udp, from_local, lag, hold, queued, cm, lm_holds, alive, exited>>
     ELSE Panics("cm")

(* packets_to_local.send(next_packet.bytes).await.unwrap() *)
CmReleases ==
  /\ Runs("cm")
  /\ cm > 0
  /\ IF "lm" \in alive
     THEN /\ to_local < Capacity
          /\ to_local' = to_local + 1
          /\ cm' = cm - 1
          /\ UNCHANGED <<raw_udp, from_local, lag, hold, queued, lm_holds, alive, exited>>
     ELSE Panics("cm")

(* recv() on a channel that is empty and has lost its senders. *)
CmSeesLocalClosed ==
  /\ CmIdle
  /\ from_local = 0
  /\ "lm" \notin alive
  /\ Panics("cm")

CmSeesRemotesClosed ==
  /\ CmIdle
  /\ raw_udp = 0
  /\ Remote \cap alive = {}
  /\ Panics("cm")

-----------------------------------------------------------------------------
(***************************************************************************)
(* The LocalManager task.                                                  *)
(***************************************************************************)
LmReads ==
  /\ Runs("lm")
  /\ ~lm_holds
  /\ lm_holds' = TRUE
  /\ UNCHANGED <<raw_udp, to_local, from_local, lag, hold, queued, cm, alive, exited>>

MutantDropsWhenFull ==              \* try_send, the error ignored
  /\ Runs("lm")
  /\ lm_holds
  /\ lm_holds' = FALSE
  /\ from_local' = IF from_local < Capacity THEN from_local + 1 ELSE from_local
  /\ UNCHANGED <<raw_udp, to_local, lag, hold, queued, cm, alive, exited>>

(* packets_from_local.send(tun_buf[..].to_vec()).await.unwrap() *)
LmForwards ==
  /\ Runs("lm")
  /\ lm_holds
  /\ IF "cm" \in alive
     THEN /\ from_local < Capacity
          /\ from_local' = from_local + 1
          /\ lm_holds' = FALSE
          /\ UNCHANGED <<raw_udp, to_local, lag, hold, queued, cm, alive, exited>>
     ELSE Panics("lm")

LmWrites ==
  /\ Runs("lm")
  /\ ~lm_holds
  /\ to_local > 0
  /\ to_local' = to_local - 1
  /\ UNCHANGED <<raw_udp, from_local, lag, hold, queued, cm, lm_holds, alive, exited>>

LmSeesClosed ==
  /\ Runs("lm")
  /\ ~lm_holds
  /\ to_local = 0
  /\ "cm" \notin alive
  /\ Panics("lm")

-----------------------------------------------------------------------------
(***************************************************************************)
(* An error that is unwrapped: a socket or a device that fails, bytes that *)
(* do not decompress, a clock that was set back.  It is met in select! or  *)
(* in a handler that is not waiting for a channel.                         *)
(***************************************************************************)
Fails(t) ==
  /\ Runs(t)
  /\ t \in CanFail
  /\ t = "cm" => cm = 0
  /\ t = "lm" => ~lm_holds
  /\ t \notin hold
  /\ Panics(t)

(* main awaits RemoteManager::run, which awaits the first remote task: the *)
(* only task whose end main sees, because no task ever ends well.          *)
MainSeesPanic ==
  /\ ~exited
  /\ FirstRemote \notin alive
  /\ exited' = TRUE
  /\ UNCHANGED <<raw_udp, to_local, from_local, lag, hold, queued, cm, lm_holds, alive>>

Next ==
  \/ \E r \in Remote :
       \/ RemoteReads(r)
       \/ RemoteForwards(r)
       \/ RemoteWrites(r)
       \/ RemoteSeesClosed(r)
  \/ CmReceives
  \/ CmTick
  \/ \E k \in Copies : CmTakesLocal(k)
  \/ \E k \in Copies : CmKeepalive(k)
  \/ CmReleases
  \/ CmSeesLocalClosed
  \/ CmSeesRemotesClosed
  \/ LmReads
  \/ LmForwards
  \/ LmWrites
  \/ LmSeesClosed
  \/ \E t \in Task : Fails(t)
  \/ MainSeesPanic

Spec == Init /\ [][Next]_vars

(***************************************************************************)
(* A task whose await can complete is run; mpsc hands out free places in   *)
(* the order in which they were asked for; select! picks among its ready   *)
(* branches at random, so a branch that is ready again and again is taken. *)
(* Datagrams, local packets, ticks and failures need never come.           *)
(***************************************************************************)
BroadcastBranch(r) == RemoteWrites(r) \/ RemoteSeesClosed(r)
RawUdpBranch == CmReceives \/ CmSeesRemotesClosed
FromLocalBranch == (\E k \in Copies : CmTakesLocal(k)) \/ CmSeesLocalClosed
ToLocalBranch == LmWrites \/ LmSeesClosed

Fairness ==
  /\ \A r \in Remote : SF_vars(RemoteForwards(r)) /\ SF_vars(BroadcastBranch(r))
  /\ SF_vars(RawUdpBranch)
  /\ SF_vars(FromLocalBranch)
  /\ WF_vars(CmReleases)
  /\ WF_vars(LmForwards)
  /\ SF_vars(ToLocalBranch)
  /\ WF_vars(MainSeesPanic)

FairSpec == Spec /\ Fairness

-----------------------------------------------------------------------------
(***************************************************************************)
(* Properties.                                                             *)
(***************************************************************************)
TypeOK ==
  /\ raw_udp \in 0..Capacity
  /\ to_local \in 0..Capacity
  /\ from_local \in 0..Capacity
  /\ lag \in [Remote -> 0..(Capacity + 1)]
  /\ hold \subseteq Remote
  /\ queued \in 0..MaxQueued
  /\ cm \in 0..(MaxQueued + 1)
  /\ lm_holds \in BOOLEAN
  /\ alive \subseteq Task
  /\ exited \in BOOLEAN

(* The two managers wait for each other: the ConnectionManager for a place *)
(* in packets_to_local, the LocalManager for one in packets_from_local.    *)
CircularWait ==
  /\ {"cm", "lm"} \subseteq alive
  /\ cm > 0
  /\ to_local = Capacity
  /\ lm_holds
  /\ from_local = Capacity

(* Nothing but the end of the process resolves the circular wait: neither  *)
(* the remotes nor any timer can make room in one of the two channels.     *)
CircularWaitIsPermanent == [][CircularWait => CircularWait']_vars

(* The circular wait is the only way for the managers to stop serving      *)
(* their channels while the process runs.                                  *)
StuckOnlyInCircularWait ==
  \/ <>[]CircularWait
  \/ []<>(exited \/ "lm" \notin alive \/ ~lm_holds) /\
     []<>(exited \/ "cm" \notin alive \/ cm = 0)

(* When one of the two managers dies, the panic reaches main through the   *)
(* closed channels and the process ends; it does not linger half dead.     *)
FatalErrorEndsProcess == ~ ({"cm", "lm"} \subseteq alive) ~> exited

(* "Got new packet from local. This must be sent into the mpsc" *)
LocalPacketsEnterMpsc == lm_holds ~> ~lm_holds
=============================================================================
