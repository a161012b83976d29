-------------------------------- MODULE Local --------------------------------
(***************************************************************************)
(* The LocalManager task and its interface (src/src/local_manager.rs,      *)
(* local.rs and async_pcap.rs): how the task goes to sleep and is woken    *)
(* when frames arrive on the interface or packets on its channel.          *)
(*                                                                         *)
(* The kernel queues captured frames and reports an edge; the runtime's    *)
(* I/O driver turns edges into the readiness bit of the AsyncFd and wakes  *)
(* the task, if its waker is registered.  The bit stays set until try_io   *)
(* sees WouldBlock.  The runtime has one thread: the driver and the other  *)
(* tasks run while this task is suspended, the kernel runs at any time.    *)
(*                                                                         *)
(* Waiting for room in packets_from_local is the subject of Pipeline; here *)
(* the ConnectionManager always receives.  The TUN device of Layer3 is     *)
(* read and written by the same loops, inside tokio_tun.                   *)
(***************************************************************************)
EXTENDS Naturals, Sequences

CONSTANTS
  MaxFrames,    \* bound: frames captured, numbered in order of arrival
  MaxPackets,   \* bound: packets for the interface, numbered likewise
  TooLong,      \* the packets that are larger than the interface's MTU
  SendFails     \* may sendpacket fail for another reason?

ASSUME BoundsAssumption == MaxFrames \in Nat /\ MaxPackets \in Nat
ASSUME SendAssumption == TooLong \subseteq 1..MaxPackets /\ SendFails \in BOOLEAN

VARIABLES
  \* kernel and driver
  captured,    \* number of frames captured so far
  ring,        \* frames that have not been read
  edge,        \* an event waits for the driver
  writable,    \* write readiness of the AsyncFd
  ready,       \* read readiness of the AsyncFd
  \* the task
  pc,          \* where the task is
  branches,    \* branches of select! that this poll has yet to look at
  waker,       \* what the task's waker is registered with
  woken,       \* the task is scheduled
  tun_buf,     \* frames whose bytes are in tun_buf
  packet,      \* new_packet_to_local
  \* channels
  queued,      \* number of packets sent to packets_to_local so far
  to_local,    \* packets_to_local
  from_local,  \* history: packets sent to packets_from_local, as frames
  written      \* history: packets sendpacket accepted

kernel == <<captured, ring, edge>>
io == <<writable, ready>>
task == <<pc, branches, waker, woken, tun_buf, packet>>
channels == <<queued, to_local, from_local, written>>
vars == <<kernel, io, task, channels>>

Select == {"read", "recv"}
Suspended == {"pending", "write pending"}

Init ==
  /\ captured = 0 /\ ring = << >> /\ edge = FALSE
  /\ writable = FALSE /\ ready = FALSE
  /\ pc = "select" /\ branches = Select
  /\ waker = {} /\ woken = FALSE
  /\ tun_buf = << >> /\ packet = 0
  /\ queued = 0 /\ to_local = << >>
  /\ from_local = << >> /\ written = << >>

-----------------------------------------------------------------------------
(***************************************************************************)
(* Around the task.                                                        *)
(***************************************************************************)
Capture ==
  /\ captured < MaxFrames
  /\ captured' = captured + 1
  /\ ring' = Append(ring, captured')
  /\ edge' = TRUE
  /\ UNCHANGED <<io, task, channels>>

(* An AsyncFd is writable from the first turn of the driver on. *)
DriverRuns ==
  /\ pc \in Suspended
  /\ edge \/ ~writable
  /\ edge' = FALSE
  /\ ready' = (ready \/ edge)
  /\ writable' = TRUE
  /\ woken' = (woken \/ (edge /\ "read" \in waker) \/ "write" \in waker)
  /\ waker' = waker \ (IF edge THEN {"read", "write"} ELSE {"write"})
  /\ UNCHANGED <<captured, ring, pc, branches, tun_buf, packet, channels>>

(* The ConnectionManager: packets_to_local.send(..). *)
PacketForLocal ==
  /\ pc \in Suspended
  /\ queued < MaxPackets
  /\ queued' = queued + 1
  /\ to_local' = Append(to_local, queued')
  /\ woken' = (woken \/ "recv" \in waker)
  /\ waker' = waker \ {"recv"}
  /\ UNCHANGED <<kernel, io, pc, branches, tun_buf, packet, from_local, written>>

(* The runtime polls a scheduled task. *)
Run ==
  /\ pc \in Suspended
  /\ woken
  /\ woken' = FALSE
  /\ pc' = IF pc = "pending" THEN "select" ELSE "write"
  /\ branches' = Select
  /\ UNCHANGED <<kernel, io, waker, tun_buf, packet, channels>>

-----------------------------------------------------------------------------
(***************************************************************************)
(* The task.                                                               *)
(***************************************************************************)

(* poll_read: ready!(self.inner.poll_read_ready(cx)). *)
poll_read ==
  /\ pc = "select"
  /\ "read" \in branches
  /\ IF ready
     THEN pc' = "try_io" /\ UNCHANGED <<branches, waker>>
     ELSE /\ branches' = branches \ {"read"}
          /\ waker' = waker \cup {"read"}
          /\ UNCHANGED pc
  /\ UNCHANGED <<kernel, io, woken, tun_buf, packet, channels>>

(* The closure of try_io: a frame, or Err(_), whatever the error. *)
next ==
  /\ pc = "try_io"
  /\ IF ring # << >>
     THEN /\ tun_buf' = Append(tun_buf, Head(ring))
          /\ ring' = Tail(ring)
          /\ pc' = "forward"
     ELSE /\ pc' = "would_block"
          /\ UNCHANGED <<tun_buf, ring>>
  /\ UNCHANGED <<captured, edge, io, branches, waker, woken, packet, channels>>

MutantReturnsPending ==            \* return Poll::Pending where the code continues
  /\ pc = "would_block"
  /\ ready' = FALSE
  /\ pc' = "select"
  /\ branches' = branches \ {"read"}
  /\ UNCHANGED <<kernel, writable, waker, woken, tun_buf, packet, channels>>

(* try_io clears the readiness; Err(_would_block) => continue. *)
WouldBlock ==
  /\ pc = "would_block"
  /\ ready' = FALSE
  /\ pc' = "select"
  /\ UNCHANGED <<kernel, writable, branches, waker, woken, tun_buf, packet, channels>>

MutantKeepsBuffer ==               \* tun_buf.clear() forgotten
  /\ pc = "forward"
  /\ from_local' = Append(from_local, tun_buf)
  /\ pc' = "select"
  /\ branches' = Select
  /\ UNCHANGED <<kernel, io, waker, woken, tun_buf, packet, queued, to_local, written>>

(* packets_from_local.send(tun_buf[..].to_vec()).await; tun_buf.clear() *)
Forward ==
  /\ pc = "forward"
  /\ from_local' = Append(from_local, tun_buf)
  /\ tun_buf' = << >>
  /\ pc' = "select"
  /\ branches' = Select
  /\ UNCHANGED <<kernel, io, waker, woken, packet, queued, to_local, written>>

(* packets_to_local.recv() *)
recv ==
  /\ pc = "select"
  /\ "recv" \in branches
  /\ IF to_local # << >>
     THEN /\ packet' = Head(to_local)
          /\ to_local' = Tail(to_local)
          /\ pc' = "write"
          /\ UNCHANGED <<branches, waker>>
     ELSE /\ branches' = branches \ {"recv"}
          /\ waker' = waker \cup {"recv"}
          /\ UNCHANGED <<packet, to_local, pc>>
  /\ UNCHANGED <<kernel, io, woken, tun_buf, queued, from_local, written>>

Pending ==
  /\ pc = "select"
  /\ branches = {}
  /\ pc' = "pending"
  /\ UNCHANGED <<kernel, io, branches, waker, woken, tun_buf, packet, channels>>

MutantRetriesTooLong ==            \* "Message too long" taken for WouldBlock
  /\ pc = "write"
  /\ writable' = (packet \notin TooLong)
  /\ IF writable /\ packet \notin TooLong
     THEN /\ pc' = "select"
          /\ written' = Append(written, packet)
          /\ UNCHANGED waker
     ELSE /\ pc' = "write pending"
          /\ waker' = waker \cup {"write"}
          /\ UNCHANGED written
  /\ branches' = Select
  /\ UNCHANGED <<kernel, ready, woken, tun_buf, packet, queued, to_local, from_local>>

(* poll_write: a packet that is too long is skipped, any other failure of  *)
(* sendpacket panics; it is never taken for WouldBlock.                    *)
poll_write ==
  /\ pc = "write"
  /\ IF ~writable
     THEN /\ pc' = "write pending"
          /\ waker' = waker \cup {"write"}
          /\ UNCHANGED <<branches, packet, written>>
     ELSE /\ pc' \in {"select"} \cup (IF SendFails THEN {"panicked"} ELSE {})
          /\ written' = IF pc' = "select" /\ packet \notin TooLong
                        THEN Append(written, packet) ELSE written
          /\ packet' = 0
          /\ branches' = Select
          /\ UNCHANGED waker
  /\ UNCHANGED <<kernel, io, woken, tun_buf, queued, to_local, from_local>>

Next ==
  \/ Capture \/ DriverRuns \/ PacketForLocal \/ Run
  \/ poll_read \/ next \/ WouldBlock \/ Forward
  \/ recv \/ Pending \/ poll_write

Spec == Init /\ [][Next]_vars

(* The thread runs on, its driver looks for events, and select! starts     *)
(* with a branch chosen at random.                                         *)
Fairness ==
  /\ WF_vars(DriverRuns) /\ WF_vars(Run)
  /\ WF_vars(next) /\ WF_vars(WouldBlock) /\ WF_vars(Forward)
  /\ WF_vars(Pending) /\ WF_vars(poll_write)
  /\ SF_vars(poll_read) /\ SF_vars(recv)

FairSpec == Spec /\ Fairness

-----------------------------------------------------------------------------
(***************************************************************************)
(* Properties.                                                             *)
(***************************************************************************)
TypeOK ==
  /\ captured \in Nat /\ queued \in Nat /\ packet \in Nat
  /\ ring \in Seq(Nat) /\ tun_buf \in Seq(Nat)
  /\ to_local \in Seq(Nat) /\ written \in Seq(Nat)
  /\ from_local \in Seq(Seq(Nat))
  /\ edge \in BOOLEAN /\ ready \in BOOLEAN /\ writable \in BOOLEAN
  /\ woken \in BOOLEAN
  /\ pc \in Suspended \cup {"select", "try_io", "would_block", "forward",
                            "write", "panicked"}
  /\ branches \subseteq Select
  /\ waker \subseteq {"read", "recv", "write"}

(* No frame and no packet is forgotten while the task sleeps: whatever is  *)
(* there to be read is announced by an event the driver has yet to see, or *)
(* the task is scheduled.  A frame that arrives between the last next()    *)
(* and the clearing of the readiness is the case to worry about.           *)
SleepsOnlyWhenIdle ==
  pc = "pending" =>
    /\ ring # << >> => woken \/ edge
    /\ to_local # << >> => woken

(* The strengthening that makes SleepsOnlyWhenIdle inductive: without the  *)
(* readiness bit unread frames have an event to come, and a branch of      *)
(* select! that this poll has left behind has registered the waker.        *)
WakeInv ==
  /\ TypeOK
  /\ ~ready \/ pc = "would_block" => (ring # << >> => edge)
  /\ pc \in {"try_io", "would_block"} => "read" \in branches
  /\ pc = "select" /\ "read" \notin branches => ~ready /\ "read" \in waker
  /\ pc \in {"select", "try_io", "would_block"} /\ "recv" \notin branches =>
       to_local = << >> /\ "recv" \in waker
  /\ pc = "pending" /\ ~woken =>
       ~ready /\ to_local = << >> /\ {"read", "recv"} \subseteq waker

(* Each packet the ConnectionManager gets from the interface is one frame, *)
(* and the packets are all frames captured so far in order, but for those  *)
(* in the ring and the one in tun_buf.                                     *)
OneFramePerPacket ==
  /\ \A i \in 1..Len(from_local) : from_local[i] = <<i>>
  /\ tun_buf = << >> \/ tun_buf = <<Len(from_local) + 1>>
  /\ \A i \in 1..Len(ring) : ring[i] = Len(from_local) + Len(tun_buf) + i
  /\ Len(from_local) + Len(tun_buf) + Len(ring) = captured

(* Inductive together with: tun_buf is empty whenever next() is called. *)
FrameInv ==
  /\ TypeOK
  /\ OneFramePerPacket
  /\ pc = "forward" <=> tun_buf # << >>

(* Every captured frame reaches the ConnectionManager. *)
FramesAreForwarded ==
  \A k \in 1..MaxFrames :
    captured >= k ~> Len(from_local) >= k \/ pc = "panicked"

(* "We have received and parsed a new packet from the Remote and must send *)
(* it out on the Local interface": every packet is written, in order,      *)
(* unless the interface cannot carry it.                                   *)
PacketsAreWritten ==
  \A k \in (1..MaxPackets) \ TooLong :
    queued >= k ~> \/ \E i \in DOMAIN written :
                        /\ written[i] = k
                        /\ \A j \in (i + 1)..Len(written) : written[j] > k
                   \/ pc = "panicked"
=============================================================================
