----------------------------- MODULE LocalProofs -----------------------------
(***************************************************************************)
(* Proofs about Local for any number of frames and packets: the task never *)
(* sleeps through a wake-up, and frames are forwarded one by one.          *)
(***************************************************************************)
EXTENDS Local, SequenceTheorems, TLAPS

(* WakeInv holds when the task is started. *)
LEMMA WakeInit == Init => WakeInv
<1>1. /\ << >> \in Seq(Nat) /\ << >> \in Seq(Seq(Nat)) /\ 0 \in Nat
      /\ Select \subseteq Select /\ {} \subseteq {"read", "recv", "write"}
  OBVIOUS
<1>. QED  BY <1>1 DEF Init, WakeInv, TypeOK, Select

(* What Head and Tail of a sequence that is not empty are. *)
LEMMA HeadTail ==
  ASSUME NEW S, NEW s \in Seq(S), s # << >>
  PROVE  Head(s) \in S /\ Tail(s) \in Seq(S)
BY HeadTailProperties

(* What appending to a sequence does. *)
LEMMA AppendType ==
  ASSUME NEW S, NEW s \in Seq(S), NEW e \in S
  PROVE  Append(s, e) \in Seq(S)
BY AppendProperties

(* The empty sequence is a sequence over every set. *)
LEMMA EmptyType == \A S : << >> \in Seq(S)
OBVIOUS

(* Numbering goes on with a natural number. *)
LEMMA Successor == \A k \in Nat : k + 1 \in Nat
OBVIOUS

(* The types are preserved by every step. *)
LEMMA TypeNext == TypeOK /\ [Next]_vars => TypeOK'
<1>. SUFFICES ASSUME TypeOK, [Next]_vars PROVE TypeOK'
  OBVIOUS
<1>. USE DEF TypeOK, Suspended, Select
<1>1. CASE Capture
  <2>1. captured' \in Nat
    <3>1. captured' = captured + 1
      BY <1>1, Zenon DEF Capture
    <3>2. captured \in Nat
      BY Zenon
    <3>. QED  BY <3>1, <3>2, Successor, Zenon
  <2>2. ring' \in Seq(Nat)
    <3>1. ring \in Seq(Nat)
      OBVIOUS
    <3>2. ring' = Append(ring, captured')
      BY <1>1, Zenon DEF Capture
    <3>. QED  BY <2>1, <3>1, <3>2, AppendType, Zenon
  <2>. QED  BY <1>1, <2>1, <2>2 DEF Capture, io, task, channels
<1>2. CASE DriverRuns
  BY <1>2 DEF DriverRuns, channels
<1>3. CASE PacketForLocal
  <2>1. queued' \in Nat
    <3>1. queued' = queued + 1
      BY <1>3, Zenon DEF PacketForLocal
    <3>2. queued \in Nat
      BY Zenon
    <3>. QED  BY <3>1, <3>2, Successor, Zenon
  <2>2. to_local' \in Seq(Nat)
    <3>1. to_local \in Seq(Nat)
      OBVIOUS
    <3>2. to_local' = Append(to_local, queued')
      BY <1>3, Zenon DEF PacketForLocal
    <3>. QED  BY <2>1, <3>1, <3>2, AppendType, Zenon
  <2>. QED  BY <1>3, <2>1, <2>2 DEF PacketForLocal, kernel, io
<1>4. CASE Run
  BY <1>4 DEF Run, kernel, io, channels
<1>5. CASE poll_read
  BY <1>5 DEF poll_read, kernel, io, channels
<1>6. CASE next
  <2>1. CASE ring # << >>
    <3>1. Head(ring) \in Nat /\ Tail(ring) \in Seq(Nat)
      BY <2>1, HeadTail
    <3>2. tun_buf' \in Seq(Nat)
      <4>1. tun_buf' = Append(tun_buf, Head(ring))
        BY <1>6, <2>1 DEF next
      <4>. QED  BY <3>1, <4>1, AppendType
    <3>. QED  BY <1>6, <2>1, <3>1, <3>2 DEF next, io, channels
  <2>2. CASE ring = << >>
    BY <1>6, <2>2 DEF next, io, channels
  <2>. QED  BY <2>1, <2>2
<1>7. CASE WouldBlock
  BY <1>7 DEF WouldBlock, kernel, channels
<1>8. CASE Forward
  <2>1. << >> \in Seq(Nat)
    BY EmptyType
  <2>2. from_local' \in Seq(Seq(Nat))
    BY <1>8, AppendType DEF Forward
  <2>. QED  BY <1>8, <2>1, <2>2 DEF Forward, kernel, io
<1>9. CASE recv
  <2>1. CASE to_local # << >>
    <3>1. Head(to_local) \in Nat /\ Tail(to_local) \in Seq(Nat)
      BY <2>1, HeadTail
    <3>. QED  BY <1>9, <2>1, <3>1 DEF recv, kernel, io
  <2>2. CASE to_local = << >>
    BY <1>9, <2>2 DEF recv, kernel, io
  <2>. QED  BY <2>1, <2>2
<1>10. CASE Pending
  BY <1>10 DEF Pending, kernel, io, channels
<1>11. CASE poll_write
  <2>1. Append(written, packet) \in Seq(Nat)
    BY AppendType
  <2>2. written' = written \/ written' = Append(written, packet)
    BY <1>11 DEF poll_write
  <2>3. written' \in Seq(Nat)
    BY <2>1, <2>2
  <2>4. 0 \in Nat /\ pc' \in {"write pending", "select", "panicked"}
    BY <1>11 DEF poll_write
  <2>. QED  BY <1>11, <2>3, <2>4 DEF poll_write, kernel, io
<1>12. CASE UNCHANGED vars
  BY <1>12 DEF vars, kernel, io, task, channels
<1>. QED
  BY <1>1, <1>2, <1>3, <1>4, <1>5, <1>6, <1>7, <1>8, <1>9, <1>10, <1>11, <1>12
  DEF Next

(* Every step preserves the inductive invariant. *)
LEMMA WakeNext == WakeInv /\ [Next]_vars => WakeInv'
<1>. SUFFICES ASSUME WakeInv, [Next]_vars PROVE WakeInv'
  OBVIOUS
<1>1. TypeOK /\ TypeOK'
  BY TypeNext DEF WakeInv
<1>. USE <1>1 DEF WakeInv, Suspended, Select
<1>2. CASE Capture
  BY <1>2 DEF Capture, io, task, channels, TypeOK
<1>3. CASE DriverRuns
  BY <1>3 DEF DriverRuns, channels, TypeOK
<1>4. CASE PacketForLocal
  BY <1>4 DEF PacketForLocal, kernel, io, TypeOK
<1>5. CASE Run
  BY <1>5 DEF Run, kernel, io, channels, TypeOK
<1>6. CASE poll_read
  BY <1>6 DEF poll_read, kernel, io, channels, TypeOK
<1>7. CASE next
  BY <1>7 DEF next, io, channels, TypeOK
<1>8. CASE WouldBlock
  BY <1>8 DEF WouldBlock, kernel, channels, TypeOK
<1>9. CASE Forward
  BY <1>9 DEF Forward, kernel, io, TypeOK
<1>10. CASE recv
  BY <1>10 DEF recv, kernel, io, TypeOK
<1>11. CASE Pending
  BY <1>11 DEF Pending, kernel, io, channels, TypeOK
<1>12. CASE poll_write
  BY <1>12 DEF poll_write, kernel, io, TypeOK
<1>13. CASE UNCHANGED vars
  BY <1>13 DEF vars, kernel, io, task, channels
<1>. QED
  BY <1>2, <1>3, <1>4, <1>5, <1>6, <1>7, <1>8, <1>9, <1>10, <1>11, <1>12, <1>13
  DEF Next

(* The readiness protocol of the AsyncFd keeps its invariant. *)
THEOREM WakeCorrect == Spec => []WakeInv
BY WakeInit, WakeNext, PTL DEF Spec

(* The LocalManager never sleeps while a frame or a packet is there that   *)
(* nothing will wake it for.                                               *)
THEOREM SleepCorrect == Spec => []SleepsOnlyWhenIdle
<1>1. WakeInv => SleepsOnlyWhenIdle
  BY DEF WakeInv, SleepsOnlyWhenIdle
<1>. QED  BY <1>1, WakeCorrect, PTL

-----------------------------------------------------------------------------

(* Lengths and elements of the sequences that hold frames. *)
LEMMA FrameFacts ==
  ASSUME NEW S, NEW s \in Seq(S), NEW e \in S
  PROVE  /\ Len(s) \in Nat
         /\ Len(Append(s, e)) = Len(s) + 1
         /\ \A i \in 1..Len(s) : Append(s, e)[i] = s[i]
         /\ Append(s, e)[Len(s) + 1] = e
BY AppendProperties, LenProperties

(* What is left of a ring after its first frame has been read. *)
LEMMA TailFacts ==
  ASSUME NEW S, NEW s \in Seq(S), s # << >>
  PROVE  /\ Len(s) \in Nat \ {0} /\ Len(Tail(s)) = Len(s) - 1
         /\ Head(s) = s[1]
         /\ \A i \in 1..Len(Tail(s)) : Tail(s)[i] = s[i + 1]
BY HeadTailProperties, LenProperties

(* The numbering of the ring goes on after its first frame. *)
LEMMA RingShrinks ==
  ASSUME NEW n \in Nat, NEW len \in Nat \ {0}, NEW s, NEW t,
         \A i \in 1..len : s[i] = n + i,
         \A i \in 1..(len - 1) : t[i] = s[i + 1]
  PROVE  \A i \in 1..(len - 1) : t[i] = n + 1 + i
<1>. TAKE i \in 1..(len - 1)
<1>1. i + 1 \in 1..len
  OBVIOUS
<1>. QED  BY <1>1

(* FrameInv holds when the task is started. *)
LEMMA FrameInit == Init => FrameInv
<1>1. Init => TypeOK
  BY WakeInit DEF WakeInv
<1>2. Init => OneFramePerPacket
  BY DEF Init, OneFramePerPacket
<1>. QED  BY <1>1, <1>2 DEF Init, FrameInv

(* Every step keeps the frames apart and in order. *)
LEMMA FrameNext == FrameInv /\ [Next]_vars => FrameInv'
<1>. SUFFICES ASSUME FrameInv, [Next]_vars PROVE FrameInv'
  OBVIOUS
<1>1. TypeOK /\ TypeOK'
  BY TypeNext DEF FrameInv
<1>2. /\ ring \in Seq(Nat) /\ tun_buf \in Seq(Nat) /\ from_local \in Seq(Seq(Nat))
      /\ captured \in Nat
      /\ Len(ring) \in Nat /\ Len(tun_buf) \in Nat /\ Len(from_local) \in Nat
  BY <1>1, LenProperties DEF TypeOK
<1>3. CASE Capture
  <2>1. /\ captured' = captured + 1 /\ ring' = Append(ring, captured')
        /\ UNCHANGED <<from_local, tun_buf, pc>>
    BY <1>3, Zenon DEF Capture, task, channels
  <2>2. captured' \in Nat
    BY <1>1, Zenon DEF TypeOK
  <2>3. /\ Len(ring') = Len(ring) + 1
        /\ \A i \in 1..Len(ring) : ring'[i] = ring[i]
        /\ ring'[Len(ring) + 1] = captured'
    <3>1. PICK e \in Nat : e = captured'
      BY <2>2
    <3>2. ring' = Append(ring, e)
      BY <2>1, <3>1
    <3>3. /\ Len(Append(ring, e)) = Len(ring) + 1
          /\ \A i \in 1..Len(ring) : Append(ring, e)[i] = ring[i]
          /\ Append(ring, e)[Len(ring) + 1] = e
      BY <1>2, FrameFacts
    <3>. QED  BY <3>1, <3>2, <3>3
  <2>4. /\ \A i \in 1..Len(from_local) : from_local[i] = <<i>>
        /\ tun_buf = << >> \/ tun_buf = <<Len(from_local) + 1>>
        /\ \A i \in 1..Len(ring) : ring[i] = Len(from_local) + Len(tun_buf) + i
        /\ Len(from_local) + Len(tun_buf) + Len(ring) = captured
    BY Zenon DEF FrameInv, OneFramePerPacket
  <2>5. PICK n \in Nat : n = Len(from_local) + Len(tun_buf)
    BY <1>2
  <2>6. captured' = n + Len(ring) + 1 /\ n + Len(ring') = captured'
    BY <1>2, <2>1, <2>3, <2>4, <2>5
  <2>7. \A i \in 1..(Len(ring) + 1) : ring'[i] = n + i
    <3>1. \A i \in 1..Len(ring) : ring[i] = n + i
      BY <2>4, <2>5, Zenon
    <3>2. ring'[Len(ring) + 1] = n + Len(ring) + 1
      BY <2>3, <2>6, Zenon
    <3>. SUFFICES ASSUME NEW i \in 1..(Len(ring) + 1)  PROVE ring'[i] = n + i
      OBVIOUS
    <3>3. i \in 1..Len(ring) \/ i = Len(ring) + 1
      BY <1>2
    <3>4. CASE i \in 1..Len(ring)
      BY <2>3, <3>1, <3>4, Zenon
    <3>5. CASE i = Len(ring) + 1
      BY <1>2, <3>2, <3>5
    <3>. QED  BY <3>3, <3>4, <3>5, Zenon
  <2>8. OneFramePerPacket'
    BY <2>1, <2>3, <2>4, <2>5, <2>6, <2>7, Zenon DEF OneFramePerPacket
  <2>. QED  BY <1>1, <2>1, <2>8 DEF FrameInv
<1>4. CASE next
  <2>1. CASE ring # << >>
    <3>1. /\ tun_buf' = Append(tun_buf, Head(ring)) /\ ring' = Tail(ring)
          /\ pc = "try_io" /\ pc' = "forward"
          /\ UNCHANGED <<captured, from_local>>
      BY <1>4, <2>1, Zenon DEF next, channels
    <3>2. tun_buf = << >>
      BY <3>1 DEF FrameInv
    <3>3. Head(ring) = Len(from_local) + 1
      BY <1>2, <2>1, <3>2, TailFacts DEF FrameInv, OneFramePerPacket
    <3>4. tun_buf' = <<Len(from_local) + 1>> /\ Len(tun_buf') = 1 /\ Len(tun_buf) = 0
      BY <3>1, <3>2, <3>3
    <3>5. /\ Len(ring') = Len(ring) - 1 /\ Len(ring) \in Nat \ {0}
          /\ \A i \in 1..Len(ring') : ring'[i] = ring[i + 1]
      BY <1>2, <2>1, <3>1, TailFacts
    <3>6. PICK n \in Nat : n = Len(from_local)
      BY <1>2
    <3>7. /\ \A i \in 1..n : from_local[i] = <<i>>
          /\ \A i \in 1..Len(ring) : ring[i] = n + i
          /\ n + Len(ring) = captured
      BY <1>2, <3>4, <3>6 DEF FrameInv, OneFramePerPacket
    <3>8. n + 1 + Len(ring') = captured
      BY <3>5, <3>6, <3>7
    <3>9. \A i \in 1..Len(ring') : ring'[i] = n + 1 + i
      BY <3>5, <3>7, RingShrinks
    <3>10. OneFramePerPacket'
      BY <3>1, <3>4, <3>6, <3>7, <3>8, <3>9, Zenon DEF OneFramePerPacket
    <3>. QED  BY <1>1, <3>1, <3>4, <3>10 DEF FrameInv
  <2>2. CASE ring = << >>
    <3>1. pc = "try_io" /\ pc' = "would_block" /\ UNCHANGED <<captured, ring, from_local, tun_buf>>
      BY <1>4, <2>2, Zenon DEF next, channels
    <3>. QED  BY <1>1, <3>1 DEF FrameInv, OneFramePerPacket
  <2>. QED  BY <2>1, <2>2
<1>5. CASE Forward
  <2>1. /\ from_local' = Append(from_local, tun_buf) /\ tun_buf' = << >>
        /\ pc = "forward" /\ pc' = "select" /\ UNCHANGED <<captured, ring>>
    BY <1>5, Zenon DEF Forward, kernel
  <2>2. tun_buf = <<Len(from_local) + 1>> /\ Len(tun_buf) = 1 /\ Len(tun_buf') = 0
    BY <2>1 DEF FrameInv, OneFramePerPacket
  <2>3. /\ Len(from_local') = Len(from_local) + 1
        /\ \A i \in 1..Len(from_local) : from_local'[i] = from_local[i]
        /\ from_local'[Len(from_local) + 1] = tun_buf
    <3>1. /\ Len(Append(from_local, tun_buf)) = Len(from_local) + 1
          /\ \A i \in 1..Len(from_local) : Append(from_local, tun_buf)[i] = from_local[i]
          /\ Append(from_local, tun_buf)[Len(from_local) + 1] = tun_buf
      BY <1>2, FrameFacts
    <3>. QED  BY <2>1, <3>1
  <2>4. OneFramePerPacket'
    BY <1>2, <2>1, <2>2, <2>3 DEF FrameInv, OneFramePerPacket
  <2>. QED  BY <1>1, <2>1, <2>4 DEF FrameInv
<1>6. ASSUME UNCHANGED <<captured, ring, from_local, tun_buf>>,
             pc # "forward", pc' # "forward"
      PROVE  FrameInv'
  BY <1>1, <1>6 DEF FrameInv, OneFramePerPacket
<1>7. CASE DriverRuns
  BY <1>6, <1>7 DEF DriverRuns, channels, Suspended
<1>8. CASE PacketForLocal
  BY <1>6, <1>8 DEF PacketForLocal, kernel, Suspended
<1>9. CASE Run
  BY <1>6, <1>9 DEF Run, kernel, channels, Suspended
<1>10. CASE poll_read
  BY <1>6, <1>10 DEF poll_read, kernel, channels
<1>11. CASE WouldBlock
  BY <1>6, <1>11 DEF WouldBlock, kernel, channels
<1>12. CASE recv
  BY <1>6, <1>12 DEF recv, kernel
<1>13. CASE Pending
  BY <1>6, <1>13 DEF Pending, kernel, channels
<1>14. CASE poll_write
  BY <1>6, <1>14 DEF poll_write, kernel
<1>15. CASE UNCHANGED vars
  BY <1>1, <1>15 DEF FrameInv, OneFramePerPacket, vars, kernel, task, channels
<1>. QED
  BY <1>3, <1>4, <1>5, <1>7, <1>8, <1>9, <1>10, <1>11, <1>12, <1>13, <1>14, <1>15
  DEF Next

(* Every packet the ConnectionManager gets from the interface is one frame, *)
(* and no frame is lost, merged, repeated or reordered on the way.          *)
THEOREM FramesCorrect == Spec => []OneFramePerPacket
<1>1. FrameInv => OneFramePerPacket
  BY DEF FrameInv
<1>. QED  BY <1>1, FrameInit, FrameNext, PTL DEF Spec
=============================================================================
