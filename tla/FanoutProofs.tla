---------------------------- MODULE FanoutProofs ----------------------------
(***************************************************************************)
(* Proofs about Fanout and FanoutHistory for any number of remotes and     *)
(* addresses, every capacity, every order of the peer list and every kind  *)
(* of datagram.                                                            *)
(***************************************************************************)
EXTENDS FanoutHistory, SequenceTheorems, TLAPS

(* What Push keeps of the channel: the newest Capacity messages. *)
LEMMA PushFacts ==
  ASSUME NEW s \in Seq(Addr), Len(s) <= Capacity, NEW a \in Addr
  PROVE  /\ Push(s, a) \in Seq(Addr)
         /\ Len(s) < Capacity => Len(Push(s, a)) = Len(s) + 1
         /\ Len(s) = Capacity => Len(Push(s, a)) = Capacity
         /\ Len(Push(s, a)) \in 1..Capacity
         /\ Push(s, a)[Len(Push(s, a))] = a
         /\ \A i \in 1..(Len(Push(s, a)) - 1) :
              Push(s, a)[i] = s[Len(s) - (Len(Push(s, a)) - 1) + i]
<1>1. Len(s) \in Nat /\ Capacity \in Nat \ {0}
  BY LenProperties, CapacityAssumption
<1>2. CASE Len(s) < Capacity
  <2>1. Push(s, a) = Append(s, a)
    BY <1>2 DEF Push
  <2>. QED  BY <1>1, <1>2, <2>1, AppendProperties
<1>3. CASE Len(s) = Capacity
  <2>1. s # << >>
    BY <1>1, <1>3
  <2>2. PICK t \in Seq(Addr) : t = Tail(s)
    BY <2>1, HeadTailProperties
  <2>3. Len(t) = Capacity - 1 /\ \A i \in 1..Len(t) : t[i] = s[i + 1]
    BY <1>3, <2>1, <2>2, HeadTailProperties
  <2>4. Push(s, a) = Append(t, a)
    BY <1>1, <1>3, <2>2 DEF Push
  <2>. QED  BY <1>1, <1>3, <2>3, <2>4, AppendProperties
<1>. QED  BY <1>1, <1>2, <1>3

(* The channels are empty and every task runs. *)
LEMMA TypeInit == Init => TypeOK
BY CapacityAssumption, EmptySeq DEF Init, TypeOK

(* No step overfills a channel or confuses what the channels carry. *)
LEMMA TypeNext == TypeOK /\ [Next]_vars => TypeOK'
<1>. SUFFICES ASSUME TypeOK, [Next]_vars PROVE TypeOK'
  OBVIOUS
<1>. USE CapacityAssumption DEF TypeOK
<1>1. CASE Broadcast
  <2>. burst # << >>
    BY <1>1 DEF Broadcast
  <2>1. Head(burst) \in Addr /\ Tail(burst) \in Seq(Addr)
    BY HeadTailProperties
  <2>2. slots' \in Seq(Addr) /\ Len(slots') <= Capacity
    <3>1. PICK a \in Addr : a = Head(burst)
      BY <2>1
    <3>2. slots' = Push(slots, a)
      BY <1>1, <3>1 DEF Broadcast
    <3>3. Push(slots, a) \in Seq(Addr) /\ Len(Push(slots, a)) \in 1..Capacity
      BY PushFacts
    <3>. QED  BY <3>2, <3>3
  <2>3. unread' \in [Remote -> 0..(Capacity + 1)]
    BY <1>1 DEF Broadcast
  <2>. QED  BY <1>1, <2>1, <2>2, <2>3 DEF Broadcast
<1>2. ASSUME NEW t, Panics(t) PROVE TypeOK'
  BY <1>2 DEF Panics
<1>3. ASSUME NEW r \in Remote, Receives(r) PROVE TypeOK'
  BY <1>3 DEF Receives
<1>4. CASE handle_keepalive
  BY <1>4, BurstsAssumption DEF handle_keepalive
<1>5. ASSUME NEW b \in Bursts, handle_packet_from_local(b) PROVE TypeOK'
  BY <1>5, BurstsAssumption DEF handle_packet_from_local
<1>6. CASE handle_udp_packet
  <2>1. raw_udp' \in Seq(Content) /\ Len(raw_udp') <= Capacity
    BY <1>6, HeadTailProperties, LenProperties DEF handle_udp_packet
  <2>2. burst' \in Seq(Addr)
    BY <1>6, BurstsAssumption, EmptySeq DEF handle_udp_packet
  <2>. QED  BY <1>6, <2>1, <2>2 DEF handle_udp_packet
<1>7. ASSUME NEW r \in Remote, NEW w \in Arriving[r], Reads(r, w)
      PROVE  TypeOK'
  <2>1. CASE Decodes(r, w)
    <3>1. w \in Wire
      BY NetworkAssumption
    <3>2. Decoded(r, w) \in Content
      BY <3>1 DEF Decoded, Wire, Content
    <3>3. PICK c \in Content : c = Decoded(r, w)
      BY <3>2
    <3>4. /\ hold' = [hold EXCEPT ![r] = <<c>>]
          /\ UNCHANGED <<burst, slots, unread, raw_udp, alive>>
      BY <1>7, <2>1, <3>3 DEF Reads
    <3>5. hold' \in [Remote -> {<<x>> : x \in Content} \cup {<< >>}]
      <4>1. <<c>> \in {<<x>> : x \in Content} \cup {<< >>}
        OBVIOUS
      <4>. QED  BY <3>4, <4>1
    <3>. QED  BY <3>4, <3>5, Zenon
  <2>2. CASE ~Decodes(r, w)
    BY <1>2, <1>7, <2>2 DEF Reads
  <2>. QED  BY <2>1, <2>2
<1>8. ASSUME NEW r \in Remote, Forwards(r) PROVE TypeOK'
  <2>1. PICK c \in Content : hold[r] = <<c>>
    BY <1>8 DEF Forwards
  <2>2. raw_udp' = raw_udp \o <<c>>
    BY <1>8, <2>1 DEF Forwards
  <2>3. raw_udp' = Append(raw_udp, c)
    BY <2>2, AppendIsConcat
  <2>4. raw_udp' \in Seq(Content) /\ Len(raw_udp') <= Capacity
    BY <1>8, <2>3, AppendProperties, LenProperties DEF Forwards
  <2>. QED  BY <1>8, <2>4 DEF Forwards
<1>9. ASSUME NEW r \in Remote, Lagged(r) PROVE TypeOK'
  BY <1>9 DEF Lagged
<1>10. CASE UNCHANGED vars
  BY <1>10 DEF vars
<1>11. CASE Silent
  BY <1>2, <1>3, <1>4, <1>5, <1>6, <1>7, <1>8, <1>9, <1>11
  DEF Silent, Unreachable, SocketFails
<1>. QED  BY <1>1, <1>3, <1>10, <1>11 DEF Next, WritesTo

(* No channel of the fan-out ever holds more than its capacity, and a      *)
(* remote holds at most one datagram.                                      *)
THEOREM FanoutTypes == Spec => []TypeOK
BY TypeInit, TypeNext, PTL DEF Spec

-----------------------------------------------------------------------------
(***************************************************************************)
(* The record.  OnlyLaggardsMiss alone is not inductive: a remote that     *)
(* finds its next address unreachable accounts for the message only if the *)
(* channel gives it the message of its place in outgoing, and one that has *)
(* fallen behind would resume with a message the channel may not hold.     *)
(***************************************************************************)

(* The record only adds to the steps of Fanout. *)
LEMMA HistoryIsFanout == HistorySpec => Spec
<1>1. HistoryInit => Init
  BY DEF HistoryInit
<1>2. [HistoryNext]_<<vars, history>> => [Next]_vars
  BY DEF HistoryNext, RecordedBroadcast, RecordedWrite, Unrecorded, Next
<1>. QED  BY <1>1, <1>2, PTL DEF HistorySpec, Spec

(* A channel that holds the newest messages still does when one is sent. *)
LEMMA WindowMoves ==
  ASSUME NEW s \in Seq(Addr), Len(s) <= Capacity, NEW a \in Addr,
         NEW out \in Seq(Addr), Newest(s, out)
  PROVE  Newest(Push(s, a), Append(out, a))
<1>. PICK t \in Seq(Addr) : t = Push(s, a)
  BY PushFacts
<1>. PICK o \in Seq(Addr) : o = Append(out, a)
  BY AppendProperties
<1>. SUFFICES Newest(t, o)
  OBVIOUS
<1>1. Len(s) \in Nat /\ Len(out) \in Nat /\ Capacity \in Nat \ {0}
      /\ Len(s) <= Len(out)
  BY LenProperties, CapacityAssumption DEF Newest
<1>2. /\ Len(t) \in 1..Capacity
      /\ Len(s) < Capacity => Len(t) = Len(s) + 1
      /\ Len(s) = Capacity => Len(t) = Capacity
  BY PushFacts
<1>3. t[Len(t)] = a
      /\ \A i \in 1..(Len(t) - 1) : t[i] = s[Len(s) - (Len(t) - 1) + i]
  BY PushFacts
<1>4. Len(o) = Len(out) + 1
  BY AppendProperties
<1>5. o[Len(out) + 1] = a /\ \A i \in 1..Len(out) : o[i] = out[i]
  BY AppendProperties
<1>6. Len(t) \in Nat /\ Len(t) <= Len(s) + 1 /\ Len(t) <= Len(o)
  BY <1>1, <1>2, <1>4
<1>7. ASSUME NEW i \in 1..Len(t)
      PROVE  t[i] = o[Len(o) - Len(t) + i]
  <2>1. CASE i = Len(t)
    <3>1. Len(o) - Len(t) + i = Len(out) + 1
      BY <1>1, <1>4, <1>6, <2>1
    <3>. QED  BY <1>3, <1>5, <2>1, <3>1, Zenon
  <2>2. CASE i \in 1..(Len(t) - 1)
    <3>. DEFINE j == Len(s) - (Len(t) - 1) + i
                k == Len(out) - Len(s) + j
    <3>1. j \in 1..Len(s) /\ k \in 1..Len(out) /\ k = Len(o) - Len(t) + i
      BY <1>1, <1>4, <1>6, <2>2
    <3>2. s[j] = out[k]
      BY <3>1, LenProperties DEF Newest
    <3>3. t[i] = s[j] /\ out[k] = o[k]
      BY <1>3, <1>5, <2>2, <3>1, Zenon
    <3>. QED  BY <3>1, <3>2, <3>3, Zenon
  <2>3. i = Len(t) \/ i \in 1..(Len(t) - 1)
    BY <1>6
  <2>. QED  BY <2>1, <2>2, <2>3, Zenon
<1>. QED  BY <1>6, <1>7, LenProperties DEF Newest

(* A message that is sent leaves every remote as far behind as before, or  *)
(* one message farther.                                                    *)
LEMMA BroadcastKeeps == FanoutInv /\ RecordedBroadcast /\ TypeOK' => FanoutInv'
<1>. SUFFICES ASSUME FanoutInv, RecordedBroadcast, TypeOK' PROVE FanoutInv'
  OBVIOUS
<1>1. Head(burst) \in Addr
  <2>. burst \in Seq(Addr) /\ burst # << >>
    BY DEF FanoutInv, TypeOK, RecordedBroadcast, Broadcast
  <2>. QED  BY HeadTailProperties
<1>2. PICK a \in Addr : a = Head(burst)
  BY <1>1
<1>3. slots' = Push(slots, a) /\ outgoing' = Append(outgoing, a)
      /\ UNCHANGED <<written, position, wrote, alive>>
      /\ overrun' = [r \in Remote |-> overrun[r] \cup Overwritten(r)]
  BY <1>2 DEF RecordedBroadcast, Broadcast
<1>4. /\ slots \in Seq(Addr) /\ Len(slots) <= Capacity /\ Len(slots) \in Nat
      /\ outgoing \in Seq(Addr) /\ Len(outgoing) \in Nat
  BY LenProperties DEF FanoutInv, TypeOK
<1>5. outgoing' \in Seq(Addr) /\ Len(outgoing') = Len(outgoing) + 1
  BY <1>3, <1>4, AppendProperties
<1>6. Newest(slots', outgoing')
  <2>1. Newest(slots, outgoing)
    BY DEF FanoutInv, ChannelHoldsNewest
  <2>2. Newest(Push(slots, a), Append(outgoing, a))
    BY <1>4, <2>1, WindowMoves
  <2>. QED  BY <1>3, <2>2, Zenon
<1>7. ASSUME NEW r \in Remote
      PROVE  /\ position'[r] + unread'[r] <= Len(outgoing')
             /\ unread'[r] <= Capacity => unread'[r] <= Len(slots')
             /\ unread'[r] > Capacity => Len(slots') = Capacity
             /\ \A i \in wrote'[r] : i <= position'[r]
  <2>1. /\ unread[r] \in 0..(Capacity + 1) /\ position[r] \in Nat
        /\ position[r] + unread[r] <= Len(outgoing)
        /\ unread[r] <= Capacity => unread[r] <= Len(slots)
        /\ unread[r] > Capacity => Len(slots) = Capacity
    BY DEF FanoutInv, TypeOK, ChannelHoldsNewest
  <2>2. \/ unread'[r] = unread[r]
        \/ unread'[r] = unread[r] + 1 /\ unread[r] <= Capacity
    BY DEF RecordedBroadcast, Broadcast
  <2>3. position'[r] = position[r] /\ \A i \in wrote'[r] : i <= position'[r]
    BY <1>3 DEF FanoutInv, ChannelHoldsNewest
  <2>4. /\ Len(slots) \in Nat /\ Len(outgoing) \in Nat /\ Len(slots) <= Capacity
        /\ Len(outgoing') = Len(outgoing) + 1
        /\ \/ Len(slots) < Capacity /\ Len(slots') = Len(slots) + 1
           \/ Len(slots) = Capacity /\ Len(slots') = Capacity
    <3>1. /\ Len(slots) < Capacity => Len(slots') = Len(slots) + 1
          /\ Len(slots) = Capacity => Len(slots') = Capacity
      BY <1>3, <1>4, PushFacts, Zenon
    <3>2. /\ Len(slots) \in Nat /\ Len(outgoing) \in Nat /\ Len(slots) <= Capacity
          /\ Len(outgoing') = Len(outgoing) + 1
      BY <1>4, <1>5
    <3>. QED  BY <3>1, <3>2, CapacityAssumption
  <2>. QED  BY <2>1, <2>2, <2>3, <2>4, CapacityAssumption
<1>8. ChannelHoldsNewest'
  BY <1>6, <1>7 DEF ChannelHoldsNewest
<1>9. overrun' \in [Remote -> SUBSET Nat]
  <2>1. ASSUME NEW r \in Remote PROVE Overwritten(r) \subseteq Nat
    <3>1. unread[r] >= Capacity => Len(outgoing) >= Capacity
      BY <1>4, CapacityAssumption
      DEF FanoutInv, TypeOK, ChannelHoldsNewest, Newest
    <3>. QED  BY <1>4, <3>1, CapacityAssumption DEF Overwritten
  <2>. QED  BY <1>3, <2>1 DEF FanoutInv
<1>10. OnlyLaggardsMiss'
  <2>. SUFFICES ASSUME NEW r \in Remote
       PROVE  /\ r \in alive' => \A i \in 1..(Len(outgoing') - Behind(r)') :
                 i \in wrote'[r] \cup overrun'[r] \/ outgoing'[i] \in NoRoute[r]
              /\ \A i \in overrun'[r] :
                   i \notin wrote'[r] /\ i + Capacity <= Len(outgoing')
    BY DEF OnlyLaggardsMiss
  <2>1. /\ unread[r] \in 0..(Capacity + 1) /\ position[r] \in Nat
        /\ position[r] + unread[r] <= Len(outgoing)
        /\ wrote[r] \subseteq Nat /\ overrun[r] \subseteq Nat
        /\ \A i \in wrote[r] : i <= position[r]
    BY DEF FanoutInv, TypeOK, ChannelHoldsNewest
  <2>2. /\ wrote'[r] = wrote[r] /\ overrun'[r] = overrun[r] \cup Overwritten(r)
        /\ alive' = alive
    BY <1>3
  <2>3. /\ r \in alive => \A i \in 1..(Len(outgoing) - Behind(r)) :
             i \in wrote[r] \cup overrun[r] \/ outgoing[i] \in NoRoute[r]
        /\ \A i \in overrun[r] : i \notin wrote[r] /\ i + Capacity <= Len(outgoing)
    BY DEF FanoutInv, OnlyLaggardsMiss
  <2>4. ASSUME r \in alive, NEW i \in 1..(Len(outgoing') - Behind(r)')
        PROVE  i \in wrote'[r] \cup overrun'[r] \/ outgoing'[i] \in NoRoute[r]
    <3>1. unread'[r] = IF unread[r] <= Capacity THEN unread[r] + 1 ELSE unread[r]
      BY <2>4 DEF RecordedBroadcast, Broadcast
    <3>2. CASE unread[r] < Capacity
      <4>1. i \in 1..(Len(outgoing) - Behind(r)) /\ i \in 1..Len(outgoing)
        <5>1. /\ Behind(r) \in Nat /\ Len(outgoing') = Len(outgoing) + 1
              /\ Behind(r)' = Behind(r) + 1
          BY <1>5, <2>1, <3>1, <3>2, CapacityAssumption DEF Behind
        <5>. QED  BY <1>4, <2>4, <5>1
      <4>2. outgoing'[i] = outgoing[i]
        BY <1>3, <1>4, <4>1, AppendProperties
      <4>. QED  BY <2>2, <2>3, <2>4, <4>1, <4>2, Zenon
    <3>3. CASE unread[r] >= Capacity
      <4>1. \/ i \in 1..(Len(outgoing) - Behind(r)) /\ i \in 1..Len(outgoing)
            \/ i = Len(outgoing) + 1 - Capacity
        <5>1. Behind(r) = Capacity /\ Behind(r)' = Capacity /\ Capacity \in Nat \ {0}
          BY <2>1, <3>1, <3>3, CapacityAssumption DEF Behind
        <5>. QED  BY <1>4, <1>5, <2>4, <5>1
      <4>2. CASE i \in 1..(Len(outgoing) - Behind(r)) /\ i \in 1..Len(outgoing)
        <5>1. outgoing'[i] = outgoing[i]
          BY <1>3, <1>4, <4>2, AppendProperties
        <5>. QED  BY <2>2, <2>3, <2>4, <4>2, <5>1, Zenon
      <4>3. CASE i = Len(outgoing) + 1 - Capacity
        <5>1. Overwritten(r) = {Len(outgoing) + 1 - Capacity}
          BY <2>4, <3>3, CapacityAssumption DEF Overwritten
        <5>. QED  BY <2>2, <4>3, <5>1, Zenon
      <4>. QED  BY <4>1, <4>2, <4>3, Zenon
    <3>. QED  BY <2>1, <3>2, <3>3, CapacityAssumption
  <2>5. ASSUME NEW i \in overrun'[r]
        PROVE  i \notin wrote'[r] /\ i + Capacity <= Len(outgoing')
    <3>1. CASE i \in overrun[r]
      BY <1>4, <1>5, <2>1, <2>2, <2>3, <3>1, CapacityAssumption
    <3>2. CASE i \in Overwritten(r)
      <4>1. i = Len(outgoing) + 1 - Capacity /\ unread[r] >= Capacity
        BY <3>2 DEF Overwritten
      <4>2. i > position[r] /\ i + Capacity <= Len(outgoing')
        BY <1>4, <1>5, <2>1, <4>1, CapacityAssumption
      <4>. QED  BY <2>1, <2>2, <4>1, <4>2, <1>4, CapacityAssumption
    <3>. QED  BY <2>2, <2>5, <3>1, <3>2, Zenon
  <2>. QED  BY <2>2, <2>4, <2>5, Zenon
<1>. QED  BY <1>3, <1>5, <1>8, <1>9, <1>10 DEF FanoutInv

(* What a remote finds at its place in the channel is the message of that  *)
(* place in everything that was sent.                                      *)
LEMMA OldestUnread ==
  ASSUME FanoutInv, NEW r \in Remote, unread[r] \in 1..Capacity
  PROVE  /\ NextIndex(r) \in (position[r] + 1)..Len(outgoing)
         /\ Oldest(r) = outgoing[NextIndex(r)]
<1>1. /\ Len(slots) \in Nat /\ Len(outgoing) \in Nat
      /\ DOMAIN slots = 1..Len(slots)
  BY LenProperties DEF FanoutInv, TypeOK
<1>2. /\ position[r] \in Nat /\ position[r] + unread[r] <= Len(outgoing)
      /\ unread[r] <= Len(slots) /\ Capacity \in Nat
  BY CapacityAssumption DEF FanoutInv, ChannelHoldsNewest
<1>. DEFINE i == Len(slots) - unread[r] + 1
<1>3. i \in 1..Len(slots) /\ Len(outgoing) - Len(slots) + i = NextIndex(r)
  BY <1>1, <1>2 DEF NextIndex
<1>4. slots[i] = outgoing[Len(outgoing) - Len(slots) + i]
  BY <1>1, <1>3 DEF FanoutInv, ChannelHoldsNewest, Newest
<1>5. Oldest(r) = outgoing[NextIndex(r)]
  BY <1>3, <1>4, Zenon DEF Oldest
<1>. QED  BY <1>1, <1>2, <1>5 DEF NextIndex

(* What a remote is told of next leaves the messages it may still receive. *)
LEMMA ReceiveAccounts ==
  ASSUME FanoutInv, NEW r \in Remote, unread[r] \in 1..Capacity,
         unread' = [unread EXCEPT ![r] = @ - 1], UNCHANGED outgoing
  PROVE  \A i \in 1..(Len(outgoing) - Behind(r)') :
           i \in 1..(Len(outgoing) - Behind(r)) \/ i = NextIndex(r)
<1>1. /\ unread'[r] = unread[r] - 1 /\ unread[r] \in Nat /\ Len(outgoing) \in Nat
      /\ Capacity \in Nat
  BY LenProperties, CapacityAssumption DEF FanoutInv, TypeOK
<1>2. Behind(r) = unread[r] /\ Behind(r)' = unread[r] - 1
  BY <1>1, CapacityAssumption DEF Behind
<1>. QED  BY <1>1, <1>2 DEF NextIndex

(* A remote that writes accounts for the message it writes. *)
LEMMA WriteKeeps ==
  ASSUME NEW r \in Remote, NEW a \in Addr
  PROVE  FanoutInv /\ RecordedWrite(r, a) /\ TypeOK' => FanoutInv'
<1>. SUFFICES ASSUME FanoutInv, RecordedWrite(r, a), TypeOK' PROVE FanoutInv'
  OBVIOUS
<1>1. /\ written' = [written EXCEPT ![r] = Append(@, a)]
      /\ position' = [position EXCEPT ![r] = NextIndex(r)]
      /\ wrote' = [wrote EXCEPT ![r] = @ \cup {NextIndex(r)}]
      /\ unread' = [unread EXCEPT ![r] = @ - 1]
      /\ unread[r] \in 1..Capacity
      /\ UNCHANGED <<outgoing, slots, overrun, alive>>
  BY DEF RecordedWrite, WritesTo, Receives
<1>2. /\ Len(outgoing) \in Nat /\ Len(slots) \in Nat
      /\ Len(slots) <= Len(outgoing) /\ Len(slots) <= Capacity
      /\ Capacity \in Nat
  BY LenProperties, CapacityAssumption
  DEF FanoutInv, TypeOK, ChannelHoldsNewest, Newest
<1>3. /\ unread \in [Remote -> 0..(Capacity + 1)] /\ written \in [Remote -> Seq(Addr)]
      /\ position \in [Remote -> Nat] /\ wrote \in [Remote -> SUBSET Nat]
  BY DEF FanoutInv, TypeOK
<1>4. PICK n \in Nat :
        /\ n = NextIndex(r) /\ n + unread[r] = Len(outgoing) + 1
        /\ n > position[r] /\ n <= Len(outgoing)
  <2>1. NextIndex(r) \in (position[r] + 1)..Len(outgoing)
    BY <1>1, OldestUnread
  <2>2. position[r] \in Nat /\ unread[r] \in Nat /\ NextIndex(r) \in Nat
    BY <1>2, <1>3, <2>1
  <2>3. NextIndex(r) + unread[r] = Len(outgoing) + 1
    BY <1>2, <2>2 DEF NextIndex
  <2>. QED  BY <1>2, <2>1, <2>2, <2>3
<1>5. written' \in [Remote -> Seq(Addr)]
  <2>1. Append(written[r], a) \in Seq(Addr)
    BY <1>3, AppendProperties
  <2>. QED  BY <1>1, <1>3, <2>1
<1>6. position' \in [Remote -> Nat] /\ wrote' \in [Remote -> SUBSET Nat]
  BY <1>1, <1>3, <1>4
<1>7. ASSUME NEW q \in Remote
      PROVE  /\ position'[q] + unread'[q] <= Len(outgoing)
             /\ unread'[q] <= Capacity => unread'[q] <= Len(slots)
             /\ unread'[q] > Capacity => Len(slots) = Capacity
             /\ \A i \in wrote'[q] : i <= position'[q]
  <2>1. /\ unread[q] <= Capacity => unread[q] <= Len(slots)
        /\ unread[q] > Capacity => Len(slots) = Capacity
        /\ position[q] + unread[q] <= Len(outgoing)
        /\ \A i \in wrote[q] : i <= position[q]
    BY DEF FanoutInv, ChannelHoldsNewest
  <2>2. CASE q = r
    <3>1. /\ position'[q] = n /\ unread'[q] = unread[r] - 1
          /\ wrote'[q] = wrote[r] \cup {n}
      BY <1>1, <1>3, <1>4, <2>2
    <3>2. unread[r] \in 1..Capacity /\ unread[r] <= Len(slots)
      BY <1>1, <1>2, <2>1, <2>2
    <3>3. \A i \in wrote[r] : i \in Nat /\ i <= position[r]
      BY <1>3, <2>1, <2>2
    <3>4. position[r] \in Nat
      BY <1>3
    <3>5. \A i \in wrote'[q] : i <= position'[q]
      BY <1>4, <3>1, <3>3, <3>4
    <3>6. /\ position'[q] + unread'[q] <= Len(outgoing)
          /\ unread'[q] <= Len(slots) /\ unread'[q] <= Capacity
      BY <1>2, <1>4, <3>1, <3>2
    <3>. QED  BY <1>2, <3>1, <3>2, <3>5, <3>6
  <2>3. CASE q # r
    <3>1. position'[q] = position[q] /\ unread'[q] = unread[q] /\ wrote'[q] = wrote[q]
      BY <1>1, <1>3, <2>3
    <3>. QED  BY <2>1, <3>1, Zenon
  <2>. QED  BY <2>2, <2>3
<1>8. ChannelHoldsNewest'
  BY <1>1, <1>7 DEF FanoutInv, ChannelHoldsNewest
<1>9. ASSUME NEW q \in Remote
      PROVE  /\ q \in alive => \A i \in 1..(Len(outgoing) - Behind(q)') :
                i \in wrote'[q] \cup overrun[q] \/ outgoing[i] \in NoRoute[q]
             /\ \A i \in overrun[q] : i \notin wrote'[q] /\ i + Capacity <= Len(outgoing)
  <2>1. /\ q \in alive => \A i \in 1..(Len(outgoing) - Behind(q)) :
             i \in wrote[q] \cup overrun[q] \/ outgoing[i] \in NoRoute[q]
        /\ \A i \in overrun[q] : i \notin wrote[q] /\ i + Capacity <= Len(outgoing)
    BY DEF FanoutInv, OnlyLaggardsMiss
  <2>2. CASE q = r
    <3>1. wrote'[q] = wrote[q] \cup {n}
      BY <1>1, <1>3, <1>4, <2>2
    <3>2. \A i \in 1..(Len(outgoing) - Behind(r)') :
            i \in 1..(Len(outgoing) - Behind(r)) \/ i = n
      BY <1>1, <1>4, ReceiveAccounts
    <3>3. \A i \in overrun[q] : i # n
      <4>1. overrun[q] \subseteq Nat /\ unread[q] \in 1..Capacity
        BY <1>1, <2>2 DEF FanoutInv
      <4>. QED  BY <1>2, <1>4, <2>1, <2>2, <4>1
    <3>. QED  BY <2>1, <2>2, <3>1, <3>2, <3>3
  <2>3. CASE q # r
    <3>1. wrote'[q] = wrote[q] /\ Behind(q)' = Behind(q)
      BY <1>1, <1>3, <2>3 DEF Behind
    <3>. QED  BY <2>1, <3>1, Zenon
  <2>. QED  BY <2>2, <2>3, Zenon
<1>10. OnlyLaggardsMiss'
  BY <1>1, <1>9 DEF OnlyLaggardsMiss
<1>. QED  BY <1>1, <1>5, <1>6, <1>8, <1>10 DEF FanoutInv

(* The other steps leave the channel and the record alone: a remote passes *)
(* over an address it does not reach, or is told that it lags.             *)
LEMMA SilentKeeps == FanoutInv /\ Unrecorded(Silent) /\ TypeOK' => FanoutInv'
<1>. SUFFICES ASSUME FanoutInv, Unrecorded(Silent), TypeOK' PROVE FanoutInv'
  OBVIOUS
<1>1. UNCHANGED <<outgoing, written, position, wrote, overrun>>
  BY DEF Unrecorded, history
<1>2. ASSUME UNCHANGED <<slots, unread>>, alive' \subseteq alive PROVE FanoutInv'
  <2>1. ChannelHoldsNewest'
    BY <1>1, <1>2 DEF FanoutInv, ChannelHoldsNewest
  <2>2. OnlyLaggardsMiss'
    BY <1>1, <1>2 DEF FanoutInv, OnlyLaggardsMiss, Behind
  <2>. QED  BY <1>1, <2>1, <2>2 DEF FanoutInv
<1>3. ASSUME NEW r \in Remote, Unreachable(r) PROVE FanoutInv'
  <2>1. /\ unread' = [unread EXCEPT ![r] = @ - 1] /\ unread[r] \in 1..Capacity
        /\ Oldest(r) \in NoRoute[r] /\ UNCHANGED <<slots, alive>>
    BY <1>3 DEF Unreachable, Receives
  <2>2. unread \in [Remote -> 0..(Capacity + 1)] /\ position \in [Remote -> Nat]
        /\ Len(outgoing) \in Nat /\ Len(slots) \in Nat /\ Capacity \in Nat
    BY LenProperties, CapacityAssumption DEF FanoutInv, TypeOK
  <2>3. ChannelHoldsNewest'
    <3>1. ASSUME NEW q \in Remote
          PROVE  /\ position[q] + unread'[q] <= Len(outgoing)
                 /\ unread'[q] <= Capacity => unread'[q] <= Len(slots)
                 /\ unread'[q] > Capacity => Len(slots) = Capacity
      BY <2>1, <2>2 DEF FanoutInv, ChannelHoldsNewest
    <3>. QED  BY <1>1, <2>1, <3>1 DEF FanoutInv, ChannelHoldsNewest
  <2>4. ASSUME NEW q \in Remote, q \in alive, NEW i \in 1..(Len(outgoing) - Behind(q)')
        PROVE  i \in wrote[q] \cup overrun[q] \/ outgoing[i] \in NoRoute[q]
    <3>1. i \in 1..(Len(outgoing) - Behind(q)) =>
            i \in wrote[q] \cup overrun[q] \/ outgoing[i] \in NoRoute[q]
      BY <2>4 DEF FanoutInv, OnlyLaggardsMiss
    <3>2. CASE q = r
      <4>1. i \in 1..(Len(outgoing) - Behind(r)) \/ i = NextIndex(r)
        BY <1>1, <2>1, <2>4, <3>2, ReceiveAccounts
      <4>2. outgoing[NextIndex(r)] \in NoRoute[r]
        BY <2>1, OldestUnread
      <4>. QED  BY <3>1, <3>2, <4>1, <4>2, Zenon
    <3>3. CASE q # r
      <4>1. Behind(q)' = Behind(q)
        BY <2>1, <2>2, <3>3 DEF Behind
      <4>. QED  BY <2>4, <3>1, <4>1, Zenon
    <3>. QED  BY <3>2, <3>3
  <2>5. OnlyLaggardsMiss'
    BY <1>1, <2>1, <2>4 DEF FanoutInv, OnlyLaggardsMiss
  <2>. QED  BY <1>1, <2>3, <2>5 DEF FanoutInv
<1>4. ASSUME NEW r \in Remote, Lagged(r) PROVE FanoutInv'
  <2>1. /\ unread' = [unread EXCEPT ![r] = Capacity] /\ unread[r] > Capacity
        /\ UNCHANGED <<slots, alive>>
    BY <1>4 DEF Lagged
  <2>2. unread \in [Remote -> 0..(Capacity + 1)] /\ position \in [Remote -> Nat]
        /\ Len(outgoing) \in Nat /\ Len(slots) \in Nat /\ Capacity \in Nat
    BY LenProperties, CapacityAssumption DEF FanoutInv, TypeOK
  <2>3. ChannelHoldsNewest'
    <3>1. ASSUME NEW q \in Remote
          PROVE  /\ position[q] + unread'[q] <= Len(outgoing)
                 /\ unread'[q] <= Capacity => unread'[q] <= Len(slots)
                 /\ unread'[q] > Capacity => Len(slots) = Capacity
      BY <2>1, <2>2 DEF FanoutInv, ChannelHoldsNewest
    <3>. QED  BY <1>1, <2>1, <3>1 DEF FanoutInv, ChannelHoldsNewest
  <2>4. \A q \in Remote : Behind(q)' = Behind(q)
    BY <2>1, <2>2 DEF Behind
  <2>5. OnlyLaggardsMiss'
    BY <1>1, <2>1, <2>4 DEF FanoutInv, OnlyLaggardsMiss
  <2>. QED  BY <1>1, <2>3, <2>5 DEF FanoutInv
<1>. QED
  BY <1>2, <1>3, <1>4
  DEF Unrecorded, Silent, handle_keepalive, handle_packet_from_local,
      handle_udp_packet, Reads, Panics, Forwards, SocketFails

(* Every step of the fan-out with its record keeps the invariant. *)
LEMMA FanoutNext == FanoutInv /\ [HistoryNext]_<<vars, history>> => FanoutInv'
<1>. SUFFICES ASSUME FanoutInv, [HistoryNext]_<<vars, history>> PROVE FanoutInv'
  OBVIOUS
<1>1. TypeOK'
  <2>1. [Next]_vars
    BY DEF HistoryNext, RecordedBroadcast, RecordedWrite, Unrecorded, Next
  <2>. QED  BY <2>1, TypeNext DEF FanoutInv
<1>2. CASE UNCHANGED <<vars, history>>
  BY <1>1, <1>2 DEF FanoutInv, ChannelHoldsNewest, OnlyLaggardsMiss, Behind, vars, history
<1>. QED  BY <1>1, <1>2, BroadcastKeeps, WriteKeeps, SilentKeeps DEF HistoryNext

(* The inductive invariant of the broadcast channel and its readers. *)
THEOREM FanoutCorrect == HistorySpec => []FanoutInv
<1>1. HistoryInit => FanoutInv
  <2>. SUFFICES ASSUME HistoryInit PROVE FanoutInv
    OBVIOUS
  <2>1. ChannelHoldsNewest
    BY EmptySeq, CapacityAssumption DEF HistoryInit, Init, ChannelHoldsNewest, Newest
  <2>2. OnlyLaggardsMiss
    <3>1. ASSUME NEW r \in Remote
          PROVE  Len(outgoing) = 0 /\ Behind(r) = 0 /\ overrun[r] = {}
      BY EmptySeq, CapacityAssumption DEF HistoryInit, Init, Behind
    <3>2. 1..(0 - 0) = {}
      OBVIOUS
    <3>. QED  BY <3>1, <3>2 DEF OnlyLaggardsMiss
  <2>. QED
    BY <2>1, <2>2, TypeInit, EmptySeq DEF HistoryInit, FanoutInv
<1>. QED  BY <1>1, FanoutNext, PTL DEF HistorySpec

(* A running remote writes every message it can reach, except those the    *)
(* channel dropped because the remote was Capacity messages late.          *)
THEOREM LaggardsCorrect == HistorySpec => []OnlyLaggardsMiss
<1>1. FanoutInv => OnlyLaggardsMiss
  BY DEF FanoutInv
<1>. QED  BY <1>1, FanoutCorrect, PTL

(* Each remote implements the abstract tunnel, from what is sent to all    *)
(* remotes to what this one writes: a message is a step Send, a write is a *)
(* step Deliver of the remote that writes, and lagging, waiting and dying  *)
(* are invisible.                                                          *)
THEOREM RemotesRefineTunnel == HistorySpec => EveryRemoteIsATunnel
<1>1. HistoryInit => \A r \in Remote : T(r)!Init
  BY DEF HistoryInit, T!Init
<1>2. ASSUME FanoutInv, [HistoryNext]_<<vars, history>>
      PROVE  \A r \in Remote : [T(r)!Next]_<<outgoing, written[r], position[r]>>
  <2>. SUFFICES ASSUME NEW r \in Remote
                PROVE  [T(r)!Next]_<<outgoing, written[r], position[r]>>
    OBVIOUS
  <2>1. CASE UNCHANGED history
    BY <2>1 DEF history
  <2>2. CASE RecordedBroadcast
    <3>1. Head(burst) \in Addr
      <4>. burst \in Seq(Addr) /\ burst # << >>
        BY <1>2, <2>2 DEF FanoutInv, TypeOK, RecordedBroadcast, Broadcast
      <4>. QED  BY HeadTailProperties
    <3>2. outgoing' = Append(outgoing, Head(burst)) /\ UNCHANGED <<written, position>>
      BY <2>2 DEF RecordedBroadcast
    <3>3. T(r)!Send
      BY <3>1, <3>2 DEF T!Send
    <3>. QED  BY <3>3 DEF T!Next
  <2>3. ASSUME NEW q \in Remote, NEW a \in Addr, RecordedWrite(q, a)
        PROVE  [T(r)!Next]_<<outgoing, written[r], position[r]>>
    <3>1. /\ written \in [Remote -> Seq(Addr)] /\ position \in [Remote -> Nat]
          /\ written' = [written EXCEPT ![q] = Append(@, a)]
          /\ position' = [position EXCEPT ![q] = NextIndex(q)]
          /\ UNCHANGED outgoing
      BY <1>2, <2>3 DEF FanoutInv, RecordedWrite
    <3>2. CASE r # q
      BY <3>1, <3>2
    <3>3. CASE r = q
      <4>1. unread[r] \in 1..Capacity /\ a = Oldest(r)
        BY <2>3, <3>3 DEF RecordedWrite, WritesTo, Receives
      <4>2. PICK i \in (position[r] + 1)..Len(outgoing) :
              i = NextIndex(r) /\ a = outgoing[i]
        BY <1>2, <4>1, OldestUnread
      <4>3. written'[r] = Append(written[r], outgoing[i]) /\ position'[r] = i
        BY <3>1, <3>3, <4>2
      <4>4. T(r)!Deliver
        BY <3>1, <4>2, <4>3 DEF T!Deliver
      <4>. QED  BY <4>4 DEF T!Next
    <3>. QED  BY <3>2, <3>3
  <2>. QED  BY <1>2, <2>1, <2>2, <2>3 DEF HistoryNext, Unrecorded
<1>. QED  BY <1>1, <1>2, FanoutCorrect, PTL DEF HistorySpec, EveryRemoteIsATunnel
=============================================================================
