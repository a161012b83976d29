--------------------------- MODULE PipelineProofs ---------------------------
(***************************************************************************)
(* Proofs about Pipeline for every number of remotes, every channel        *)
(* capacity and every choice of the tasks that may fail.                   *)
(***************************************************************************)
EXTENDS Pipeline, TLAPS

(* The initial state is well typed. *)
LEMMA TypeInit == Init => TypeOK
<1>1. /\ 0 \in 0..Capacity /\ 0 \in 0..(Capacity + 1)
      /\ 0 \in 0..MaxQueued /\ 0 \in 0..(MaxQueued + 1)
  BY CapacityAssumption, BoundsAssumption
<1>. QED  BY <1>1 DEF Init, TypeOK

(* A task that panics changes the set of live tasks only. *)
LEMMA PanicsType ==
  ASSUME TypeOK, NEW t, Panics(t)
  PROVE  TypeOK'
BY DEF Panics, TypeOK

(* The counters of unreceived broadcasts stay within the channel's size. *)
LEMMA OutgoingType ==
  ASSUME lag \in [Remote -> 0..(Capacity + 1)], NEW k \in Nat, Outgoing(k)
  PROVE  lag' \in [Remote -> 0..(Capacity + 1)]
<1>1. Capacity \in Nat
  BY CapacityAssumption
<1>2. \A r \in Remote :
        (IF lag[r] + k > Capacity THEN Capacity + 1 ELSE lag[r] + k) \in 0..(Capacity + 1)
  BY <1>1
<1>. QED  BY <1>2 DEF Outgoing

(* Every step preserves the types; in particular no channel overflows. *)
LEMMA TypeNext == TypeOK /\ [Next]_vars => TypeOK'
<1>. SUFFICES ASSUME TypeOK, [Next]_vars PROVE TypeOK'
  OBVIOUS
<1>. USE CapacityAssumption, BoundsAssumption
<1>1. ASSUME NEW r \in Remote, RemoteReads(r) PROVE TypeOK'
  BY <1>1 DEF RemoteReads, TypeOK
<1>2. ASSUME NEW r \in Remote, RemoteForwards(r) PROVE TypeOK'
  <2>1. CASE "cm" \in alive
    BY <1>2, <2>1 DEF RemoteForwards, TypeOK
  <2>2. CASE "cm" \notin alive
    BY <1>2, <2>2, PanicsType DEF RemoteForwards
  <2>. QED  BY <2>1, <2>2
<1>3. ASSUME NEW r \in Remote, RemoteWrites(r) PROVE TypeOK'
  BY <1>3 DEF RemoteWrites, TypeOK
<1>4. ASSUME NEW r \in Remote, RemoteSeesClosed(r) PROVE TypeOK'
  BY <1>4, PanicsType DEF RemoteSeesClosed
<1>5. CASE CmReceives
  <2>1. CASE CmTakesIn
    <3>1. PICK b \in 0..(queued + 1) : Release(queued + 1, b)
      BY <2>1 DEF CmTakesIn
    <3>2. cm' \in 0..(MaxQueued + 1) /\ queued' \in 0..MaxQueued
      BY <3>1 DEF Release, TypeOK
    <3>. QED  BY <2>1, <3>2 DEF CmTakesIn, TypeOK
  <2>2. ASSUME NEW k \in Copies \cup {0}, CmAnswers(k) PROVE TypeOK'
    <3>1. lag' \in [Remote -> 0..(Capacity + 1)]
      BY <2>2, OutgoingType DEF CmAnswers, TypeOK
    <3>. QED  BY <2>2, <3>1 DEF CmAnswers, TypeOK
  <2>. QED  BY <1>5, <2>1, <2>2 DEF CmReceives
<1>6. CASE CmTick
  <2>1. PICK b \in 1..queued : Release(queued, b)
    BY <1>6 DEF CmTick
  <2>2. cm' \in 0..(MaxQueued + 1) /\ queued' \in 0..MaxQueued
    BY <2>1 DEF Release, TypeOK
  <2>. QED  BY <1>6, <2>2 DEF CmTick, TypeOK
<1>7. ASSUME NEW k \in Copies, CmTakesLocal(k) PROVE TypeOK'
  <2>1. lag' \in [Remote -> 0..(Capacity + 1)]
    BY <1>7, OutgoingType DEF CmTakesLocal, TypeOK
  <2>. QED  BY <1>7, <2>1 DEF CmTakesLocal, TypeOK
<1>8. ASSUME NEW k \in Copies, CmKeepalive(k) PROVE TypeOK'
  <2>1. lag' \in [Remote -> 0..(Capacity + 1)]
    BY <1>8, OutgoingType DEF CmKeepalive, TypeOK
  <2>. QED  BY <1>8, <2>1 DEF CmKeepalive, TypeOK
<1>9. CASE CmReleases
  <2>1. CASE "lm" \in alive
    BY <1>9, <2>1 DEF CmReleases, TypeOK
  <2>2. CASE "lm" \notin alive
    BY <1>9, <2>2, PanicsType DEF CmReleases
  <2>. QED  BY <2>1, <2>2
<1>10. CASE CmSeesLocalClosed \/ CmSeesRemotesClosed
  BY <1>10, PanicsType DEF CmSeesLocalClosed, CmSeesRemotesClosed
<1>11. CASE LmReads
  BY <1>11 DEF LmReads, TypeOK
<1>12. CASE LmForwards
  <2>1. CASE "cm" \in alive
    <3>1. /\ from_local < Capacity /\ from_local' = from_local + 1
          /\ lm_holds' = FALSE
          /\ UNCHANGED <<raw_udp, to_local, lag, hold, queued, cm, alive, exited>>
      BY <1>12, <2>1, Zenon DEF LmForwards
    <3>2. from_local' \in 0..Capacity
      BY <3>1 DEF TypeOK
    <3>. QED  BY <3>1, <3>2, Zenon DEF TypeOK
  <2>2. CASE "cm" \notin alive
    BY <1>12, <2>2, PanicsType DEF LmForwards
  <2>. QED  BY <2>1, <2>2
<1>13. CASE LmWrites
  BY <1>13 DEF LmWrites, TypeOK
<1>14. CASE LmSeesClosed
  BY <1>14, PanicsType DEF LmSeesClosed
<1>15. ASSUME NEW t \in Task, Fails(t) PROVE TypeOK'
  BY <1>15, PanicsType DEF Fails
<1>16. CASE MainSeesPanic
  BY <1>16 DEF MainSeesPanic, TypeOK
<1>17. CASE UNCHANGED vars
  BY <1>17 DEF vars, TypeOK
<1>. QED  BY <1>1, <1>2, <1>3, <1>4, <1>5, <1>6, <1>7, <1>8, <1>9, <1>10, <1>11,
             <1>12, <1>13, <1>14, <1>15, <1>16, <1>17 DEF Next

(* The channels of a running instance never hold more than they may. *)
THEOREM TypeCorrect == Spec => []TypeOK
BY TypeInit, TypeNext, PTL DEF Spec

(* Once the ConnectionManager waits for the LocalManager and the           *)
(* LocalManager for the ConnectionManager, with both channels full, no     *)
(* step of any task ends the wait, whatever the capacity and however many  *)
(* remotes there are.                                                      *)
THEOREM CircularWaitTheorem == Spec => CircularWaitIsPermanent
<1>1. ASSUME CircularWait, [Next]_vars PROVE CircularWait'
  <2>. USE <1>1, CapacityAssumption DEF CircularWait
  <2>1. ASSUME NEW r \in Remote,
               \/ RemoteReads(r)
               \/ RemoteForwards(r)
               \/ RemoteWrites(r)
               \/ RemoteSeesClosed(r)
        PROVE  CircularWait'
    <3>1. r # "cm" /\ r # "lm"
      BY RemoteAssumption
    <3>2. CASE RemoteReads(r)
      BY <3>2 DEF RemoteReads
    <3>3. CASE RemoteForwards(r)
      BY <3>3 DEF RemoteForwards
    <3>4. CASE RemoteWrites(r)
      BY <3>4 DEF RemoteWrites
    <3>5. CASE RemoteSeesClosed(r)
      BY <3>5 DEF RemoteSeesClosed
    <3>. QED  BY <2>1, <3>2, <3>3, <3>4, <3>5
  <2>2. ~CmIdle
    BY DEF CmIdle
  <2>3. ~ (\/ CmReceives
           \/ CmTick
           \/ \E k \in Copies : CmTakesLocal(k)
           \/ \E k \in Copies : CmKeepalive(k)
           \/ CmSeesLocalClosed
           \/ CmSeesRemotesClosed)
    BY <2>2 DEF CmReceives, CmTakesIn, CmAnswers, CmTick, CmTakesLocal, CmKeepalive, CmSeesLocalClosed,
                CmSeesRemotesClosed
  <2>4. ~CmReleases
    <3>1. "lm" \in alive /\ ~(to_local < Capacity)
      OBVIOUS
    <3>. QED  BY <3>1, Zenon DEF CmReleases
  <2>5. ~ (LmReads \/ LmForwards \/ LmWrites \/ LmSeesClosed)
    BY DEF LmReads, LmForwards, LmWrites, LmSeesClosed
  <2>6. ASSUME NEW t \in Task, Fails(t) PROVE CircularWait'
    <3>1. t # "cm" /\ t # "lm"
      BY <2>6 DEF Fails
    <3>. QED  BY <2>6, <3>1 DEF Fails, Panics
  <2>7. CASE MainSeesPanic
    BY <2>7 DEF MainSeesPanic
  <2>8. CASE UNCHANGED vars
    BY <2>8 DEF vars
  <2>. QED  BY <2>1, <2>3, <2>4, <2>5, <2>6, <2>7, <2>8 DEF Next
<1>2. [Next]_vars => [CircularWait => CircularWait']_vars
  BY <1>1
<1>. QED  BY <1>2, PTL DEF Spec, CircularWaitIsPermanent
=============================================================================
