------------------------- MODULE GuardFusionProofs --------------------------
(***************************************************************************)
(* What the fusion of the guards keeps, whatever the delays, the loop's    *)
(* stalls and the lives of the radar.                                      *)
(***************************************************************************)
EXTENDS GuardFusion, FiniteSetTheorems, TLAPS

TickFrames == {f \in frames : f.kind = "tick"}

(* A green local guard has seen no crash for a latch, and a KILL frame is   *)
(* news like another.                                                       *)
LatchOK ==
    /\ ~local.kill => crash_age >= KillLatch
    /\ remote.age <= remote.kill_age

(* The last news of a fresh radar was a tick, whose spot is no older than   *)
(* the frame may be, or a KILL.                                             *)
NewsOK ==
    Fresh(remote.age, RemoteMaxAge) =>
        \/ remote.spot_age <= remote.age + MaxDelay
        \/ remote.kill_age = remote.age

(* In one life of the radar the frames on their way were sent in the order  *)
(* of their numbers, those not overtaken yet after the spot of the guard.   *)
FramesOK ==
    life = 1 =>
        /\ remote.last_seq <= seq
        /\ \A f \in TickFrames : /\ f.seq \in 1 .. seq
                                 /\ f.seq > remote.last_seq => f.age <= remote.spot_age
        /\ \A f, g \in TickFrames : f.seq < g.seq => g.age <= f.age

(* The inductive invariant.                                                 *)
GInv == TypeOK /\ IsFiniteSet(frames) /\ LatchOK /\ NewsOK /\ FramesOK

-----------------------------------------------------------------------------
(* The constants, and the ages from which on nothing changes.               *)
LEMMA Bounds ==
    /\ KillLatch \in Nat /\ RemoteMaxAge \in Nat /\ GuardMaxAge \in Nat /\ MaxStall \in Nat
    /\ MaxLag \in Nat /\ MaxDelay \in Nat /\ MaxFrames \in Nat /\ MaxSeq \in Nat /\ MaxLives \in Nat
    /\ KillLatch > RemoteMaxAge /\ MaxLives >= 1
    /\ OldLocal \in Nat /\ OldLocal = GuardMaxAge + 1
    /\ OldRemote \in Nat /\ OldRemote = RemoteMaxAge + 1
    /\ OldSpot \in Nat /\ OldSpot > GuardMaxAge /\ OldSpot > RemoteMaxAge + MaxDelay
    /\ OldCrash \in Nat /\ OldCrash = KillLatch + MaxLag
<1>1. /\ KillLatch \in Nat /\ RemoteMaxAge \in Nat /\ GuardMaxAge \in Nat /\ MaxStall \in Nat
      /\ MaxLag \in Nat /\ MaxDelay \in Nat /\ MaxFrames \in Nat
      /\ MaxSeq \in Nat /\ MaxLives \in Nat
      /\ KillLatch > RemoteMaxAge /\ MaxLives >= 1
  BY GuardFusionAssumption
<1>. QED
  BY <1>1 DEF OldLocal, OldRemote, OldSpot, OldCrash, Greater

(* The ages the guards keep.                                                *)
LEMMA Ages ==
    ASSUME TypeOK
    PROVE  /\ tick.age \in 0 .. MaxLag /\ local.age \in 0 .. OldLocal
           /\ crash_age \in 0 .. OldCrash
           /\ remote.age \in 0 .. OldRemote /\ remote.spot_age \in 0 .. OldSpot
           /\ remote.kill_age \in 0 .. KillLatch /\ remote.last_seq \in 0 .. MaxSeq
           /\ remote.age <= remote.spot_age
           /\ Lesser(tick.age, OldLocal) <= local.age \/ tick.age = MaxLag
BY DEF TypeOK

(* An age grows until it is old.                                            *)
LEMMA OlderIs ==
    ASSUME NEW old \in Nat, NEW a \in 0 .. old
    PROVE  /\ Older(a, old) \in 0 .. old
           /\ a < old => Older(a, old) = a + 1
           /\ a = old => Older(a, old) = a
BY DEF Older, Lesser

(* The fields the clock moves.                                              *)
LEMMA AdvanceIs ==
    ASSUME TypeOK, Advance
    PROVE  /\ tick' \in [age : 0 .. MaxLag, priced : BOOLEAN, crash : BOOLEAN]
           /\ tick'.age = Older(tick.age, MaxLag)
           /\ local' \in [age : 0 .. OldLocal, priced : BOOLEAN, kill : BOOLEAN]
           /\ local'.age = Older(local.age, OldLocal) /\ local'.kill = local.kill
           /\ crash_age' \in 0 .. OldCrash /\ crash_age' = Older(crash_age, OldCrash)
           /\ remote' \in [last_seq : 0 .. MaxSeq, age : 0 .. OldRemote,
                           spot_age : 0 .. OldSpot, kill_age : 0 .. KillLatch]
           /\ remote'.age = Older(remote.age, OldRemote)
           /\ remote'.spot_age = Older(remote.spot_age, OldSpot)
           /\ remote'.kill_age = Older(remote.kill_age, KillLatch)
           /\ remote'.last_seq = remote.last_seq
<1>1. /\ Older(tick.age, MaxLag) \in 0 .. MaxLag
      /\ Older(local.age, OldLocal) \in 0 .. OldLocal
      /\ Older(crash_age, OldCrash) \in 0 .. OldCrash
  BY Bounds, OlderIs DEF TypeOK
<1>2. /\ Older(remote.age, OldRemote) \in 0 .. OldRemote
      /\ Older(remote.spot_age, OldSpot) \in 0 .. OldSpot
      /\ Older(remote.kill_age, KillLatch) \in 0 .. KillLatch
  BY Bounds, OlderIs DEF TypeOK
<1>3. /\ tick' \in [age : 0 .. MaxLag, priced : BOOLEAN, crash : BOOLEAN]
      /\ tick'.age = Older(tick.age, MaxLag)
  BY <1>1 DEF TypeOK, Advance
<1>4. /\ local' \in [age : 0 .. OldLocal, priced : BOOLEAN, kill : BOOLEAN]
      /\ local'.age = Older(local.age, OldLocal) /\ local'.kill = local.kill
  BY <1>1 DEF TypeOK, Advance
<1>5. /\ remote' \in [last_seq : 0 .. MaxSeq, age : 0 .. OldRemote,
                      spot_age : 0 .. OldSpot, kill_age : 0 .. KillLatch]
      /\ remote'.age = Older(remote.age, OldRemote)
      /\ remote'.spot_age = Older(remote.spot_age, OldSpot)
      /\ remote'.kill_age = Older(remote.kill_age, KillLatch)
      /\ remote'.last_seq = remote.last_seq
  BY <1>2 DEF TypeOK, Advance
<1>. QED
  BY <1>1, <1>3, <1>4, <1>5 DEF Advance

(* What is on its way after a step comes from what was, or is new.          *)
LEMMA AgedFrames ==
    ASSUME TypeOK, IsFiniteSet(frames),
           frames' = {[f EXCEPT !.age = @ + 1] : f \in {g \in frames : g.age < MaxDelay}}
    PROVE  /\ frames' \subseteq Frames /\ IsFiniteSet(frames')
           /\ Cardinality(frames') <= MaxFrames
           /\ \A f \in frames' : \E g \in frames :
                 /\ f.kind = g.kind /\ f.seq = g.seq /\ f.age = g.age + 1 /\ f.age <= MaxDelay
<1>. DEFINE S == {g \in frames : g.age < MaxDelay}
            F == [f \in S |-> [f EXCEPT !.age = @ + 1]]
<1>1. \A f \in S : /\ F[f] \in Frames
                   /\ F[f].kind = f.kind /\ F[f].seq = f.seq
                   /\ F[f].age = f.age + 1 /\ F[f].age <= MaxDelay
  BY Bounds DEF TypeOK, Frames
<1>2. frames' = {F[f] : f \in S}
  OBVIOUS
<1>3. F \in Surjection(S, frames')
  BY <1>2 DEF Surjection
<1>4. IsFiniteSet(S) /\ Cardinality(S) <= Cardinality(frames)
  BY FS_Subset
<1>5. IsFiniteSet(frames') /\ Cardinality(frames') <= Cardinality(S)
  BY <1>3, <1>4, FS_Surjection
<1>6. Cardinality(frames') <= MaxFrames
  <2>1. Cardinality(S) \in Nat /\ Cardinality(frames') \in Nat /\ Cardinality(frames) \in Nat
    BY <1>4, <1>5, FS_CardinalityType
  <2>. QED
    BY <1>4, <1>5, <2>1, Bounds DEF TypeOK
<1>7. frames' \subseteq Frames
  BY <1>1, <1>2
<1>8. ASSUME NEW f \in frames'
      PROVE  \E g \in frames : /\ f.kind = g.kind /\ f.seq = g.seq
                               /\ f.age = g.age + 1 /\ f.age <= MaxDelay
  <2>1. PICK g \in S : f = F[g]
    BY <1>2
  <2>. QED
    BY <1>1, <2>1
<1>. QED
  BY <1>5, <1>6, <1>7, <1>8

(* A frame is sent ...                                                      *)
LEMMA SentFrames ==
    ASSUME TypeOK, IsFiniteSet(frames), Cardinality(frames) < MaxFrames,
           NEW f \in Frames, frames' = frames \cup {f}
    PROVE  /\ frames' \subseteq Frames /\ IsFiniteSet(frames')
           /\ Cardinality(frames') <= MaxFrames
<1>0. Cardinality(frames) \in Nat
  BY FS_CardinalityType
<1>1. /\ IsFiniteSet(frames')
      /\ Cardinality(frames') = IF f \in frames THEN Cardinality(frames)
                                ELSE Cardinality(frames) + 1
  BY FS_AddElement
<1>2. Cardinality(frames') <= MaxFrames
  BY <1>0, <1>1, Bounds
<1>. QED
  BY <1>1, <1>2 DEF TypeOK

(* ... and received, or dropped.                                            *)
LEMMA ReceivedFrames ==
    ASSUME TypeOK, IsFiniteSet(frames), Receive
    PROVE  /\ frames' \subseteq frames
           /\ frames' \subseteq Frames /\ IsFiniteSet(frames')
           /\ Cardinality(frames') <= MaxFrames
<1>1. frames' \subseteq frames
  BY DEF Receive
<1>2. IsFiniteSet(frames') /\ Cardinality(frames') <= Cardinality(frames)
  BY <1>1, FS_Subset
<1>3. Cardinality(frames') <= MaxFrames
  BY <1>2, FS_CardinalityType, Bounds DEF TypeOK
<1>. QED
  BY <1>1, <1>2, <1>3 DEF TypeOK

-----------------------------------------------------------------------------
(* The invariant holds at the start.                                        *)
LEMMA InitGInv == Init => GInv
<1>. SUFFICES ASSUME Init PROVE GInv
  OBVIOUS
<1>1. IsFiniteSet(frames) /\ Cardinality(frames) = 0
  BY FS_EmptySet DEF Init
<1>2. TypeOK
  <2>1. /\ tick \in [age : 0 .. MaxLag, priced : BOOLEAN, crash : BOOLEAN]
        /\ local \in [age : 0 .. OldLocal, priced : BOOLEAN, kill : BOOLEAN]
    BY Bounds DEF Init
  <2>2. /\ remote \in [last_seq : 0 .. MaxSeq, age : 0 .. OldRemote,
                       spot_age : 0 .. OldSpot, kill_age : 0 .. KillLatch]
        /\ remote.age <= remote.spot_age
    BY Bounds DEF Init
  <2>3. crash_age \in 0 .. OldCrash /\ stall \in 0 .. MaxStall
    BY Bounds DEF Init
  <2>4. tick.age = MaxLag /\ life \in 1 .. MaxLives /\ seq \in 0 .. MaxSeq
    BY Bounds DEF Init
  <2>5. unseen \in BOOLEAN /\ pulse \in BOOLEAN
    BY DEF Init
  <2>6. frames \subseteq Frames /\ Cardinality(frames) <= MaxFrames
    BY <1>1, Bounds DEF Init
  <2>. QED
    BY <2>1, <2>2, <2>3, <2>4, <2>5, <2>6 DEF Init, TypeOK
<1>3. LatchOK /\ NewsOK
  BY Bounds DEF Init, LatchOK, NewsOK, Fresh
<1>4. FramesOK
  BY DEF Init, FramesOK, TickFrames
<1>. QED
  BY <1>1, <1>2, <1>3, <1>4 DEF GInv

(* Every step keeps the types, and a finite number of frames on their way.  *)
LEMMA NextTypeOK == GInv /\ [Next]_vars => TypeOK' /\ IsFiniteSet(frames')
<1>. SUFFICES ASSUME TypeOK, IsFiniteSet(frames), [Next]_vars
              PROVE  TypeOK' /\ IsFiniteSet(frames')
  BY DEF GInv
<1>. USE DEF network, guards, loop
<1>1. CASE Advance
  <2>1. /\ frames' \subseteq Frames /\ IsFiniteSet(frames')
        /\ Cardinality(frames') <= MaxFrames
    BY <1>1, AgedFrames DEF Advance
  <2>2. stall' \in 0 .. MaxStall
    BY <1>1, Bounds DEF Advance, TypeOK, Greater
  <2>3. remote'.age <= remote'.spot_age
    <3>1. /\ remote'.age = Older(remote.age, OldRemote)
          /\ remote'.spot_age = Older(remote.spot_age, OldSpot)
      BY <1>1, AdvanceIs
    <3>. QED
      BY <3>1, Ages, Bounds DEF Older, Lesser
  <2>4. Lesser(tick'.age, OldLocal) <= local'.age \/ tick'.age = MaxLag
    <3>1. /\ tick'.age = Older(tick.age, MaxLag)
          /\ local'.age = Older(local.age, OldLocal)
      BY <1>1, AdvanceIs
    <3>. QED
      BY <3>1, Ages, Bounds DEF Older, Lesser
  <2>. QED
    BY <1>1, <2>1, <2>2, <2>3, <2>4, AdvanceIs DEF TypeOK, Advance
<1>2. CASE BinanceTick
  <2>1. tick' \in [age : 0 .. MaxLag, priced : BOOLEAN, crash : BOOLEAN] /\ tick'.age = 0
    BY <1>2, Bounds DEF BinanceTick
  <2>2. Lesser(tick'.age, OldLocal) <= local'.age
    BY <1>2, <2>1, Bounds DEF BinanceTick, TypeOK, Lesser
  <2>3. unseen' \in BOOLEAN
    BY <1>2 DEF BinanceTick
  <2>. QED
    BY <1>2, <2>1, <2>2, <2>3 DEF TypeOK, BinanceTick
<1>3. CASE RadarTick
  <2>1. seq' \in 0 .. MaxSeq
    BY <1>3, Bounds DEF RadarTick, TypeOK
  <2>2. [kind |-> "tick", seq |-> seq', age |-> 0] \in Frames
    BY <2>1, Bounds DEF Frames
  <2>3. /\ frames' \subseteq Frames /\ IsFiniteSet(frames')
        /\ Cardinality(frames') <= MaxFrames
    BY <1>3, <2>2, SentFrames DEF RadarTick
  <2>. QED
    BY <1>3, <2>1, <2>3 DEF TypeOK, RadarTick
<1>4. CASE RadarKill
  <2>1. [kind |-> "kill", seq |-> 0, age |-> 0] \in Frames
    BY Bounds DEF Frames
  <2>2. /\ frames' \subseteq Frames /\ IsFiniteSet(frames')
        /\ Cardinality(frames') <= MaxFrames
    BY <1>4, <2>1, SentFrames DEF RadarKill
  <2>. QED
    BY <1>4, <2>2 DEF TypeOK, RadarKill
<1>5. CASE RadarRestart
  <2>1. life' \in 1 .. MaxLives /\ seq' \in 0 .. MaxSeq
    BY <1>5, Bounds DEF RadarRestart, TypeOK
  <2>. QED
    BY <1>5, <2>1 DEF TypeOK, RadarRestart
<1>6. CASE Receive
  <2>1. /\ frames' \subseteq Frames /\ IsFiniteSet(frames')
        /\ Cardinality(frames') <= MaxFrames
    BY <1>6, ReceivedFrames
  <2>2. /\ remote' \in [last_seq : 0 .. MaxSeq, age : 0 .. OldRemote,
                        spot_age : 0 .. OldSpot, kill_age : 0 .. KillLatch]
        /\ remote'.age <= remote'.spot_age
    <3>1. PICK f \in frames : IF f.kind = "tick" THEN ReceiveTick(f) ELSE ReceiveKill
      BY <1>6 DEF Receive
    <3>2. f.seq \in 0 .. MaxSeq /\ f.age \in 0 .. OldSpot
      BY Bounds DEF TypeOK, Frames
    <3>3. CASE f.kind = "tick"
      <4>1. CASE UNCHANGED remote
        BY <4>1 DEF TypeOK
      <4>2. CASE remote' = [remote EXCEPT !.last_seq = f.seq, !.age = 0, !.spot_age = f.age]
        <5>1. remote' \in [last_seq : 0 .. MaxSeq, age : 0 .. OldRemote,
                           spot_age : 0 .. OldSpot, kill_age : 0 .. KillLatch]
          <6>1. 0 \in 0 .. OldRemote
            BY Bounds
          <6>. QED
            BY <3>2, <4>2, <6>1 DEF TypeOK
        <5>2. remote'.age = 0 /\ remote'.spot_age = f.age
          BY <4>2 DEF TypeOK
        <5>. QED
          BY <3>2, <5>1, <5>2, Bounds
      <4>. QED
        BY <3>1, <3>3, <4>1, <4>2 DEF ReceiveTick
    <3>4. CASE f.kind # "tick"
      <4>1. remote' = [remote EXCEPT !.kill_age = 0, !.age = 0]
        BY <3>1, <3>4 DEF ReceiveKill
      <4>2. remote' \in [last_seq : 0 .. MaxSeq, age : 0 .. OldRemote,
                         spot_age : 0 .. OldSpot, kill_age : 0 .. KillLatch]
        <5>1. 0 \in 0 .. OldRemote /\ 0 \in 0 .. KillLatch
          BY Bounds
        <5>. QED
          BY <4>1, <5>1 DEF TypeOK
      <4>3. remote'.age = 0 /\ remote'.spot_age = remote.spot_age
        BY <4>1 DEF TypeOK
      <4>. QED
        BY <4>2, <4>3, Ages, Bounds
    <3>. QED
      BY <3>3, <3>4
  <2>3. pulse' \in BOOLEAN
    BY <1>6 DEF Receive, ReceiveTick, ReceiveKill, TypeOK
  <2>. QED
    BY <1>6, <2>1, <2>2, <2>3 DEF TypeOK, Receive
<1>7. CASE HandleTick
  <2>1. local' \in [age : 0 .. OldLocal, priced : BOOLEAN, kill : BOOLEAN]
    BY <1>7, Bounds DEF HandleTick, Update, TypeOK, Lesser
  <2>2. Lesser(tick'.age, OldLocal) <= local'.age
    BY <1>7, Bounds DEF HandleTick, Update, TypeOK, Lesser
  <2>3. crash_age' \in 0 .. OldCrash
    BY <1>7, Bounds DEF HandleTick, Update, TypeOK
  <2>4. unseen' \in BOOLEAN
    BY <1>7 DEF HandleTick
  <2>. QED
    BY <1>7, <2>1, <2>2, <2>3, <2>4 DEF TypeOK, HandleTick, Awaiting
<1>8. CASE HandlePulse
  <2>1. pulse' \in BOOLEAN
    BY <1>8 DEF HandlePulse
  <2>. QED
    BY <1>8, <2>1 DEF TypeOK, HandlePulse, Awaiting
<1>9. CASE Housekeep \/ TryEnter \/ Entered
  BY <1>9 DEF TypeOK, Housekeep, TryEnter, Entered, Awaiting
<1>10. CASE UNCHANGED vars
  BY <1>10 DEF vars, TypeOK
<1>. QED
  BY <1>1, <1>2, <1>3, <1>4, <1>5, <1>6, <1>7, <1>8, <1>9, <1>10 DEF Next

(* What every step but three leaves of the remote guard, and of the local   *)
(* one.                                                                     *)
LEMMA RemoteStays ==
    ASSUME [Next]_vars, ~Advance, ~Receive
    PROVE  UNCHANGED remote
BY DEF Next, BinanceTick, RadarTick, RadarKill, RadarRestart, HandleTick, HandlePulse,
       Housekeep, TryEnter, Entered, vars, guards

(* ... the local one only ages and handles ticks.                           *)
LEMMA LocalStays ==
    ASSUME [Next]_vars, ~Advance, ~HandleTick
    PROVE  UNCHANGED <<local, crash_age>>
BY DEF Next, BinanceTick, RadarTick, RadarKill, RadarRestart, Receive, HandlePulse,
       Housekeep, TryEnter, Entered, vars, guards

(* A frame, received.                                                       *)
LEMMA ReceiveIs ==
    ASSUME TypeOK, Receive
    PROVE  \E f \in frames :
              \/ /\ f.kind = "tick" /\ (f.seq > remote.last_seq \/ remote.last_seq = 0)
                 /\ remote'.last_seq = f.seq /\ remote'.age = 0 /\ remote'.spot_age = f.age
                 /\ remote'.kill_age = remote.kill_age
              \/ /\ remote'.age = 0 /\ remote'.kill_age = 0
                 /\ remote'.spot_age = remote.spot_age /\ remote'.last_seq = remote.last_seq
              \/ UNCHANGED remote
<1>1. PICK f \in frames : IF f.kind = "tick" THEN ReceiveTick(f) ELSE ReceiveKill
  BY DEF Receive
<1>2. CASE f.kind = "tick"
  <2>1. f.seq \in Nat /\ remote.last_seq \in Nat
    BY Bounds DEF TypeOK, Frames
  <2>2. CASE f.seq <= remote.last_seq /\ remote.last_seq # 0
    BY <1>1, <1>2, <2>2 DEF ReceiveTick
  <2>3. CASE ~(f.seq <= remote.last_seq /\ remote.last_seq # 0)
    <3>1. f.seq > remote.last_seq \/ remote.last_seq = 0
      BY <2>1, <2>3
    <3>2. remote' = [remote EXCEPT !.last_seq = f.seq, !.age = 0, !.spot_age = f.age]
      BY <1>1, <1>2, <2>3 DEF ReceiveTick
    <3>. QED
      BY <1>2, <3>1, <3>2 DEF TypeOK
  <2>. QED
    BY <2>2, <2>3
<1>3. CASE f.kind # "tick"
  BY <1>1, <1>3 DEF ReceiveKill, TypeOK
<1>. QED
  BY <1>2, <1>3

(* A green guard has seen no crash for a latch.                             *)
LEMMA NextLatchOK == GInv /\ [Next]_vars => LatchOK'
<1>. SUFFICES ASSUME TypeOK, LatchOK, [Next]_vars PROVE LatchOK'
  BY DEF GInv
<1>1. ~local'.kill => crash_age' >= KillLatch
  <2>1. CASE Advance
    <3>1. local'.kill = local.kill /\ crash_age' = Older(crash_age, OldCrash)
      BY <2>1, AdvanceIs
    <3>2. ~local'.kill => ~local.kill
      BY <3>1
    <3>3. crash_age >= KillLatch => crash_age' >= KillLatch
      BY <3>1, Ages, Bounds DEF Older, Lesser
    <3>. QED
      BY <3>2, <3>3 DEF LatchOK
  <2>2. CASE HandleTick
    <3>1. ~local'.kill => ~(crash_age' - tick.age < KillLatch)
      BY <2>2 DEF HandleTick, Update
    <3>2. crash_age' \in {tick.age, crash_age}
      BY <2>2 DEF HandleTick, Update
    <3>3. ~(crash_age' - tick.age < KillLatch) => crash_age' >= KillLatch
      BY <3>2, Ages, Bounds
    <3>. QED
      BY <3>1, <3>3
  <2>3. CASE UNCHANGED <<local, crash_age>>
    BY <2>3 DEF LatchOK
  <2>. QED
    BY <2>1, <2>2, <2>3, LocalStays
<1>2. remote'.age <= remote'.kill_age
  <2>1. CASE Advance
    <3>1. /\ remote'.age = Older(remote.age, OldRemote)
          /\ remote'.kill_age = Older(remote.kill_age, KillLatch)
      BY <2>1, AdvanceIs
    <3>2. remote.age <= remote.kill_age
      BY DEF LatchOK
    <3>. QED
      BY <3>1, <3>2, Ages, Bounds DEF Older, Lesser
  <2>2. CASE Receive
    <3>1. (remote'.age = 0 /\ remote'.kill_age \in {0, remote.kill_age}) \/ UNCHANGED remote
      BY <2>2, ReceiveIs
    <3>. QED
      BY <3>1, Ages, Bounds DEF LatchOK
  <2>3. CASE UNCHANGED remote
    BY <2>3 DEF LatchOK
  <2>. QED
    BY <2>1, <2>2, <2>3, RemoteStays
<1>. QED
  BY <1>1, <1>2 DEF LatchOK

(* A fresh radar spoke by a tick or a KILL.                                 *)
LEMMA NextNewsOK == GInv /\ [Next]_vars => NewsOK'
<1>. SUFFICES ASSUME TypeOK, NewsOK, LatchOK, [Next]_vars PROVE NewsOK'
  BY DEF GInv
<1>1. CASE Advance
  <2>1. /\ remote'.age = Older(remote.age, OldRemote)
        /\ remote'.spot_age = Older(remote.spot_age, OldSpot)
        /\ remote'.kill_age = Older(remote.kill_age, KillLatch)
    BY <1>1, AdvanceIs
  <2>2. ASSUME remote'.age <= RemoteMaxAge
        PROVE  \/ remote'.spot_age <= remote'.age + MaxDelay
               \/ remote'.kill_age = remote'.age
    <3>1. remote.age < RemoteMaxAge /\ remote'.age = remote.age + 1
      BY <2>1, <2>2, Ages, Bounds DEF Older, Lesser
    <3>2. CASE remote.spot_age <= remote.age + MaxDelay
      BY <2>1, <3>1, <3>2, Ages, Bounds DEF Older, Lesser
    <3>3. CASE remote.kill_age = remote.age
      BY <2>1, <3>1, <3>3, Ages, Bounds DEF Older, Lesser
    <3>. QED
      BY <3>1, <3>2, <3>3, Ages, Bounds DEF NewsOK, Fresh
  <2>. QED
    BY <2>2 DEF NewsOK, Fresh
<1>2. CASE Receive
  <2>1. PICK f \in frames : \/ remote'.age = 0 /\ remote'.spot_age = f.age
                            \/ remote'.age = 0 /\ remote'.kill_age = 0
                            \/ UNCHANGED remote
    BY <1>2, ReceiveIs
  <2>2. f.age \in 0 .. MaxDelay
    BY DEF TypeOK, Frames
  <2>. QED
    BY <2>1, <2>2, Bounds DEF NewsOK, Fresh
<1>3. CASE UNCHANGED remote
  BY <1>3 DEF NewsOK, Fresh
<1>. QED
  BY <1>1, <1>2, <1>3, RemoteStays

(* Frames stay in the order of their numbers, in one life of the radar.     *)
LEMMA NextFramesOK == GInv /\ [Next]_vars => FramesOK'
<1>. SUFFICES ASSUME TypeOK, IsFiniteSet(frames), FramesOK, [Next]_vars, life' = 1
              PROVE  FramesOK'
  BY DEF GInv, FramesOK
<1>. DEFINE Sent == /\ remote.last_seq <= seq
                    /\ \A f \in TickFrames : /\ f.seq \in 1 .. seq
                                             /\ f.seq > remote.last_seq => f.age <= remote.spot_age
                    /\ \A f, g \in TickFrames : f.seq < g.seq => g.age <= f.age
<1>1. ~RadarRestart /\ life = 1
  BY DEF TypeOK, Next, RadarRestart, Advance, BinanceTick, RadarTick, RadarKill, Receive,
         HandleTick, HandlePulse, Housekeep, TryEnter, Entered, vars, network
<1>2. Sent
  BY <1>1 DEF FramesOK
<1>3. \A f \in TickFrames : f.seq \in Nat /\ f.age \in 0 .. MaxDelay
  BY Bounds DEF TypeOK, TickFrames, Frames
<1>4. CASE Advance
  <2>1. \A f \in TickFrames' : \E g \in TickFrames :
           f.seq = g.seq /\ f.age = g.age + 1 /\ f.age <= MaxDelay
    BY <1>4, AgedFrames DEF Advance, TickFrames
  <2>2. /\ remote'.last_seq = remote.last_seq /\ seq' = seq
        /\ remote'.spot_age = Older(remote.spot_age, OldSpot)
    BY <1>4, AdvanceIs DEF Advance
  <2>3. ASSUME NEW f \in TickFrames'
        PROVE  /\ f.seq \in 1 .. seq
               /\ f.seq > remote.last_seq => f.age <= remote'.spot_age
    <3>1. PICK g \in TickFrames : f.seq = g.seq /\ f.age = g.age + 1 /\ f.age <= MaxDelay
      BY <2>1
    <3>2. g.seq \in 1 .. seq /\ (g.seq > remote.last_seq => g.age <= remote.spot_age)
      BY <1>2
    <3>. QED
      BY <1>3, <2>2, <3>1, <3>2, Ages, Bounds DEF Older, Lesser
  <2>4. ASSUME NEW f \in TickFrames', NEW g \in TickFrames', f.seq < g.seq
        PROVE  g.age <= f.age
    <3>1. PICK u \in TickFrames : f.seq = u.seq /\ f.age = u.age + 1
      BY <2>1
    <3>2. PICK v \in TickFrames : g.seq = v.seq /\ g.age = v.age + 1
      BY <2>1
    <3>. QED
      BY <1>2, <1>3, <2>4, <3>1, <3>2
  <2>. QED
    BY <1>2, <2>2, <2>3, <2>4 DEF FramesOK
<1>5. CASE RadarTick
  <2>. DEFINE new == [kind |-> "tick", seq |-> seq + 1, age |-> 0]
  <2>1. TickFrames' = TickFrames \cup {new} /\ seq' = seq + 1 /\ remote' = remote
    BY <1>5 DEF RadarTick, TickFrames, guards
  <2>2. seq \in Nat /\ remote.last_seq \in Nat /\ remote.spot_age \in Nat
    BY Bounds DEF TypeOK
  <2>3. new.seq = seq + 1 /\ new.age = 0
    OBVIOUS
  <2>4. ASSUME NEW f \in TickFrames'
        PROVE  f.seq \in 1 .. seq + 1 /\ (f.seq > remote.last_seq => f.age <= remote.spot_age)
    BY <1>2, <2>1, <2>2, <2>3
  <2>5. ASSUME NEW f \in TickFrames', NEW g \in TickFrames', f.seq < g.seq
        PROVE  g.age <= f.age
    <3>1. CASE g = new
      <4>1. f \in TickFrames
        BY <2>1, <2>2, <2>3, <2>5, <3>1
      <4>. QED
        BY <1>3, <2>3, <3>1, <4>1
    <3>2. CASE f = new /\ g \in TickFrames
      BY <1>2, <2>2, <2>3, <2>5, <3>2
    <3>3. CASE f \in TickFrames /\ g \in TickFrames
      BY <1>2, <2>5, <3>3
    <3>. QED
      BY <2>1, <3>1, <3>2, <3>3
  <2>6. remote.last_seq <= seq + 1
    BY <1>2, <2>2
  <2>. QED
    BY <2>1, <2>4, <2>5, <2>6 DEF FramesOK
<1>6. CASE Receive
  <2>1. TickFrames' \subseteq TickFrames /\ seq' = seq
    BY <1>6, ReceivedFrames DEF TickFrames, Receive
  <2>2. PICK f \in frames :
              \/ /\ f.kind = "tick" /\ (f.seq > remote.last_seq \/ remote.last_seq = 0)
                 /\ remote'.last_seq = f.seq /\ remote'.spot_age = f.age
              \/ remote'.spot_age = remote.spot_age /\ remote'.last_seq = remote.last_seq
    BY <1>6, ReceiveIs
  <2>3. CASE remote'.spot_age = remote.spot_age /\ remote'.last_seq = remote.last_seq
    BY <1>2, <2>1, <2>3 DEF FramesOK
  <2>4. CASE f.kind = "tick" /\ remote'.last_seq = f.seq /\ remote'.spot_age = f.age
    <3>1. f \in TickFrames
      BY <2>4 DEF TickFrames
    <3>2. f.seq <= seq
      BY <1>2, <3>1, Bounds DEF TypeOK
    <3>. QED
      BY <1>2, <2>1, <2>4, <3>1, <3>2 DEF FramesOK
  <2>. QED
    BY <2>2, <2>3, <2>4
<1>7. CASE RadarKill
  <2>1. TickFrames' = TickFrames /\ seq' = seq /\ remote' = remote
    BY <1>7 DEF RadarKill, TickFrames, guards
  <2>. QED
    BY <1>2, <2>1 DEF FramesOK
<1>8. CASE UNCHANGED <<frames, seq, remote>>
  BY <1>2, <1>8 DEF FramesOK, TickFrames
<1>. QED
  BY <1>1, <1>4, <1>5, <1>6, <1>7, <1>8
     DEF Next, BinanceTick, HandleTick, HandlePulse, Housekeep, TryEnter, Entered, vars,
         network, guards

(* Every step keeps the invariant ...                                       *)
LEMMA NextGInv == GInv /\ [Next]_vars => GInv'
BY NextTypeOK, NextLatchOK, NextNewsOK, NextFramesOK DEF GInv

(* ... which holds in every reachable state.                                *)
THEOREM GInvHolds == Spec => []GInv
BY InitGInv, NextGInv, PTL DEF Spec

(* The ages stay within what the guards tell apart, and no spot is newer    *)
(* than the news that brought it.                                           *)
THEOREM FusionTypeCorrect == Spec => []TypeOK
<1>1. GInv => TypeOK
  BY DEF GInv
<1>. QED
  BY <1>1, GInvHolds, PTL

(* A guard that is fresh and green shows a fresh spot, or the local one of  *)
(* a tick without a price: a KILL frame makes the guard young again without *)
(* a spot, but not a green one while the guard is young.                    *)
THEOREM FreshSpotHolds == Spec => []FreshSpot
<1>1. ASSUME GInv, Fresh(GuardNow.age, GuardMaxAge), ~GuardNow.kill
      PROVE  \/ GuardNow.spot_age < OldSpot
             \/ ~Fresh(remote.age, RemoteMaxAge) /\ ~local.priced
  <2>. TypeOK /\ NewsOK
    BY <1>1 DEF GInv
  <2>1. CASE Fresh(remote.age, RemoteMaxAge)
    <3>1. GuardNow.spot_age = remote.spot_age /\ ~RemoteKill
      BY <1>1, <2>1 DEF GuardNow
    <3>2. remote.spot_age <= remote.age + MaxDelay
      BY <2>1, <3>1, Ages, Bounds DEF NewsOK, RemoteKill, Fresh
    <3>. QED
      BY <2>1, <3>1, <3>2, Ages, Bounds DEF Fresh
  <2>2. CASE ~Fresh(remote.age, RemoteMaxAge) /\ local.priced
    <3>1. GuardNow.spot_age = local.age /\ GuardNow.age = local.age
      BY <2>2 DEF GuardNow, LocalSpotAge
    <3>. QED
      BY <1>1, <3>1, Ages, Bounds DEF Fresh
  <2>. QED
    BY <2>1, <2>2
<1>2. GInv => FreshSpot
  BY <1>1 DEF FreshSpot
<1>. QED
  BY <1>2, GInvHolds, PTL

(* An entry is decided on a green guard only, and a green guard has seen no *)
(* crash for a whole latch, nor had a KILL frame while the radar is fresh.  *)
THEOREM KillBarsEntryHolds == Spec => KillBarsEntry
<1>1. ASSUME GInv, [Next]_vars, pc = "enter", pc' = "entering"
      PROVE  crash_age >= KillLatch /\ remote.kill_age > RemoteMaxAge
  <2>. TypeOK /\ LatchOK
    BY <1>1 DEF GInv
  <2>1. TryEnter
    BY <1>1 DEF Next, Advance, BinanceTick, RadarTick, RadarKill, RadarRestart, Receive,
                HandleTick, HandlePulse, Housekeep, Ready, Entered, vars, loop
  <2>2. ~GuardNow.kill
    BY <1>1, <2>1 DEF TryEnter
  <2>3. ~local.kill
    BY <2>2 DEF GuardNow
  <2>4. crash_age >= KillLatch
    BY <2>3 DEF LatchOK
  <2>5. remote.kill_age > RemoteMaxAge
    <3>1. CASE Fresh(remote.age, RemoteMaxAge)
      <4>1. ~RemoteKill
        BY <2>2, <3>1 DEF GuardNow
      <4>. QED
        BY <4>1, Ages, Bounds DEF RemoteKill
    <3>2. CASE ~Fresh(remote.age, RemoteMaxAge)
      BY <3>2, Ages, Bounds DEF LatchOK, Fresh
    <3>. QED
      BY <3>1, <3>2
  <2>. QED
    BY <2>4, <2>5
<1>2. GInv /\ [Next]_vars =>
        [pc = "enter" /\ pc' = "entering" =>
           /\ crash_age >= KillLatch
           /\ remote.kill_age > RemoteMaxAge]_vars
  BY <1>1
<1>. QED
  BY <1>2, GInvHolds, PTL DEF Spec, KillBarsEntry

(* In one life of the radar, news never bring a spot older than the one the *)
(* guard has: what overtakes carries a higher number, and what was          *)
(* overtaken is dropped.                                                    *)
THEOREM SpotMovesForwardHolds == Spec => SpotMovesForward
<1>. DEFINE Step == life = 1 /\ (remote'.age < remote.age \/ remote'.last_seq # remote.last_seq)
                      => remote'.spot_age <= remote.spot_age
<1>1. ASSUME GInv, [Next]_vars, life = 1,
             remote'.age < remote.age \/ remote'.last_seq # remote.last_seq
      PROVE  remote'.spot_age <= remote.spot_age
  <2>. TypeOK /\ FramesOK
    BY <1>1 DEF GInv
  <2>1. ~Advance
    <3>1. SUFFICES ASSUME Advance PROVE FALSE
      OBVIOUS
    <3>2. remote'.age = Older(remote.age, OldRemote) /\ remote'.last_seq = remote.last_seq
      BY <3>1, AdvanceIs
    <3>. QED
      BY <1>1, <3>2, Ages, Bounds DEF Older, Lesser
  <2>2. UNCHANGED remote => FALSE
    BY <1>1, Ages, Bounds
  <2>3. Receive
    BY <1>1, <2>1, <2>2, RemoteStays
  <2>4. PICK f \in frames :
              \/ /\ f.kind = "tick" /\ (f.seq > remote.last_seq \/ remote.last_seq = 0)
                 /\ remote'.spot_age = f.age
              \/ remote'.spot_age = remote.spot_age
    BY <2>2, <2>3, ReceiveIs
  <2>5. CASE remote'.spot_age = remote.spot_age
    BY <2>5, Ages, Bounds
  <2>6. CASE /\ f.kind = "tick" /\ (f.seq > remote.last_seq \/ remote.last_seq = 0)
             /\ remote'.spot_age = f.age
    <3>1. f \in TickFrames
      BY <2>6 DEF TickFrames
    <3>2. f.seq \in 1 .. seq /\ (f.seq > remote.last_seq => f.age <= remote.spot_age)
      BY <1>1, <3>1 DEF FramesOK
    <3>3. f.seq > remote.last_seq
      BY <2>6, <3>2, Ages, Bounds DEF TypeOK
    <3>. QED
      BY <2>6, <3>2, <3>3
  <2>. QED
    BY <2>4, <2>5, <2>6
<1>2. GInv /\ [Next]_vars => [Step]_vars
  BY <1>1
<1>. QED
  BY <1>2, GInvHolds, PTL DEF Spec, SpotMovesForward
=============================================================================
