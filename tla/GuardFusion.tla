---------------------------- MODULE GuardFusion -----------------------------
(***************************************************************************)
(* The guard Le Grinder decides on: the local one (tokyo.rs, fed by the    *)
(* Binance ticks the loop handles) fused with a remote one (remote_guard.  *)
(* rs, fed by the UDP frames of a radar in Tokyo) by Grinder::guard_now(). *)
(*                                                                         *)
(* The frames are lost, delayed, duplicated and reordered; the radar dies  *)
(* and starts again from its first sequence number.  A task of its own     *)
(* receives them, even while the loop awaits a request; the ticks of       *)
(* Binance overwrite each other in their watch channel meanwhile.          *)
(*                                                                         *)
(* The code keeps times and compares them to the clock's; the model keeps  *)
(* the ages they have, up to the first one nothing tells from an older one *)
(* (which is also the age of what never came), so that the clock needs no  *)
(* bound.  Of a spot only its age is kept, of the radar engine only        *)
(* whether a tick shows a crash.                                           *)
(***************************************************************************)
EXTENDS Integers, FiniteSets

CONSTANTS
    KillLatch,     \* 5 s
    RemoteMaxAge,  \* 1.5 s
    GuardMaxAge,   \* 3 s
    MaxStall,      \* bound: time one handler may await
    MaxLag,        \* bound: time a tick may wait to be handled
    MaxDelay,      \* bound: time a frame may travel
    MaxFrames,     \* bound: frames on their way
    MaxSeq,        \* bound: ticks the radar sends in one life
    MaxLives       \* bound: lives of the radar

(* The latch outlives the age at which the remote guard is given up: the    *)
(* defaults of config.rs, which FreshSpot rests on.                         *)
ASSUME GuardFusionAssumption ==
    /\ {KillLatch, RemoteMaxAge, GuardMaxAge, MaxStall, MaxLag, MaxDelay,
        MaxFrames, MaxSeq, MaxLives} \subseteq Nat
    /\ KillLatch > RemoteMaxAge
    /\ MaxLag >= MaxStall
    /\ MaxLives >= 1

Lesser(a, b)  == IF a <= b THEN a ELSE b
Greater(a, b) == IF a >= b THEN a ELSE b

(* The ages from which on nothing changes.                                  *)
OldLocal  == GuardMaxAge + 1
OldRemote == RemoteMaxAge + 1
OldSpot   == Greater(GuardMaxAge, RemoteMaxAge + MaxDelay) + 1
OldCrash  == KillLatch + MaxLag

VARIABLES
    tick,          \* the last tick in the Binance watch channel
    unseen,        \* the loop has not handled it yet
    life, seq,     \* which life of the radar, the last number it gave
    frames,        \* frames on their way
    local,         \* TokyoGuard.state: age of the last tick, did it have a price
                   \* (else the spot is an older one's), kill
    crash_age,     \* the tick kill_latch_until_ms was set by
    remote,        \* RemoteState: last_seq; ages of the last news, spot and KILL
    pulse,         \* its watch channel
    pc,            \* the loop: idle, before try_enter(), in it
    stall          \* time the running handler still awaits

network == <<life, seq, frames>>
guards  == <<local, crash_age, remote>>
loop    == <<pc, stall>>
vars    == <<tick, unseen, network, guards, pulse, loop>>

Init ==
    /\ tick = [age |-> MaxLag, priced |-> FALSE, crash |-> FALSE] /\ unseen = FALSE
    /\ life = 1 /\ seq = 0 /\ frames = {}
    /\ local = [age |-> OldLocal, priced |-> FALSE, kill |-> FALSE] /\ crash_age = OldCrash
    /\ remote = [last_seq |-> 0, age |-> OldRemote, spot_age |-> OldSpot,
                 kill_age |-> KillLatch]
    /\ pulse = FALSE
    /\ pc = "idle" /\ stall = 0

-----------------------------------------------------------------------------
(* is_fresh()                                                               *)
Fresh(age, max_age) == age <= max_age

(* as_guard_state(): the remote kill is judged on the clock.                *)
RemoteKill == remote.kill_age < KillLatch

(* The spot of a tick without a price may be of any age.                    *)
LocalSpotAge == IF local.priced THEN local.age ELSE OldSpot

Bug_GuardNow ==
    IF Fresh(remote.age, RemoteMaxAge)
    THEN [age |-> remote.age, spot_age |-> remote.spot_age, kill |-> RemoteKill]
    ELSE [age |-> local.age, spot_age |-> LocalSpotAge, kill |-> local.kill]
(* guard_now(): the remote guard while it is fresh, with the local kill;    *)
(* else the local one, whose kill was judged when its tick was handled.     *)
GuardNow ==
    IF Fresh(remote.age, RemoteMaxAge)
    THEN [age      |-> remote.age,
          spot_age |-> remote.spot_age,
          kill     |-> RemoteKill \/ local.kill]
    ELSE [age      |-> local.age,
          spot_age |-> LocalSpotAge,
          kill     |-> local.kill]

-----------------------------------------------------------------------------
(* The world.                                                               *)

Older(age, old) == Lesser(age + 1, old)

(* Time passes while the loop awaits or has nothing to do; a frame that has *)
(* travelled for MaxDelay is lost.                                          *)
Advance ==
    /\ stall > 0 \/ (pc = "idle" /\ ~unseen /\ ~pulse)
    /\ unseen => tick.age < MaxLag
    /\ stall' = Greater(stall - 1, 0)
    /\ tick' = [tick EXCEPT !.age = Older(@, MaxLag)]
    /\ local' = [local EXCEPT !.age = Older(@, OldLocal)]
    /\ crash_age' = Older(crash_age, OldCrash)
    /\ remote' = [remote EXCEPT !.age = Older(@, OldRemote), !.spot_age = Older(@, OldSpot),
                                !.kill_age = Older(@, KillLatch)]
    /\ frames' = {[f EXCEPT !.age = @ + 1] : f \in {g \in frames : g.age < MaxDelay}}
    /\ UNCHANGED <<unseen, life, seq, pulse, pc>>

(* A book may lack a side, hence a price; it shows no crash then.           *)
BinanceTick ==
    /\ \E priced \in BOOLEAN, crash \in BOOLEAN :
          /\ crash => priced
          /\ tick' = [age |-> 0, priced |-> priced, crash |-> crash]
    /\ unseen' = TRUE
    /\ UNCHANGED <<network, guards, pulse, loop>>

(* A tick frame: its number orders it.                                      *)
RadarTick ==
    /\ Cardinality(frames) < MaxFrames
    /\ seq < MaxSeq
    /\ seq' = seq + 1
    /\ frames' = frames \cup {[kind |-> "tick", seq |-> seq', age |-> 0]}
    /\ UNCHANGED <<tick, unseen, life, guards, pulse, loop>>

(* A KILL frame has no number.                                              *)
RadarKill ==
    /\ Cardinality(frames) < MaxFrames
    /\ frames' = frames \cup {[kind |-> "kill", seq |-> 0, age |-> 0]}
    /\ UNCHANGED <<tick, unseen, life, seq, guards, pulse, loop>>

RadarRestart ==
    /\ life < MaxLives
    /\ life' = life + 1
    /\ seq' = 0
    /\ UNCHANGED <<tick, unseen, frames, guards, pulse, loop>>

-----------------------------------------------------------------------------
(* remote_guard::spawn(), the receiving task.                               *)

Bug_ReceiveTick(f) ==
    /\ remote' = IF f.seq <= remote.last_seq /\ remote.last_seq # 0
                 THEN [remote EXCEPT !.age = 0]
                 ELSE [remote EXCEPT !.last_seq = f.seq, !.age = 0, !.spot_age = f.age]
    /\ pulse' = TRUE
Bug_UncheckedTick(f) ==
    /\ remote' = [remote EXCEPT !.last_seq = f.seq, !.age = 0, !.spot_age = f.age]
    /\ pulse' = TRUE
(* A tick frame no newer than the last one is dropped.                      *)
ReceiveTick(f) ==
    IF f.seq <= remote.last_seq /\ remote.last_seq # 0
    THEN UNCHANGED <<remote, pulse>>
    ELSE /\ remote' = [remote EXCEPT !.last_seq = f.seq, !.age = 0, !.spot_age = f.age]
         /\ pulse' = TRUE

(* A KILL frame latches, and counts as news.                                *)
ReceiveKill ==
    /\ remote' = [remote EXCEPT !.kill_age = 0, !.age = 0]
    /\ pulse' = TRUE

(* A frame is received, and may come again.                                 *)
Receive ==
    \E f \in frames :
        /\ IF f.kind = "tick" THEN ReceiveTick(f) ELSE ReceiveKill
        /\ frames' \in {frames, frames \ {f}}
        /\ UNCHANGED <<tick, unseen, life, seq, local, crash_age, loop>>

-----------------------------------------------------------------------------
(* The loop.                                                                *)

Ready == pc = "idle" /\ stall = 0

(* A handler that may await something is running.                           *)
Awaiting == stall' \in 0 .. MaxStall

Bug_Update ==
    /\ crash_age' = IF tick.crash THEN tick.age ELSE crash_age
    /\ local' = [age |-> 0,
                 priced |-> tick.priced,
                 kill |-> crash_age' - tick.age < KillLatch]
(* TokyoGuard::update(): a crash latches from the tick's own time, and the  *)
(* kill is judged at it; a tick without a price is news and leaves the spot.*)
Update ==
    /\ crash_age' = IF tick.crash THEN tick.age ELSE crash_age
    /\ local' = [age |-> Lesser(tick.age, OldLocal),
                 priced |-> tick.priced,
                 kill |-> crash_age' - tick.age < KillLatch]

(* A Binance tick: the guard is updated, then check_exits() may await.      *)
HandleTick ==
    /\ Ready /\ unseen
    /\ unseen' = FALSE
    /\ Update
    /\ Awaiting
    /\ UNCHANGED <<tick, network, remote, pulse, pc>>

(* A radar frame: record_tick() may await a book, check_exits() more.       *)
HandlePulse ==
    /\ Ready /\ pulse
    /\ pulse' = FALSE
    /\ Awaiting
    /\ UNCHANGED <<tick, unseen, network, guards, pc>>

(* housekeeping(): the requests of its first stages ...                     *)
Housekeep ==
    /\ Ready
    /\ pc' = "enter"
    /\ Awaiting
    /\ UNCHANGED <<tick, unseen, network, guards, pulse>>

(* ... then try_enter() asks for a green guard ...                          *)
TryEnter ==
    /\ pc = "enter" /\ stall = 0
    /\ IF Fresh(GuardNow.age, GuardMaxAge) /\ ~GuardNow.kill
       THEN pc' = "entering" /\ Awaiting
       ELSE pc' = "idle" /\ UNCHANGED stall
    /\ UNCHANGED <<tick, unseen, network, guards, pulse>>

(* ... and goes on with the books and the order.                            *)
Entered ==
    /\ pc = "entering" /\ stall = 0
    /\ pc' = "idle"
    /\ UNCHANGED <<tick, unseen, network, guards, pulse, stall>>

Next == \/ Advance \/ BinanceTick
        \/ RadarTick \/ RadarKill \/ RadarRestart \/ Receive
        \/ HandleTick \/ HandlePulse
        \/ Housekeep \/ TryEnter \/ Entered

Spec == Init /\ [][Next]_vars

-----------------------------------------------------------------------------
Frames == [kind : {"tick", "kill"}, seq : 0 .. MaxSeq, age : 0 .. MaxDelay]

(* The types; among them, no spot is newer than the news that brought it,   *)
(* nor any tick seen later than it came.                                    *)
TypeOK ==
    /\ tick \in [age : 0 .. MaxLag, priced : BOOLEAN, crash : BOOLEAN] /\ unseen \in BOOLEAN
    /\ life \in 1 .. MaxLives /\ seq \in 0 .. MaxSeq
    /\ frames \subseteq Frames /\ Cardinality(frames) <= MaxFrames
    /\ local \in [age : 0 .. OldLocal, priced : BOOLEAN, kill : BOOLEAN]
    /\ crash_age \in 0 .. OldCrash
    /\ remote \in [last_seq : 0 .. MaxSeq, age : 0 .. OldRemote,
                   spot_age : 0 .. OldSpot, kill_age : 0 .. KillLatch]
    /\ remote.age <= remote.spot_age
    /\ Lesser(tick.age, OldLocal) <= local.age \/ tick.age = MaxLag
    /\ pulse \in BOOLEAN
    /\ pc \in {"idle", "enter", "entering"} /\ stall \in 0 .. MaxStall

(* No entry is decided in the shadow of a kill: a crash the local guard saw *)
(* bars it for the whole latch, whatever the radar says; a KILL frame bars  *)
(* it at least until the remote guard is too old to be used.                *)
KillBarsEntry ==
    [][pc = "enter" /\ pc' = "entering" =>
         /\ crash_age >= KillLatch
         /\ remote.kill_age > RemoteMaxAge]_vars

(* A guard that is fresh and green has a fresh spot: though a KILL frame    *)
(* counts as news and brings none, a spot that old is always under a kill;  *)
(* only a local tick without a price leaves one that old to a green guard.  *)
FreshSpot ==
    Fresh(GuardNow.age, GuardMaxAge) /\ ~GuardNow.kill =>
        \/ GuardNow.spot_age < OldSpot
        \/ ~Fresh(remote.age, RemoteMaxAge) /\ ~local.priced

(* However its frames are delayed or repeated, the spot of a radar that     *)
(* does not restart never goes back in time.                                *)
SpotMovesForward ==
    [][life = 1 /\ (remote'.age < remote.age \/ remote'.last_seq # remote.last_seq)
         => remote'.spot_age <= remote.spot_age]_vars

=============================================================================
