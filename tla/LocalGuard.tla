----------------------------- MODULE LocalGuard -----------------------------
(***************************************************************************)
(* What the local guard of Le Grinder sees of Binance: the connection that *)
(* feeds it (connectors/binance.rs), which dies silently, breaks and comes *)
(* back, the watch channel in which ticks overwrite each other while the   *)
(* loop awaits something else, and the radar (engines/radar.rs), which     *)
(* judges a tick by the ticks the loop handled in the last second.         *)
(*                                                                         *)
(* The latch of a KILL and its fusion with the remote radar's are those of *)
(* GuardFusion.tla; times are kept as ages, as there.  A micro-price is a  *)
(* small integer, or NoPrice for a book that has none; of the imbalance    *)
(* only whether it is extreme.                                             *)
(***************************************************************************)
EXTENDS Integers, Sequences

CONSTANTS
    Lookback,      \* lookback_ms, 1 s
    Threshold,     \* VELOCITY_THRESHOLD
    Zombie,        \* 15 s
    MinBackoff,    \* 0.5 s
    MaxBackoff,    \* 30 s
    MaxPrice,      \* bound: the micro-prices
    MaxStall,      \* bound: time one handler may await
    MaxLag,        \* bound: time a tick may wait to be handled
    MaxTrail       \* bound: ticks in Lookback

ASSUME LocalGuardAssumption ==
    /\ {Lookback, Threshold, Zombie, MinBackoff, MaxBackoff, MaxTrail} \subseteq Nat \ {0}
    /\ MinBackoff <= MaxBackoff
    /\ {MaxPrice, MaxStall, MaxLag} \subseteq Nat
    /\ MaxLag >= MaxStall

NoPrice == -1
Old     == Lookback + MaxLag + 1   \* the age from which on a price is purged

VARIABLES
    conn,          \* run(): connecting, session, sleeping
    backoff, nap,  \* the next wait, what is left of this one
    silent,        \* time since the last message
    dead,          \* the line delivers nothing, and tells nobody
    tick,          \* the last BookUpdate in the watch channel; its age while
                   \* it waits
    unseen,        \* the loop has not handled it
    trail,         \* the priced ticks of the last Lookback, handled or not
    history,       \* RadarEngine.history
    kill,          \* what the radar said of the last tick handled
    stall          \* time the running handler still awaits

link  == <<conn, backoff, nap, silent, dead>>
radar == <<history, kill>>
vars  == <<link, tick, unseen, trail, radar, stall>>

Init ==
    /\ conn = "connecting" /\ backoff = MinBackoff /\ nap = 0
    /\ silent = 0 /\ dead = FALSE
    /\ tick = [age |-> 0, price |-> NoPrice, extreme |-> FALSE] /\ unseen = FALSE
    /\ trail = <<>> /\ history = <<>> /\ kill = FALSE
    /\ stall = 0

Lesser(a, b) == IF a <= b THEN a ELSE b
Aged(s) == [i \in DOMAIN s |-> [s[i] EXCEPT !.age = Lesser(@ + 1, Old)]]

Bug_Recent(s, age) == s
(* The first n points of s are more than Lookback older than the given age, *)
(* and the next one is not; s without those.                                *)
TooOld(n, s, age) ==
    /\ \A i \in 1 .. n : s[i].age - age > Lookback
    /\ n < Len(s) => s[n + 1].age - age <= Lookback
Recent(s, age) == SubSeq(s, 1 + CHOOSE n \in 0 .. Len(s) : TooOld(n, s, age), Len(s))

-----------------------------------------------------------------------------
(* Time.                                                                    *)

Ready == stall = 0

Advance ==
    /\ ~(Ready /\ unseen)
    /\ conn = "session" => silent < Zombie
    /\ conn = "sleeping" => nap > 0
    /\ silent' = IF conn = "session" THEN silent + 1 ELSE silent
    /\ nap' = IF conn = "sleeping" THEN nap - 1 ELSE nap
    /\ tick' = IF unseen THEN [tick EXCEPT !.age = @ + 1] ELSE tick
    /\ trail' = Aged(trail) /\ history' = Aged(history)
    /\ stall' = IF stall > 0 THEN stall - 1 ELSE 0
    /\ UNCHANGED <<conn, backoff, dead, unseen, kill>>

-----------------------------------------------------------------------------
(* run() and connect_and_stream().                                          *)

Connected ==
    /\ conn = "connecting"
    /\ conn' = "session" /\ silent' = 0
    /\ UNCHANGED <<backoff, nap, dead, tick, unseen, trail, radar, stall>>

Bug_Ended(clean) ==
    /\ conn' = "sleeping" /\ dead' = FALSE /\ silent' = 0
    /\ nap' = IF clean THEN MinBackoff ELSE backoff
    /\ backoff' = 2 * nap'
(* The connection is over; the wait doubles, up to a maximum, until one     *)
(* ends cleanly.                                                            *)
Ended(clean) ==
    /\ conn' = "sleeping" /\ dead' = FALSE /\ silent' = 0
    /\ nap' = IF clean THEN MinBackoff ELSE backoff
    /\ backoff' = Lesser(2 * nap', MaxBackoff)

Broken ==
    /\ conn \in {"connecting", "session"}
    /\ Ended(FALSE)
    /\ UNCHANGED <<tick, unseen, trail, radar, stall>>

Closed ==
    /\ conn = "session" /\ ~dead
    /\ Ended(TRUE)
    /\ UNCHANGED <<tick, unseen, trail, radar, stall>>

Bug_Timeout == FALSE /\ UNCHANGED vars
(* 15 s without a message: a zombie.                                        *)
Timeout ==
    /\ conn = "session" /\ silent = Zombie
    /\ Ended(FALSE)
    /\ UNCHANGED <<tick, unseen, trail, radar, stall>>

Wake ==
    /\ conn = "sleeping" /\ nap = 0
    /\ conn' = "connecting"
    /\ UNCHANGED <<backoff, nap, silent, dead, tick, unseen, trail, radar, stall>>

(* A book; it takes the place of one the loop has not handled.              *)
Book(price, extreme) ==
    /\ conn = "session" /\ ~dead
    /\ silent' = 0
    /\ tick' = [age |-> 0, price |-> price, extreme |-> extreme]
    /\ unseen' = TRUE
    /\ IF price = NoPrice
       THEN UNCHANGED trail
       ELSE /\ trail' = Append(Recent(trail, 0), [age |-> 0, price |-> price, handled |-> FALSE])
            /\ Len(trail') <= MaxTrail
    /\ UNCHANGED <<conn, backoff, nap, dead, radar, stall>>

(* A ping, a pong, a text that is no book: not silence, and no tick.        *)
OtherMessage ==
    /\ conn = "session" /\ ~dead
    /\ silent' = 0
    /\ UNCHANGED <<conn, backoff, nap, dead, tick, unseen, trail, radar, stall>>

(* The peer is gone without a word.                                         *)
LineDies ==
    /\ conn = "session"
    /\ dead' = TRUE
    /\ UNCHANGED <<conn, backoff, nap, silent, tick, unseen, trail, radar, stall>>

-----------------------------------------------------------------------------
(* The loop.                                                                *)

Abs(n) == IF n >= 0 THEN n ELSE -n

(* velocity(): the newest price less the oldest, of two at least.           *)
Crash(s, extreme) ==
    /\ Len(s) >= 2
    /\ extreme
    /\ Abs(s[Len(s)].price - s[1].price) >= Threshold

Bug_RadarTick ==
    IF tick.price = NoPrice
    THEN kill' = FALSE /\ UNCHANGED <<history, trail>>
    ELSE /\ history' = Append(history, [age |-> tick.age, price |-> tick.price])
         /\ kill' = Crash(history', tick.extreme)
         /\ trail' = [trail EXCEPT ![Len(trail)].handled = TRUE]
(* RadarEngine::tick(): the price joins the history, what is too old for it *)
(* leaves, and the rest is judged; a book without a price is not.           *)
RadarTick ==
    IF tick.price = NoPrice
    THEN kill' = FALSE /\ UNCHANGED <<history, trail>>
    ELSE /\ history' = Recent(Append(history, [age |-> tick.age, price |-> tick.price]),
                              tick.age)
         /\ kill' = Crash(history', tick.extreme)
         /\ trail' = [trail EXCEPT ![Len(trail)].handled = TRUE]

(* A tick: guard.update(), then check_exits() may await requests.           *)
HandleTick ==
    /\ Ready /\ unseen
    /\ unseen' = FALSE
    /\ RadarTick
    /\ tick' = [tick EXCEPT !.age = 0]
    /\ stall' \in 0 .. MaxStall
    /\ UNCHANGED link

(* Another handler, and its requests; a tick is not kept waiting for ever.  *)
HandleOther ==
    /\ Ready
    /\ stall' \in 1 .. MaxStall
    /\ unseen => tick.age + stall' <= MaxLag
    /\ UNCHANGED <<link, tick, unseen, trail, radar>>

Next ==
    \/ Advance
    \/ Connected \/ Broken \/ Closed \/ Timeout \/ Wake
    \/ \E price \in NoPrice .. MaxPrice, extreme \in BOOLEAN : Book(price, extreme)
    \/ OtherMessage \/ LineDies
    \/ HandleTick \/ HandleOther

Spec == Init /\ [][Next]_vars

(* The tasks run, time passes; a server that accepts connections again and  *)
(* again is connected to in the end.  connect_async() has no timeout: that  *)
(* a handshake which began ends, well or not, is assumed of the network.    *)
FairSpec ==
    /\ Spec
    /\ WF_vars(Advance) /\ WF_vars(Timeout) /\ WF_vars(Wake) /\ SF_vars(Connected)
    /\ WF_vars(HandleTick)

-----------------------------------------------------------------------------
Points == [age : 0 .. Old, price : 0 .. MaxPrice]

(* The types; among them, no reconnection waits longer than the maximum,    *)
(* and no session is silent for longer than a zombie may be.                *)
TypeOK ==
    /\ conn \in {"connecting", "session", "sleeping"}
    /\ backoff \in MinBackoff .. MaxBackoff /\ nap \in 0 .. MaxBackoff
    /\ silent \in 0 .. Zombie /\ dead \in BOOLEAN
    /\ tick \in [age : 0 .. MaxLag, price : NoPrice .. MaxPrice, extreme : BOOLEAN]
    /\ unseen \in BOOLEAN /\ kill \in BOOLEAN /\ stall \in 0 .. MaxStall
    /\ history \in Seq(Points) /\ Len(history) <= MaxTrail
    /\ trail \in Seq([age : 0 .. Old, price : 0 .. MaxPrice, handled : BOOLEAN])
    /\ Len(trail) <= MaxTrail

(* The radar's verdict on a tick: a KILL is never for a move slower than    *)
(* Lookback, be it over a reconnection or a stall; and if the loop handled  *)
(* every tick of the last Lookback, it says KILL when their prices do.      *)
RadarVerdict ==
    ~unseen /\ tick.price # NoPrice =>
        /\ kill => \E i \in DOMAIN trail : Crash(SubSeq(trail, i, Len(trail)), tick.extreme)
        /\ (\A i \in DOMAIN trail : trail[i].handled) => kill = Crash(trail, tick.extreme)

(* A connection that died without a word is replaced.                       *)
FeedReturns == conn = "session" /\ dead ~> conn = "session" /\ ~dead
=============================================================================
