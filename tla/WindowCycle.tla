---------------------------- MODULE WindowCycle -----------------------------
(***************************************************************************)
(* The life of a window in Le Grinder's loop (grinder.rs, run()): finding  *)
(* the market and its strike, entering, watching the position, selling it  *)
(* or resolving it, and rolling over to the next window.                   *)
(*                                                                         *)
(* The loop runs one handler at a time: housekeeping(), twice a second, or *)
(* check_exits() when the guard ticks.  A handler that awaits a request    *)
(* keeps the loop, while the clock runs, Binance ticks overwrite each      *)
(* other in their watch channel, and the values the handler read before    *)
(* its awaits grow old.  pc is the await (or the step between two awaits)  *)
(* the running handler is at; now is the clock, in units of time; hk is    *)
(* the time housekeeping() read when it began, until its last use.         *)
(*                                                                         *)
(* The margin z of the spot over the strike is a small integer, signed for *)
(* Up; the drift and dist_exit_usd conditions are folded into it.  This is *)
(* the loop without a remote radar (SIGNAL_LISTEN unset, the default): its *)
(* frames, what they await and the guard they make are in GuardFusion.tla. *)
(* The amounts are those of Settlement.tla, halts are left out.            *)
(***************************************************************************)
EXTENDS Integers

CONSTANTS          \* times and thresholds of the configuration
    WindowLen,     \* 300 s
    MinRemaining, MaxRemaining, GuardMaxAge,
    ZEntry, ZExit,
    Grace,         \* 3 s
    GuardStaleExit,\* 0 = off
    PanicOnlyLast, \* 0 = off
    SecureLast,    \* 0 = the securing exit is off
    SecureMin,     \* 3 s
    WallAge,       \* 6 s
    ResolveDelay, ProxyDelay     \* 3 s, 90 s

CONSTANTS          \* bounds of the instances
    LastWindow,    \* the markets are those of windows 0 .. LastWindow
    MaxTime,       \* the clock stops there
    MaxAwait,      \* time a request may take, its timeout included
    Signals        \* what a tick may bring: a margin z and a kill

ASSUME WindowCycleAssumption ==
    /\ {MinRemaining, MaxRemaining, GuardMaxAge, Grace, GuardStaleExit, PanicOnlyLast,
        SecureLast, SecureMin, WallAge, ResolveDelay, ProxyDelay,
        LastWindow, MaxTime, MaxAwait} \subseteq Nat
    /\ WindowLen \in Nat \ {0}
    /\ {ZEntry, ZExit} \subseteq Int
    /\ Signals \subseteq [z : Int, kill : BOOLEAN]

(* The fallback comes after the first attempt, and later than two requests  *)
(* can make a sale that may not be thought of in the last SecureMin.        *)
ASSUME TimingAssumption ==
    /\ MaxAwait > 0
    /\ ResolveDelay <= ProxyDelay
    /\ 2 * MaxAwait <= ProxyDelay + SecureMin

Windows  == 0 .. LastWindow
None     == -1
Outcomes == {"resolved", "sold"}
Unplayed == "unplayed"

Start(w) == w * WindowLen
End(w)   == (w + 1) * WindowLen

VARIABLES
    now,
    tick,          \* last value of the Binance watch channel
    unseen,        \* the loop has not handled it yet
    due,           \* the interval of housekeeping() has fired
    (* the loop *)
    pc, since,     \* where the handler is, and since when
    hk,            \* now_ms of housekeeping()
    try,           \* what the stage under way has read before its awaits
    why,           \* the reason of the exit under way
    (* Grinder *)
    guard,         \* GuardState
    market,        \* window of the current market, None before the first
    strike,        \* window the strike was fixed for, None when there is none
    pos,           \* Phase::InPosition, NoPos when scanning
    last_played,
    wall,          \* when last_wall was measured, None when it was not low
    (* history *)
    results        \* what became of the position of each window

loop    == <<pc, since, hk, try, why>>
feed    == <<tick, unseen>>
machine == <<guard, market, strike, pos, last_played, wall>>
vars    == <<now, due, feed, loop, machine, results>>

NoPos  == [w |-> None, dir |-> 0, ride |-> FALSE, decided |-> 0, opened |-> 0]
NoTry  == [w |-> None, dir |-> 0, z |-> 0, decided |-> 0]
NoTick == [ts |-> None, z |-> 0, kill |-> FALSE]

InPosition == pos # NoPos

(* is_fresh(): nothing received yet is never fresh.                         *)
Fresh(g, t, age) == g.ts # None /\ t - g.ts <= age

(* The awaits: points where the clock may run under a handler.              *)
Awaits == {"kline", "stale_sale", "wall", "secure_book", "secure_sale",
           "market", "market_next", "strike", "ask", "buy",
          "exit_book", "recovery", "exit_sale"}
(* The stages of housekeeping() between them, and the loop's select.        *)
Stages == {"stale", "measure", "secure", "rollover", "fix", "enter", "idle"}

Goto(p) == pc' = p /\ since' = IF p \in Awaits THEN now ELSE 0

Init ==
    /\ now = 0 /\ due = TRUE
    /\ tick = NoTick /\ unseen = FALSE
    /\ pc = "idle" /\ since = 0 /\ hk = 0 /\ try = NoTry /\ why = "none"
    /\ guard = NoTick
    /\ market = None /\ strike = None
    /\ pos = NoPos /\ last_played = None
    /\ wall = None
    /\ results = [w \in Windows |-> Unplayed]

-----------------------------------------------------------------------------
(* The world.                                                               *)

(* Time passes while a request is awaited, at most MaxAwait, or when the    *)
(* loop has nothing to do; housekeeping() is due again.                     *)
Advance ==
    /\ now < MaxTime
    /\ \/ pc \in Awaits /\ now < since + MaxAwait
       \/ pc = "idle" /\ ~due /\ ~unseen
    /\ now' = now + 1
    /\ due' = TRUE
    /\ UNCHANGED <<feed, loop, machine, results>>

(* A Binance tick, at most one per unit of time, overwrites the one before. *)
FeedTick ==
    /\ tick.ts < now
    /\ \E s \in Signals : tick' = [ts |-> now, z |-> s.z, kill |-> s.kill]
    /\ unseen' = TRUE
    /\ UNCHANGED <<now, due, loop, machine, results>>

-----------------------------------------------------------------------------
(* settle(), for the loop: the outcome is booked and the phase is Scanning. *)
Settled(outcome) ==
    /\ results' = [results EXCEPT ![pos.w] = outcome]
    /\ pos' = NoPos

-----------------------------------------------------------------------------
(* check_exits(), on a Binance tick.                                        *)

(* The margin of the side held.                                             *)
Margin(g) == g.z * pos.dir

(* The grace after an entry runs from the decision, whole seconds.          *)
InGrace == now - pos.decided < Grace

(* The alarms a tick raises; the margin's are ignored far from the close.   *)
Alarm(g) ==
    IF g.kill THEN "radar_kill"
    ELSE IF Margin(g) < ZExit THEN "z_floor" ELSE "none"

Wick(reason) ==
    reason = "z_floor" /\ PanicOnlyLast > 0 /\ End(pos.w) - now > PanicOnlyLast

Bug_HandleTick ==
    /\ pc = "idle" /\ unseen
    /\ unseen' = FALSE
    /\ guard' = tick
    /\ IF InPosition /\ ~InGrace /\ Alarm(tick) # "none" /\ ~pos.ride /\ ~Wick(Alarm(tick))
       THEN Goto("exit_book") /\ why' = Alarm(tick)
       ELSE UNCHANGED <<pc, since, why>>
    /\ UNCHANGED <<now, due, tick, hk, try, market, strike, pos, last_played, wall, results>>
(* The loop handles the channel's last tick; an alarm goes on with the book. *)
HandleTick ==
    /\ pc = "idle" /\ unseen
    /\ unseen' = FALSE
    /\ guard' = tick
    /\ IF /\ InPosition
          /\ now < End(pos.w)
          /\ ~InGrace
          /\ Alarm(tick) # "none"
          /\ ~pos.ride
          /\ ~Wick(Alarm(tick))
       THEN Goto("exit_book") /\ why' = Alarm(tick)
       ELSE UNCHANGED <<pc, since, why>>
    /\ UNCHANGED <<now, due, tick, hk, try, market, strike, pos, last_played, wall, results>>

(* Under the floor the position rides to its resolution; else a margin      *)
(* alarm may read the book again (RECOVERY_HOLD) ...                        *)
ExitBook ==
    /\ pc = "exit_book"
    /\ \/ pos' = [pos EXCEPT !.ride = TRUE] /\ Goto("idle") /\ why' = "none"
       \/ Goto("exit_sale") /\ UNCHANGED <<pos, why>>
       \/ why = "z_floor" /\ Goto("recovery") /\ UNCHANGED <<pos, why>>
    /\ UNCHANGED <<now, due, feed, hk, try, guard, market, strike, last_played, wall, results>>

(* ... and hold on to what the book would still pay for.                    *)
Recovery ==
    /\ pc = "recovery"
    /\ \/ Goto("exit_sale") /\ UNCHANGED why
       \/ Goto("idle") /\ why' = "none"
    /\ UNCHANGED <<now, due, feed, hk, try, machine, results>>

(* panic_exit(): nothing sold, the position stays open.                     *)
ExitSale ==
    /\ pc = "exit_sale"
    /\ Settled("sold") \/ UNCHANGED <<pos, results>>
    /\ Goto("idle") /\ why' = "none"
    /\ UNCHANGED <<now, due, feed, hk, try, guard, market, strike, last_played,
                   wall>>

-----------------------------------------------------------------------------
(* housekeeping(), stage by stage.                                          *)

(* 1. The position is past its end: ask for the candle.                     *)
Housekeep ==
    /\ pc = "idle" /\ due
    /\ due' = FALSE
    /\ hk' = now
    /\ IF InPosition /\ now >= End(pos.w) + ResolveDelay
       THEN Goto("kline") ELSE Goto("stale")
    /\ UNCHANGED <<now, feed, try, why, machine, results>>

Bug_Resolve ==
    /\ pc = "kline"
    /\ Settled("resolved") \/ UNCHANGED <<pos, results>>
    /\ Goto("stale")
    /\ UNCHANGED <<now, due, feed, hk, try, why, guard, market, strike, last_played,
                   wall>>
(* resolve() on the candle, or without one on the guard's spot once         *)
(* ProxyDelay is over; else the next pass asks again.                       *)
Resolve ==
    /\ pc = "kline"
    /\ \/ Settled("resolved")
       \/ hk < End(pos.w) + ProxyDelay /\ UNCHANGED <<pos, results>>
    /\ Goto("stale")
    /\ UNCHANGED <<now, due, feed, hk, try, why, guard, market, strike, last_played,
                   wall>>

Bug_StaleCheck ==
    /\ pc = "stale"
    /\ IF /\ GuardStaleExit > 0
          /\ InPosition /\ hk < End(pos.w)
          /\ ~Fresh(guard, hk, GuardStaleExit)
       THEN Goto("stale_sale") /\ why' = "guard_stale"
       ELSE Goto("measure") /\ UNCHANGED why
    /\ UNCHANGED <<now, due, feed, hk, try, machine, results>>
Bug_NoStaleCheck ==
    /\ pc = "stale"
    /\ Goto("measure")
    /\ UNCHANGED <<now, due, feed, hk, try, why, machine, results>>
(* 1bis. The guard has been blind for too long in position.                 *)
StaleCheck ==
    /\ pc = "stale"
    /\ IF /\ GuardStaleExit > 0
          /\ InPosition /\ hk < End(pos.w) /\ ~pos.ride
          /\ ~Fresh(guard, hk, GuardStaleExit)
       THEN Goto("stale_sale") /\ why' = "guard_stale"
       ELSE Goto("measure") /\ UNCHANGED why
    /\ UNCHANGED <<now, due, feed, hk, try, machine, results>>

(* panic_exit() again; the pass goes on, sold or not.                       *)
StaleSale ==
    /\ pc = "stale_sale"
    /\ Settled("sold") \/ UNCHANGED <<pos, results>>
    /\ Goto("measure") /\ why' = "none"
    /\ UNCHANGED <<now, due, feed, hk, try, guard, market, strike, last_played,
                   wall>>

(* 1quater. record_wall(), every two seconds at most: whether it is due is  *)
(* left open.  Of the wall, only that it is under the threshold is kept: it *)
(* never is when the securing exit, which the threshold turns on, is off.   *)
Measure ==
    /\ pc = "measure"
    /\ \/ InPosition /\ Goto("wall")
       \/ Goto("secure")
    /\ UNCHANGED <<now, due, feed, hk, try, why, machine, results>>

WallRead ==
    /\ pc = "wall"
    /\ wall' \in IF SecureLast > 0 THEN {wall, hk, None} ELSE {None}
    /\ Goto("secure")
    /\ UNCHANGED <<now, due, feed, hk, try, why, guard, market, strike, pos,
                   last_played, results>>

(* 1quinquies. The end of the window with a low wall.                       *)
SecureCheck ==
    /\ pc = "secure"
    /\ IF /\ SecureLast > 0
          /\ InPosition /\ ~pos.ride
          /\ End(pos.w) - hk > SecureMin /\ End(pos.w) - hk <= SecureLast
          /\ wall # None /\ hk - wall < WallAge
       THEN Goto("secure_book") ELSE Goto("rollover")
    /\ hk' = 0
    /\ UNCHANGED <<now, due, feed, try, why, machine, results>>

SecureBook ==
    /\ pc = "secure_book"
    /\ Goto("secure_sale") \/ Goto("rollover")
    /\ UNCHANGED <<now, due, feed, hk, try, why, machine, results>>

(* All the shares at secure_min_price or better, or none.                   *)
SecureSale ==
    /\ pc = "secure_sale"
    /\ Settled("sold") \/ UNCHANGED <<pos, results>>
    /\ Goto("rollover")
    /\ UNCHANGED <<now, due, feed, hk, try, why, guard, market, strike, last_played,
                   wall>>

(* 2. The market is over, or there is none yet: ask for the current one.    *)
Rollover ==
    /\ pc = "rollover"
    /\ IF market = None \/ End(market) <= now
       THEN Goto("market") /\ try' = [NoTry EXCEPT !.w = now \div WindowLen]
       ELSE Goto("fix") /\ UNCHANGED try
    /\ UNCHANGED <<now, due, feed, hk, why, machine, results>>

Bug_Found(w) == market' = w /\ UNCHANGED strike
(* A new market: the strike of the last one is forgotten.                   *)
Found(w) == market' = w /\ strike' = None

(* A market that is over by the time it is known is as good as none.        *)
FetchMarket ==
    /\ pc = "market"
    /\ \/ /\ try.w \in Windows /\ End(try.w) > now
          /\ Found(try.w)
          /\ Goto("fix") /\ try' = NoTry
       \/ Goto("market_next") /\ UNCHANGED <<market, strike, try>>
    /\ UNCHANGED <<now, due, feed, hk, why, guard, pos, last_played, wall, results>>

(* ... then the market of the next window is asked for.                     *)
FetchNext ==
    /\ pc = "market_next"
    /\ \/ /\ try.w + 1 \in Windows /\ End(try.w + 1) > now
          /\ Found(try.w + 1)
       \/ UNCHANGED <<market, strike>>
    /\ Goto("fix") /\ try' = NoTry
    /\ UNCHANGED <<now, due, feed, hk, why, guard, pos, last_played, wall, results>>

(* 3. The strike exists once the window has started.                        *)
StrikeCheck ==
    /\ pc = "fix"
    /\ IF strike = None /\ market # None /\ now >= Start(market)
       THEN Goto("strike") ELSE Goto("enter")
    /\ UNCHANGED <<now, due, feed, hk, try, why, machine, results>>

FixStrike ==
    /\ pc = "strike"
    /\ strike' \in {market, None}
    /\ Goto("enter")
    /\ UNCHANGED <<now, due, feed, hk, try, why, guard, market, pos, last_played, wall, results>>

Bug_MayEnter ==
    /\ market # None /\ strike # None
    /\ End(market) - now \in MinRemaining .. MaxRemaining
    /\ Fresh(guard, now, GuardMaxAge)
    /\ ~guard.kill
(* 4. try_enter(): what must hold before any book is read.                  *)
MayEnter ==
    /\ market # None /\ strike # None
    /\ market # last_played
    /\ End(market) - now \in MinRemaining .. MaxRemaining
    /\ Fresh(guard, now, GuardMaxAge)
    /\ ~guard.kill

Bug_TryEnter ==
    /\ pc = "enter"
    /\ IF MayEnter
       THEN /\ Goto("ask")
            /\ try' = [w |-> market, dir |-> 1, z |-> guard.z, decided |-> now]
       ELSE Goto("idle") /\ UNCHANGED try
    /\ UNCHANGED <<now, due, feed, hk, why, machine, results>>
(* Only the phase stands between a position left from the last window and   *)
(* an entry into this one.                                                  *)
TryEnter ==
    /\ pc = "enter"
    /\ IF ~InPosition /\ MayEnter
       THEN /\ Goto("ask")
            /\ try' = [w |-> market, dir |-> 1, z |-> guard.z, decided |-> now]
       ELSE Goto("idle") /\ UNCHANGED try
    /\ UNCHANGED <<now, due, feed, hk, why, machine, results>>

(* The second side is tried after the first; then the pass is over.         *)
NextSide ==
    IF try.dir = 1
    THEN Goto("ask") /\ try' = [try EXCEPT !.dir = -1]
    ELSE Goto("idle") /\ try' = NoTry

(* The ask must be in the band and the margin, read before it, confirm it.  *)
ReadAsk ==
    /\ pc = "ask"
    /\ \/ try.z * try.dir >= ZEntry /\ Goto("buy") /\ UNCHANGED try
       \/ NextSide
    /\ UNCHANGED <<now, due, feed, hk, why, machine, results>>

Buy ==
    /\ pc = "buy"
    /\ \/ /\ pos' = [w |-> try.w, dir |-> try.dir, ride |-> FALSE,
                     decided |-> try.decided, opened |-> now]
          /\ last_played' = try.w
          /\ Goto("idle") /\ try' = NoTry
       \/ NextSide /\ UNCHANGED <<pos, last_played>>
    /\ UNCHANGED <<now, due, feed, hk, why, guard, market, strike, wall, results>>

-----------------------------------------------------------------------------
CheckExits == HandleTick \/ ExitBook \/ Recovery \/ ExitSale
Housekeeping == \/ Housekeep \/ Resolve \/ StaleCheck \/ StaleSale
                \/ Measure \/ WallRead \/ SecureCheck \/ SecureBook \/ SecureSale
                \/ Rollover \/ FetchMarket \/ FetchNext \/ StrikeCheck \/ FixStrike
                \/ TryEnter \/ ReadAsk \/ Buy
Next == Advance \/ FeedTick \/ CheckExits \/ Housekeeping

Spec == Init /\ [][Next]_vars

(* The clock runs and the loop serves whichever branch of its select! is    *)
(* ready: the tokio runtime polls it fairly and every request times out.    *)
Fairness ==
    /\ WF_vars(Advance)
    /\ WF_vars(HandleTick) /\ WF_vars(ExitBook) /\ WF_vars(Recovery) /\ WF_vars(ExitSale)
    /\ WF_vars(Housekeeping)
    /\ SF_vars(Housekeep)

FairSpec == Spec /\ Fairness

-----------------------------------------------------------------------------
Moments == 0 .. MaxTime
Ticks   == [ts : Moments \cup {None}, z : Int, kill : BOOLEAN]
Tries   == [w : Nat \cup {None}, dir : {-1, 0, 1}, z : Int, decided : Moments]
Positions == [w : Windows \cup {None}, dir : {-1, 0, 1}, ride : BOOLEAN,
              decided : Moments, opened : Moments]

(* The types; an exit under way has a position to sell, and an entry under  *)
(* way none that it would overwrite: one left from the last window, still   *)
(* unresolved, keeps the loop out of this one (matches!(Phase::Scanning)).  *)
TypeOK ==
    /\ now \in Moments /\ due \in BOOLEAN
    /\ tick \in Ticks /\ unseen \in BOOLEAN /\ guard \in Ticks
    /\ pc \in Awaits \cup Stages /\ since \in Moments /\ hk \in Moments
    /\ try \in Tries
    /\ why \in {"none", "radar_kill", "z_floor", "guard_stale"}
    /\ {market, strike, last_played} \subseteq Windows \cup {None}
    /\ pos \in Positions
    /\ why # "none" => pc \in {"exit_book", "recovery", "exit_sale", "stale_sale"} /\ InPosition
    /\ pc \in {"ask", "buy"} => ~InPosition
    /\ wall \in Moments \cup {None}
    /\ results \in [Windows -> Outcomes \cup {Unplayed}]

(* The strike a position is judged by is its own window's: no rollover,     *)
(* however the requests fail or linger, lets a strike outlive its market,   *)
(* nor an entry be decided on one and made on the other.                    *)
StrikeOfMarket ==
    /\ strike \in {None, market}
    /\ pc \in {"ask", "buy"} => try.w = strike

(* The machine keeps the promise of OneBet.tla: one position at a time, at  *)
(* most one a window, in order, each settled once and in the end.           *)
Bet == INSTANCE OneBet WITH bet <- pos.w
OneBetSpec == Bet!Spec
OneBetSafe == Bet!Safe

(* The point of no return is one: a position that rides is settled by its   *)
(* resolution only, whichever of the three sales looks at it next.          *)
RideIsFinal ==
    [][pos.ride /\ pos' # pos =>
         pos' = NoPos /\ results'[pos.w] = "resolved"]_vars

(* No position outlives its window by more than the fallback's delay and    *)
(* the requests two passes of housekeeping() can lose meanwhile.            *)
ResolvedInTime ==
    InPosition => now < End(pos.w) + ProxyDelay + 6 * MaxAwait

(* However slow the books and the order, a position opens in its window's   *)
(* playing time, or at most four requests after it; a sale decided before   *)
(* the end is over three requests after it, the securing one less than four *)
(* requests after the last moment it may be thought of.                     *)
EntryAndSaleInTime ==
    [][/\ pos = NoPos /\ pos' # NoPos =>
            /\ now >= End(pos'.w) - MaxRemaining
            /\ now <= End(pos'.w) - MinRemaining + 4 * MaxAwait
       /\ pos # NoPos /\ pos' = NoPos /\ results'[pos.w] = "sold" =>
            now < IF pc = "secure_sale"
                  THEN End(pos.w) - SecureMin + 4 * MaxAwait
                  ELSE End(pos.w) + 3 * MaxAwait]_vars

(* A position whose feed died (no tick for GuardStaleExit, none since) is   *)
(* put up for sale before its window ends, if there is time left for what   *)
(* the loop may be at: the pass under way, then a tick's three requests.    *)
Blind(w) ==
    LET requests == IF SecureLast > 0 THEN 6 ELSE 4
    IN  /\ pos.w = w /\ ~pos.ride
        /\ now - tick.ts > GuardStaleExit
        /\ now + 1 + requests * MaxAwait < End(w)
BlindIsSold ==
    \A w \in Windows :
        Blind(w) ~> \/ pc = "stale_sale" \/ results[w] = "sold"
                    \/ pos.w = w /\ (pos.ride \/ now - tick.ts <= GuardStaleExit)

=============================================================================
