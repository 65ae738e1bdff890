------------------------- MODULE WindowCycleProofs --------------------------
(***************************************************************************)
(* What WindowCycle.tla keeps for every value of its constants: the types, *)
(* the promise of OneBet.tla, the strike of the market, and that a         *)
(* position left to ride stays until its resolution; then, from what the   *)
(* timeouts of the requests are, that windows are resolved, entered and    *)
(* sold in time.                                                           *)
(***************************************************************************)
EXTENDS WindowCycle, TLAPS

Selling == {"stale_sale", "secure_book", "secure_sale", "exit_book", "recovery", "exit_sale"}
Buying  == {"ask", "buy"}

(* The position is that of the last window played, which has no result yet. *)
PositionOK ==
    /\ pos.w = None => pos = NoPos
    /\ pos.w # None => pos.w = last_played /\ results[pos.w] = Unplayed

(* A handler that sells has a position to sell, one that does not ride;     *)
(* one that buys has none, and buys in the market it has the strike of.     *)
HandlerOK ==
    /\ pc \in Selling \cup {"kline"} => InPosition
    /\ pc \in Selling => ~pos.ride
    /\ pc \in Buying => /\ pos = NoPos
                        /\ try.w # None /\ try.w = market /\ try.w = strike
                        /\ market # last_played

(* Markets come in order, and no window after the last one played has a     *)
(* result.                                                                  *)
OrderOK ==
    /\ last_played <= market
    /\ \A v \in Windows : results[v] # Unplayed => v <= last_played
    /\ pc \in {"market", "market_next"} => market < try.w

StrikeOK == strike \in {None, market}

(* The inductive invariant of the machine.                                  *)
IInv == TypeOK /\ PositionOK /\ HandlerOK /\ OrderOK /\ StrikeOK

-----------------------------------------------------------------------------
(* What the proofs use of the constants.                                    *)
LEMMA Constants ==
    /\ {MinRemaining, MaxRemaining, ResolveDelay, ProxyDelay, SecureMin} \subseteq Nat
    /\ {SecureLast, MaxTime, MaxAwait, LastWindow} \subseteq Nat
    /\ WindowLen \in Nat /\ WindowLen > 0
    /\ \A s \in Signals : s.z \in Int /\ s.kill \in BOOLEAN
BY WindowCycleAssumption

(* Where a handler goes next.                                               *)
LEMMA GotoType ==
    ASSUME NEW p \in Awaits \cup Stages, now \in Moments, Goto(p)
    PROVE  pc' = p /\ pc' \in Awaits \cup Stages /\ since' \in Moments
BY WindowCycleAssumption DEF Goto, Moments

(* A settlement, or none.                                                   *)
LEMMA SettledType ==
    ASSUME TypeOK, NEW o \in Outcomes, Settled(o) \/ UNCHANGED <<pos, results>>
    PROVE  /\ pos' \in Positions
           /\ results' \in [Windows -> Outcomes \cup {Unplayed}]
<1>1. CASE Settled(o)
  <2>1. pos' \in Positions
    BY <1>1, Constants DEF Settled, NoPos, Positions, Moments
  <2>2. results' \in [Windows -> Outcomes \cup {Unplayed}]
    BY <1>1 DEF Settled, TypeOK
  <2>. QED
    BY <2>1, <2>2
<1>. QED
  BY <1>1 DEF TypeOK

(* What the parts of the invariant compare are numbers.                     *)
LEMMA Numbers ==
    ASSUME TypeOK
    PROVE  /\ now \in Nat /\ None \in Int /\ None < 0
           /\ pos.w \in Int /\ try.w \in Int
           /\ market \in Int /\ strike \in Int /\ last_played \in Int
           /\ None <= market /\ None <= strike /\ None <= last_played
           /\ Windows \subseteq Nat
<1>1. now \in Nat /\ None \in Int /\ None < 0 /\ Windows \subseteq Nat
  BY Constants DEF TypeOK, Moments, Windows, None
<1>2. \A w \in Windows \cup {None} : w \in Int /\ None <= w
  BY <1>1
<1>3. /\ pos.w \in Windows \cup {None} /\ try.w \in Nat \cup {None}
      /\ market \in Windows \cup {None} /\ strike \in Windows \cup {None}
      /\ last_played \in Windows \cup {None}
  BY DEF TypeOK, Positions, Tries
<1>4. try.w \in Int
  BY <1>1, <1>3
<1>. QED
  BY <1>1, <1>2, <1>3, <1>4

(* No position is of no window.                                             *)
LEMMA NoPosIsNone == NoPos.w = None /\ None \notin Windows /\ NoPos.ride = FALSE
BY Constants DEF NoPos, None, Windows

(* A settlement leaves no position, and a result for the last window played.*)
LEMMA SettledPosition ==
    ASSUME IInv, InPosition, NEW o \in Outcomes, Settled(o) \/ UNCHANGED <<pos, results>>,
           UNCHANGED last_played
    PROVE  /\ PositionOK'
           /\ \A v \in Windows : results'[v] # Unplayed => v <= last_played'
<1>1. CASE UNCHANGED <<pos, results>>
  BY <1>1 DEF IInv, PositionOK, OrderOK
<1>2. CASE Settled(o)
  <2>1. pos.w = last_played /\ pos.w \in Windows
    BY DEF IInv, PositionOK, InPosition, TypeOK, Positions
  <2>2. PositionOK'
    BY <1>2, NoPosIsNone DEF PositionOK, Settled
  <2>3. ASSUME NEW v \in Windows, results'[v] # Unplayed PROVE v <= last_played'
    <3>1. CASE v = pos.w
      BY <2>1, <3>1, Numbers DEF IInv
    <3>2. CASE v # pos.w
      <4>1. results'[v] = results[v]
        BY <1>2, <3>2 DEF Settled, IInv, TypeOK
      <4>. QED
        BY <2>3, <4>1 DEF IInv, OrderOK
    <3>. QED
      BY <3>1, <3>2
  <2>. QED
    BY <2>2, <2>3
<1>. QED
  BY <1>1, <1>2

(* The steps that settle, and the one that opens; no other touches the      *)
(* position, the last window played or the results but ExitBook, which lets *)
(* it ride.                                                                 *)
Settling == ExitSale \/ Resolve \/ StaleSale \/ SecureSale

(* They settle a position there is, or leave it, and touch nothing else.    *)
LEMMA SettlingIs ==
    ASSUME IInv, Settling
    PROVE  /\ InPosition
           /\ \E o \in Outcomes : Settled(o) \/ UNCHANGED <<pos, results>>
           /\ UNCHANGED <<last_played, market, strike, now, try>>
<1>1. InPosition
  BY DEF Settling, IInv, HandlerOK, Selling, ExitSale, Resolve, StaleSale, SecureSale
<1>2. \E o \in Outcomes : Settled(o) \/ UNCHANGED <<pos, results>>
  BY DEF Settling, ExitSale, Resolve, StaleSale, SecureSale, Outcomes
<1>3. UNCHANGED <<last_played, market, strike, now, try>>
  BY DEF Settling, ExitSale, Resolve, StaleSale, SecureSale, feed
<1>. QED
  BY <1>1, <1>2, <1>3

(* Any other step but a purchase and an exit's book keeps position and      *)
(* results.                                                                 *)
LEMMA Keeping ==
    ASSUME [Next]_vars, ~Settling, ~Buy, ~ExitBook
    PROVE  UNCHANGED <<pos, last_played, results>>
<1>. USE DEF feed, loop, machine
<1>1. CASE Advance \/ FeedTick \/ HandleTick \/ Recovery
  BY <1>1 DEF Advance, FeedTick, HandleTick, Recovery
<1>2. CASE Housekeep \/ StaleCheck \/ Measure \/ WallRead \/ SecureCheck \/ SecureBook
  BY <1>2 DEF Housekeep, StaleCheck, Measure, WallRead, SecureCheck, SecureBook
<1>3. CASE Rollover \/ FetchMarket \/ FetchNext \/ StrikeCheck \/ FixStrike
  BY <1>3 DEF Rollover, FetchMarket, FetchNext, StrikeCheck, FixStrike
<1>4. CASE TryEnter \/ ReadAsk
  BY <1>4 DEF TryEnter, ReadAsk
<1>5. CASE UNCHANGED vars
  BY <1>5 DEF vars
<1>. QED
  BY <1>1, <1>2, <1>3, <1>4, <1>5 DEF Next, CheckExits, Housekeeping, Settling

(* A purchase, if it is made, opens a position in the window after all those*)
(* played.                                                                  *)
LEMMA BuyOpens ==
    ASSUME IInv, Buy, ~UNCHANGED <<pos, last_played>>
    PROVE  /\ pos = NoPos /\ pos'.w = try.w /\ last_played' = try.w
           /\ try.w \in Windows /\ try.w = market /\ last_played < try.w
           /\ results[try.w] = Unplayed /\ UNCHANGED results
           /\ pos' # NoPos /\ pos'.ride = FALSE
<1>1. /\ pos' = [w |-> try.w, dir |-> try.dir, ride |-> FALSE,
                 decided |-> try.decided, opened |-> now]
      /\ last_played' = try.w
  BY DEF Buy
<1>2. /\ pos = NoPos /\ try.w # None /\ try.w = market /\ market # last_played
  BY DEF Buy, IInv, HandlerOK, Buying
<1>3. try.w \in Windows
  BY <1>2 DEF IInv, TypeOK
<1>4. last_played < try.w
  BY <1>2, Numbers DEF IInv, OrderOK
<1>5. results[try.w] = Unplayed
  BY <1>3, <1>4, Numbers DEF IInv, OrderOK
<1>6. pos' # NoPos
  BY <1>1, <1>2, NoPosIsNone
<1>. QED
  BY <1>1, <1>2, <1>3, <1>4, <1>5, <1>6 DEF Buy

(* The position stays that of the last window played.                       *)
LEMMA NextPositionOK == IInv /\ [Next]_vars => PositionOK'
<1>. SUFFICES ASSUME IInv, [Next]_vars PROVE PositionOK'
  OBVIOUS
<1>1. CASE Settling
  BY <1>1, SettlingIs, SettledPosition
<1>2. CASE Buy
  <2>1. CASE UNCHANGED <<pos, last_played>>
    BY <1>2, <2>1 DEF Buy, IInv, PositionOK
  <2>2. CASE ~UNCHANGED <<pos, last_played>>
    BY <1>2, <2>2, BuyOpens, NoPosIsNone DEF PositionOK
  <2>. QED
    BY <2>1, <2>2
<1>3. CASE ExitBook
  <2>1. pos'.w = pos.w /\ pos.w # None /\ UNCHANGED <<last_played, results>>
    BY <1>3, NoPosIsNone DEF ExitBook, IInv, TypeOK, Positions, HandlerOK, Selling,
       InPosition, PositionOK
  <2>. QED
    BY <2>1 DEF IInv, PositionOK
<1>4. CASE ~Settling /\ ~Buy /\ ~ExitBook
  BY <1>4, Keeping DEF IInv, PositionOK
<1>. QED
  BY <1>1, <1>2, <1>3, <1>4

(* Handlers that sell have a position to sell, and buyers none.             *)
LEMMA NextHandlerOK == IInv /\ [Next]_vars => HandlerOK'
<1>. SUFFICES ASSUME IInv, [Next]_vars PROVE HandlerOK'
  OBVIOUS
<1>. HandlerOK
  BY DEF IInv
<1>. USE DEF feed, loop, machine, HandlerOK, Goto
(* The clock and the feed leave the handler alone.                          *)
<1>1. CASE Advance
  BY <1>1 DEF Advance, InPosition
<1>2. CASE FeedTick
  BY <1>2 DEF FeedTick, InPosition
<1>3. CASE UNCHANGED vars
  BY <1>3 DEF vars, InPosition
(* The steps after which the handler neither sells, resolves nor buys.      *)
<1>4. CASE Settling
  BY <1>4 DEF Settling, ExitSale, Resolve, StaleSale, SecureSale, Selling, Buying
<1>5. CASE Measure \/ WallRead \/ Rollover
  BY <1>5 DEF Measure, WallRead, Rollover, Selling, Buying
<1>6. CASE FetchMarket \/ FetchNext \/ StrikeCheck \/ FixStrike
  BY <1>6 DEF FetchMarket, FetchNext, StrikeCheck, FixStrike, Selling, Buying
(* Those that begin or go on with a sale.                                   *)
<1>7. CASE HandleTick
  <2>1. pc' # "idle" => InPosition /\ ~pos.ride /\ pc' = "exit_book"
    BY <1>7 DEF HandleTick
  <2>2. pc' = "idle" \/ pc' # "idle"
    OBVIOUS
  <2>. QED
    BY <1>7, <2>1, <2>2 DEF HandleTick, InPosition, Selling, Buying
<1>8. CASE ExitBook
  <2>1. InPosition /\ ~pos.ride
    BY <1>8 DEF ExitBook, Selling
  <2>2. CASE pc' = "idle"
    BY <2>2 DEF Selling, Buying
  <2>3. CASE pc' # "idle"
    BY <1>8, <2>1, <2>3 DEF ExitBook, InPosition, Selling, Buying
  <2>. QED
    BY <2>2, <2>3
<1>9. CASE Recovery \/ SecureBook
  BY <1>9 DEF Recovery, SecureBook, InPosition, Selling, Buying
<1>10. CASE Housekeep \/ StaleCheck \/ SecureCheck
  BY <1>10 DEF Housekeep, StaleCheck, SecureCheck, InPosition, Selling, Buying
(* The entry.                                                               *)
<1>11. CASE TryEnter
  <2>1. CASE pc' = "idle"
    BY <2>1 DEF Selling, Buying
  <2>2. CASE pc' # "idle"
    <3>1. /\ pos = NoPos /\ market # None /\ strike # None /\ market # last_played
          /\ try'.w = market /\ pc' = "ask"
      BY <1>11, <2>2 DEF TryEnter, MayEnter, InPosition
    <3>2. strike = market
      BY <3>1 DEF IInv, StrikeOK
    <3>. QED
      BY <1>11, <3>1, <3>2 DEF TryEnter, Selling, Buying
  <2>. QED
    BY <2>1, <2>2
<1>12. CASE ReadAsk
  <2>1. CASE pc' = "idle"
    BY <2>1 DEF Selling, Buying
  <2>2. CASE pc' # "idle"
    <3>1. pc' \in Buying /\ try'.w = try.w
      BY <1>12, <2>2 DEF ReadAsk, NextSide, Buying, IInv, TypeOK, Tries
    <3>. QED
      BY <1>12, <3>1 DEF ReadAsk, Selling, Buying
  <2>. QED
    BY <2>1, <2>2
<1>13. CASE Buy
  <2>1. CASE pc' = "idle"
    BY <2>1 DEF Selling, Buying
  <2>2. CASE pc' # "idle"
    <3>1. pc' \in Buying /\ try'.w = try.w /\ UNCHANGED <<pos, last_played>>
      BY <1>13, <2>2 DEF Buy, NextSide, Buying, IInv, TypeOK, Tries
    <3>. QED
      BY <1>13, <3>1 DEF Buy, Selling, Buying
  <2>. QED
    BY <2>1, <2>2
<1>. QED
  BY <1>1, <1>2, <1>3, <1>4, <1>5, <1>6, <1>7, <1>8, <1>9, <1>10, <1>11, <1>12, <1>13
     DEF Next, CheckExits, Housekeeping, Settling

(* Every step keeps the types.                                              *)
LEMMA NextTypeOK == IInv /\ [Next]_vars => TypeOK'
<1>. SUFFICES ASSUME IInv, [Next]_vars PROVE TypeOK'
  OBVIOUS
<1>. TypeOK
  BY DEF IInv
<1>. DEFINE W == why # "none" =>
                    pc \in {"exit_book", "recovery", "exit_sale", "stale_sale"} /\ InPosition
            M == pc \in Awaits \cup Stages /\ since \in Moments
<1>a. now \in Moments /\ now \in Nat
  BY Constants DEF TypeOK, Moments
<1>b. W
  BY DEF TypeOK
<1>c. pc' \in {"ask", "buy"} => ~InPosition'
  BY NextHandlerOK DEF HandlerOK, Buying, InPosition
<1>. USE <1>c
<1>. USE DEF feed, loop, machine
<1>1. CASE Advance
  <2>1. now' \in Moments
    BY <1>1, <1>a, Constants DEF Moments, Advance
  <2>2. due' \in BOOLEAN
    BY <1>1 DEF Advance
  <2>3. W'
    BY <1>1, <1>b DEF Advance, InPosition
  <2>. QED
    BY <1>1, <2>1, <2>2, <2>3 DEF TypeOK, Advance, Ticks
<1>2. CASE FeedTick
  <2>1. tick' \in Ticks
    BY <1>2, <1>a, Constants DEF FeedTick, Ticks
  <2>2. unseen' \in BOOLEAN
    BY <1>2 DEF FeedTick
  <2>3. W'
    BY <1>2, <1>b DEF FeedTick, InPosition
  <2>. QED
    BY <1>2, <2>1, <2>2, <2>3 DEF TypeOK, FeedTick
<1>3. CASE HandleTick
  <2>1. unseen' \in BOOLEAN
    BY <1>3 DEF HandleTick
  <2>2. M'
    BY <1>3, <1>a, GotoType DEF HandleTick, Awaits, TypeOK
  <2>3. W' /\ why' \in {"none", "radar_kill", "z_floor", "guard_stale"}
    BY <1>3, <1>b DEF HandleTick, Goto, InPosition, Alarm, TypeOK
  <2>. QED
    BY <1>3, <2>1, <2>2, <2>3 DEF TypeOK, HandleTick
<1>4. CASE ExitBook
  <2>1. M'
    BY <1>4, <1>a, GotoType DEF ExitBook, Awaits, Stages
  <2>2. pos' \in Positions
    BY <1>4 DEF ExitBook, TypeOK, Positions
  <2>3. W'
    BY <1>4, <1>b DEF ExitBook, InPosition, Goto
  <2>. QED
    BY <1>4, <2>1, <2>2, <2>3 DEF TypeOK, ExitBook
<1>5. CASE Recovery
  <2>1. M'
    BY <1>5, <1>a, GotoType DEF Recovery, Awaits, Stages
  <2>2. W'
    BY <1>5, <1>b DEF Recovery, InPosition, Goto
  <2>. QED
    BY <1>5, <2>1, <2>2 DEF TypeOK, Recovery
<1>6. CASE ExitSale
  <2>1. M'
    BY <1>6, <1>a, GotoType DEF ExitSale, Stages
  <2>. QED
    BY <1>6, <2>1, SettledType DEF TypeOK, ExitSale, Outcomes
<1>7. CASE Housekeep
  <2>1. M'
    BY <1>7, <1>a, GotoType DEF Housekeep, Awaits, Stages
  <2>2. W'
    BY <1>7, <1>b DEF Housekeep, InPosition
  <2>3. due' \in BOOLEAN
    BY <1>7 DEF Housekeep
  <2>. QED
    BY <1>7, <2>1, <2>2, <2>3 DEF TypeOK, Housekeep
<1>8. CASE Resolve
  <2>1. M'
    BY <1>8, <1>a, GotoType DEF Resolve, Stages
  <2>2. W'
    BY <1>8, <1>b DEF Resolve
  <2>. QED
    BY <1>8, <2>1, <2>2, SettledType DEF TypeOK, Resolve, Outcomes
<1>9. CASE StaleCheck
  <2>1. M'
    BY <1>9, <1>a, GotoType DEF StaleCheck, Awaits, Stages
  <2>2. W' /\ why' \in {"none", "radar_kill", "z_floor", "guard_stale"}
    BY <1>9, <1>b DEF StaleCheck, InPosition, Goto, TypeOK
  <2>. QED
    BY <1>9, <2>1, <2>2 DEF TypeOK, StaleCheck
<1>10. CASE StaleSale
  <2>1. M'
    BY <1>10, <1>a, GotoType DEF StaleSale, Stages
  <2>. QED
    BY <1>10, <2>1, SettledType DEF TypeOK, StaleSale, Outcomes
<1>11. CASE Measure \/ SecureBook \/ StrikeCheck
  <2>1. M'
    BY <1>11, <1>a, GotoType DEF Measure, SecureBook, StrikeCheck, Awaits, Stages
  <2>2. W'
    BY <1>11, <1>b DEF Measure, SecureBook, StrikeCheck
  <2>. QED
    BY <1>11, <2>1, <2>2 DEF TypeOK, Measure, SecureBook, StrikeCheck
<1>12. CASE WallRead
  <2>1. M'
    BY <1>12, <1>a, GotoType DEF WallRead, Stages
  <2>2. W'
    BY <1>12, <1>b DEF WallRead
  <2>3. wall' \in Moments \cup {None}
    BY <1>12 DEF WallRead, TypeOK
  <2>. QED
    BY <1>12, <2>1, <2>2, <2>3 DEF TypeOK, WallRead
<1>13. CASE SecureCheck
  <2>1. M'
    BY <1>13, <1>a, GotoType DEF SecureCheck, Awaits, Stages
  <2>2. W'
    BY <1>13, <1>b DEF SecureCheck
  <2>3. hk' \in Moments
    BY <1>13, Constants DEF SecureCheck, Moments
  <2>. QED
    BY <1>13, <2>1, <2>2, <2>3 DEF TypeOK, SecureCheck
<1>14. CASE SecureSale
  <2>1. M'
    BY <1>14, <1>a, GotoType DEF SecureSale, Stages
  <2>2. W'
    BY <1>14, <1>b DEF SecureSale
  <2>. QED
    BY <1>14, <2>1, <2>2, SettledType DEF TypeOK, SecureSale, Outcomes
<1>15. CASE Rollover
  <2>1. M'
    BY <1>15, <1>a, GotoType DEF Rollover, Awaits, Stages
  <2>2. W'
    BY <1>15, <1>b DEF Rollover
  <2>3. try' \in Tries
    <3>1. now \div WindowLen \in Nat
      BY <1>a, Constants
    <3>. QED
      BY <1>15, <3>1, Constants DEF Rollover, NoTry, TypeOK, Tries, Moments
  <2>. QED
    BY <1>15, <2>1, <2>2, <2>3 DEF TypeOK, Rollover
<1>16. CASE FetchMarket \/ FetchNext
  <2>1. M'
    BY <1>16, <1>a, GotoType DEF FetchMarket, FetchNext, Awaits, Stages
  <2>2. W'
    BY <1>16, <1>b DEF FetchMarket, FetchNext
  <2>3. try' \in Tries
    BY <1>16, Constants DEF FetchMarket, FetchNext, NoTry, TypeOK, Tries, Moments
  <2>4. {market', strike'} \subseteq Windows \cup {None}
    BY <1>16 DEF FetchMarket, FetchNext, Found, TypeOK
  <2>. QED
    BY <1>16, <2>1, <2>2, <2>3, <2>4 DEF TypeOK, FetchMarket, FetchNext
<1>17. CASE FixStrike
  <2>1. M'
    BY <1>17, <1>a, GotoType DEF FixStrike, Stages
  <2>2. W'
    BY <1>17, <1>b DEF FixStrike
  <2>. QED
    BY <1>17, <2>1, <2>2 DEF TypeOK, FixStrike
<1>18. CASE TryEnter
  <2>1. M'
    BY <1>18, <1>a, GotoType DEF TryEnter, Awaits, Stages
  <2>2. W'
    BY <1>18, <1>b DEF TryEnter
  <2>3. try' \in Tries
    BY <1>18, Constants DEF TryEnter, TypeOK, MayEnter, Windows, Ticks, Tries
  <2>. QED
    BY <1>18, <2>1, <2>2, <2>3 DEF TypeOK, TryEnter
<1>19. CASE ReadAsk
  <2>1. M'
    BY <1>19, <1>a, GotoType DEF ReadAsk, NextSide, Awaits, Stages
  <2>2. W'
    BY <1>19, <1>b DEF ReadAsk
  <2>3. try' \in Tries
    BY <1>19, Constants DEF ReadAsk, NextSide, NoTry, TypeOK, Tries, Moments
  <2>. QED
    BY <1>19, <2>1, <2>2, <2>3 DEF TypeOK, ReadAsk
<1>20. CASE Buy
  <2>1. M'
    BY <1>20, <1>a, GotoType DEF Buy, NextSide, Awaits, Stages
  <2>2. W'
    BY <1>20, <1>b DEF Buy
  <2>3. try' \in Tries
    BY <1>20, Constants DEF Buy, NextSide, NoTry, TypeOK, Tries, Moments
  <2>4. pos' \in Positions /\ last_played' \in Windows \cup {None}
    <3>1. CASE UNCHANGED <<pos, last_played>>
      BY <3>1 DEF TypeOK
    <3>2. CASE /\ pos' = [w |-> try.w, dir |-> try.dir, ride |-> FALSE,
                          decided |-> try.decided, opened |-> now]
               /\ last_played' = try.w
      <4>1. try.w \in Windows \cup {None}
        BY <1>20 DEF IInv, HandlerOK, Buying, Buy, TypeOK
      <4>2. try.dir \in {-1, 0, 1} /\ try.decided \in Moments
        BY DEF TypeOK, Tries
      <4>. QED
        BY <3>2, <4>1, <4>2, <1>a DEF Positions
    <3>. QED
      BY <1>20, <3>1, <3>2 DEF Buy
  <2>. QED
    BY <1>20, <2>1, <2>2, <2>3, <2>4 DEF TypeOK, Buy
<1>21. CASE UNCHANGED vars
  BY <1>21 DEF vars, TypeOK, InPosition, Ticks
<1>. QED
  BY <1>1, <1>2, <1>3, <1>4, <1>5, <1>6, <1>7, <1>8, <1>9, <1>10, <1>11, <1>12,
     <1>13, <1>14, <1>15, <1>16, <1>17, <1>18, <1>19, <1>20, <1>21
     DEF Next, CheckExits, Housekeeping

(* Windows end in their order.                                              *)
LEMMA EndsGrow ==
    ASSUME NEW v \in Int, NEW w \in Int, End(w) > End(v)
    PROVE  w > v
<1>1. \A a, b \in Int, n \in Nat : a <= b => (a + 1) * n <= (b + 1) * n
  OBVIOUS
<1>. QED
  BY <1>1, Constants DEF End

(* The current window is after every one that is over.                      *)
LEMMA CurrentIsAfter ==
    ASSUME NEW t \in Nat, NEW v \in Int, End(v) <= t
    PROVE  t \div WindowLen \in Nat /\ v < t \div WindowLen
<1>. DEFINE q == t \div WindowLen
<1>1. q \in Nat /\ t < (q + 1) * WindowLen
  BY Constants
<1>2. End(v) < End(q) /\ End(v) \in Int
  BY <1>1, Constants DEF End
<1>. QED
  BY <1>1, <1>2, EndsGrow

(* Only the search for a market and the fix of its strike change them.      *)
LEMMA MarketStays ==
    ASSUME [Next]_vars, ~FetchMarket, ~FetchNext, ~FixStrike
    PROVE  UNCHANGED <<market, strike>>
<1>. USE DEF feed, loop, machine
<1>1. CASE Advance \/ FeedTick \/ CheckExits
  BY <1>1 DEF Advance, FeedTick, CheckExits, HandleTick, ExitBook, Recovery, ExitSale
<1>2. CASE Housekeep \/ Resolve \/ StaleCheck \/ StaleSale \/ Measure \/ WallRead
  BY <1>2 DEF Housekeep, Resolve, StaleCheck, StaleSale, Measure, WallRead
<1>3. CASE SecureCheck \/ SecureBook \/ SecureSale \/ Rollover \/ StrikeCheck
  BY <1>3 DEF SecureCheck, SecureBook, SecureSale, Rollover, StrikeCheck
<1>4. CASE TryEnter \/ ReadAsk \/ Buy
  BY <1>4 DEF TryEnter, ReadAsk, Buy
<1>5. CASE UNCHANGED vars
  BY <1>5 DEF vars
<1>. QED
  BY <1>1, <1>2, <1>3, <1>4, <1>5 DEF Next, Housekeeping

(* Only the rollover starts the search for a market.                        *)
LEMMA SearchStays ==
    ASSUME [Next]_vars, ~Rollover, ~FetchMarket, pc' \in {"market", "market_next"}
    PROVE  UNCHANGED <<pc, market, try>>
<1>. USE DEF feed, loop, machine, Goto
<1>1. CASE Advance \/ FeedTick \/ UNCHANGED vars
  BY <1>1 DEF Advance, FeedTick, vars
<1>2. CASE CheckExits
  BY <1>2 DEF CheckExits, HandleTick, ExitBook, Recovery, ExitSale
<1>3. CASE Housekeep \/ Resolve \/ StaleCheck \/ StaleSale \/ Measure \/ WallRead
  BY <1>3 DEF Housekeep, Resolve, StaleCheck, StaleSale, Measure, WallRead
<1>4. CASE SecureCheck \/ SecureBook \/ SecureSale \/ FetchNext \/ StrikeCheck \/ FixStrike
  BY <1>4 DEF SecureCheck, SecureBook, SecureSale, FetchNext, StrikeCheck, FixStrike
<1>5. CASE TryEnter \/ ReadAsk \/ Buy
  BY <1>5 DEF TryEnter, ReadAsk, Buy, NextSide
<1>. QED
  BY <1>1, <1>2, <1>3, <1>4, <1>5 DEF Next, Housekeeping

(* A strike is that of the market.                                          *)
LEMMA NextStrikeOK == IInv /\ [Next]_vars => StrikeOK'
<1>. SUFFICES ASSUME IInv, [Next]_vars PROVE StrikeOK'
  OBVIOUS
<1>. StrikeOK
  BY DEF IInv
<1>1. CASE FetchMarket \/ FetchNext
  BY <1>1 DEF FetchMarket, FetchNext, Found, StrikeOK
<1>2. CASE FixStrike
  BY <1>2 DEF FixStrike, StrikeOK
<1>3. CASE UNCHANGED <<market, strike>>
  BY <1>3 DEF StrikeOK
<1>. QED
  BY <1>1, <1>2, <1>3, MarketStays

(* Markets and results come in order.                                       *)
LEMMA NextOrderOK == IInv /\ [Next]_vars => OrderOK'
<1>. SUFFICES ASSUME IInv, [Next]_vars PROVE OrderOK'
  OBVIOUS
<1>. TypeOK /\ OrderOK
  BY DEF IInv
<1>1. last_played' <= market'
  <2>1. CASE Buy
    <3>1. UNCHANGED market
      BY <2>1 DEF Buy
    <3>2. CASE UNCHANGED last_played
      BY <3>1, <3>2 DEF OrderOK
    <3>3. CASE ~UNCHANGED last_played
      <4>1. last_played' = market
        BY <2>1, <3>3, BuyOpens
      <4>. QED
        BY <3>1, <4>1, Numbers
    <3>. QED
      BY <3>2, <3>3
  <2>2. CASE FetchMarket \/ FetchNext
    <3>1. UNCHANGED last_played
      BY <2>2 DEF FetchMarket, FetchNext
    <3>2. market' \in {market, try.w, try.w + 1}
      BY <2>2 DEF FetchMarket, FetchNext, Found
    <3>3. market < try.w /\ last_played <= market
      BY <2>2 DEF FetchMarket, FetchNext, OrderOK
    <3>. QED
      BY <3>1, <3>2, <3>3, Numbers
  <2>3. CASE UNCHANGED <<last_played, market>>
    BY <2>3 DEF OrderOK
  <2>. QED
    <3>1. CASE Settling
      BY <2>3, <3>1, SettlingIs
    <3>2. CASE ExitBook
      BY <2>3, <3>2 DEF ExitBook
    <3>3. CASE FixStrike
      BY <2>3, <3>3 DEF FixStrike
    <3>. QED
      BY <2>1, <2>2, <2>3, <3>1, <3>2, <3>3, MarketStays, Keeping
<1>2. \A v \in Windows : results'[v] # Unplayed => v <= last_played'
  <2>1. CASE Settling
    BY <2>1, SettlingIs, SettledPosition
  <2>2. CASE Buy
    <3>1. CASE UNCHANGED last_played
      BY <2>2, <3>1 DEF Buy, OrderOK
    <3>2. CASE ~UNCHANGED last_played
      <4>1. last_played < try.w /\ last_played' = try.w /\ UNCHANGED results
        BY <2>2, <3>2, BuyOpens
      <4>2. ASSUME NEW v \in Windows, results[v] # Unplayed
            PROVE  v <= try.w
        BY <4>1, <4>2, Numbers DEF OrderOK
      <4>. QED
        BY <4>1, <4>2
    <3>. QED
      BY <3>1, <3>2
  <2>3. CASE ExitBook
    BY <2>3 DEF ExitBook, OrderOK
  <2>. QED
    BY <2>1, <2>2, <2>3, Keeping DEF OrderOK
<1>3. pc' \in {"market", "market_next"} => market' < try'.w
  <2>1. CASE Rollover
    <3>1. pc' = "market" => /\ market = None \/ End(market) <= now
                            /\ try'.w = now \div WindowLen
      BY <2>1 DEF Rollover, NoTry, Goto
    <3>2. CASE pc' = "market" /\ market = None
      BY <2>1, <3>1, <3>2, Numbers, Constants DEF Rollover, machine
    <3>3. CASE pc' = "market" /\ End(market) <= now
      BY <2>1, <3>1, <3>3, Numbers, CurrentIsAfter DEF Rollover, machine
    <3>. QED
      BY <2>1, <3>1, <3>2, <3>3 DEF Rollover, Goto
  <2>2. CASE FetchMarket
    BY <2>2 DEF FetchMarket, Goto, OrderOK
  <2>3. CASE UNCHANGED <<pc, market, try>>
    BY <2>3 DEF OrderOK
  <2>. QED
    BY <2>1, <2>2, <2>3, SearchStays
<1>. QED
  BY <1>1, <1>2, <1>3 DEF OrderOK

(* The loop begins with no position, no market and nothing played.          *)
LEMMA InitIInv == Init => IInv
<1>. SUFFICES ASSUME Init PROVE IInv
  OBVIOUS
<1>1. TypeOK
  <2>1. /\ now \in Moments /\ since \in Moments /\ hk \in Moments /\ try \in Tries
        /\ pos \in Positions
    BY Constants DEF Init, Moments, Tries, Positions, NoTry, NoPos
  <2>2. tick \in Ticks /\ guard \in Ticks
    BY DEF Init, Ticks, NoTick
  <2>3. due \in BOOLEAN /\ unseen \in BOOLEAN
    BY DEF Init
  <2>. QED
    BY <2>1, <2>2, <2>3 DEF Init, TypeOK, Stages, InPosition
<1>2. PositionOK /\ HandlerOK /\ StrikeOK
  BY NoPosIsNone DEF Init, PositionOK, HandlerOK, StrikeOK, Selling, Buying
<1>3. OrderOK
  BY Constants DEF Init, OrderOK, None
<1>. QED
  BY <1>1, <1>2, <1>3 DEF IInv

(* Every step keeps the invariant ...                                       *)
LEMMA NextIInv == IInv /\ [Next]_vars => IInv'
BY NextTypeOK, NextPositionOK, NextHandlerOK, NextOrderOK, NextStrikeOK DEF IInv

(* ... which holds in every reachable state.                                *)
THEOREM IInvHolds == Spec => []IInv
BY InitIInv, NextIInv, PTL DEF Spec

(* The state of the loop keeps its types whatever the windows, the delays   *)
(* of the configuration and the time the requests take.                     *)
THEOREM TypeCorrect == Spec => []TypeOK
<1>1. IInv => TypeOK
  BY DEF IInv
<1>. QED
  BY <1>1, IInvHolds, PTL

(* The strike is the current market's, and an entry is decided and made on  *)
(* the market the strike was fixed for, through every rollover.             *)
THEOREM StrikeHolds == Spec => []StrikeOfMarket
<1>1. IInv => StrikeOfMarket
  BY DEF IInv, StrikeOK, HandlerOK, Buying, StrikeOfMarket
<1>. QED
  BY <1>1, IInvHolds, PTL

(* A position left to ride is closed by its resolution only: every sale     *)
(* looks at ride before its first request, and no step but the exit's own   *)
(* can set it while a sale is under way.                                    *)
THEOREM RideHolds == Spec => RideIsFinal
<1>1. ASSUME IInv, [Next]_vars, pos.ride, pos' # pos
      PROVE  pos' = NoPos /\ results'[pos.w] = "resolved"
  <2>1. ~Buy
    BY <1>1, NoPosIsNone DEF IInv, HandlerOK, Buying, Buy
  <2>2. ~ExitBook /\ ~ExitSale /\ ~StaleSale /\ ~SecureSale
    BY <1>1 DEF IInv, HandlerOK, Selling, ExitBook, ExitSale, StaleSale, SecureSale
  <2>3. Resolve
    BY <1>1, <2>1, <2>2, Keeping DEF Settling
  <2>4. InPosition
    BY <1>1, <2>3, SettlingIs DEF Settling
  <2>5. pos.w \in Windows /\ results \in [Windows -> Outcomes \cup {Unplayed}]
    BY <1>1, <2>4 DEF IInv, TypeOK, PositionOK, InPosition, Positions
  <2>. QED
    BY <1>1, <2>3, <2>5 DEF Resolve, Settled
<1>2. IInv /\ [Next]_vars => [pos.ride /\ pos' # pos =>
                                pos' = NoPos /\ results'[pos.w] = "resolved"]_vars
  BY <1>1
<1>. QED
  BY <1>2, IInvHolds, PTL DEF Spec, RideIsFinal

-----------------------------------------------------------------------------
(* The machine implements OneBet.tla.                                       *)

(* An order that fills is a bet on a window after all those that were       *)
(* played.                                                                  *)
LEMMA BuyPlaces ==
    ASSUME IInv, Buy
    PROVE  [Bet!Next]_<<pos.w, results>>
<1>1. CASE UNCHANGED <<pos, last_played>>
  BY <1>1 DEF Buy
<1>2. CASE ~UNCHANGED <<pos, last_played>>
  <2>1. /\ pos.w = None /\ pos'.w = try.w /\ try.w \in Windows /\ UNCHANGED results
        /\ last_played < try.w
    BY <1>2, BuyOpens, NoPosIsNone
  <2>2. ASSUME NEW v \in Windows, v >= try.w PROVE results[v] = Unplayed
    BY <2>1, <2>2, Numbers DEF IInv, OrderOK
  <2>3. Bet!Place(try.w)
    BY <2>1, <2>2 DEF Bet!Place
  <2>. QED
    BY <2>1, <2>3 DEF Bet!Next
<1>. QED
  BY <1>1, <1>2

(* A settlement collects the open bet.                                      *)
LEMMA SettlingCollects ==
    ASSUME IInv, Settling
    PROVE  [Bet!Next]_<<pos.w, results>>
<1>1. PICK o \in Outcomes : Settled(o) \/ UNCHANGED <<pos, results>>
  BY SettlingIs
<1>2. CASE UNCHANGED <<pos, results>>
  BY <1>2
<1>3. CASE Settled(o)
  <2>1. pos.w # None /\ results[pos.w] = Unplayed
    BY SettlingIs DEF IInv, PositionOK, InPosition
  <2>2. Bet!Collect(o)
    BY <1>3, <2>1, NoPosIsNone DEF Settled, Bet!Collect
  <2>. QED
    BY <2>2 DEF Bet!Next
<1>. QED
  BY <1>1, <1>2, <1>3

(* One position at a time, at most one a window, in the order of the        *)
(* windows, each settled once: every step of the loop is a bet placed, a    *)
(* bet collected, or neither.                                               *)
THEOREM OneBetHolds == Spec => OneBetSafe
<1>1. Init => Bet!Init
  BY NoPosIsNone DEF Init, Bet!Init
<1>2. IInv /\ [Next]_vars => [Bet!Next]_(Bet!bvars)
  <2>. SUFFICES ASSUME IInv, [Next]_vars PROVE [Bet!Next]_<<pos.w, results>>
    BY DEF Bet!bvars
  <2>1. CASE ExitBook
    <3>1. pos'.w = pos.w /\ UNCHANGED results
      BY <2>1 DEF ExitBook, IInv, TypeOK, Positions
    <3>. QED
      BY <3>1
  <2>. QED
    BY <2>1, Keeping, BuyPlaces, SettlingCollects
<1>. QED
  BY <1>1, <1>2, IInvHolds, PTL DEF Spec, OneBetSafe, Bet!Safe

-----------------------------------------------------------------------------
(* How late the loop can be.  Every bound counts the requests awaited since *)
(* a time that was read: Began is when the handler came to where it is.     *)
Began  == IF pc \in Awaits THEN since ELSE now
Close  == End(pos.w)
OnTime == ~due

AwaitOK == Began <= now /\ now <= Began + MaxAwait

(* A pass of housekeeping(), from the time it read.                         *)
PassOK ==
    /\ pc = "kline" => Began = hk /\ Close <= hk /\ (OnTime => now = hk)
    /\ pc \in {"stale", "measure", "wall"} => hk <= Began /\ Began <= hk + MaxAwait
    /\ pc = "stale" /\ InPosition /\ hk < Close => Began = hk
    /\ pc = "stale_sale" => Began = hk /\ hk < Close
    /\ pc = "secure" => Began <= hk + 2 * MaxAwait

(* The sales, from the check that began them.                               *)
SaleOK ==
    /\ pc = "secure_book" => Began < Close - SecureMin + 2 * MaxAwait
    /\ pc = "secure_sale" => Began < Close - SecureMin + 3 * MaxAwait
    /\ pc = "exit_book" => Began < Close
    /\ pc = "recovery"  => Began < Close + MaxAwait
    /\ pc = "exit_sale" => Began < Close + 2 * MaxAwait

(* A position, wherever the loop is: Overdue(n) is n requests after the     *)
(* fallback may resolve it.                                                 *)
Overdue(n) == Began < Close + ProxyDelay + n * MaxAwait
HeldOK ==
    InPosition =>
      /\ pc \in {"stale", "measure", "wall", "stale_sale"} => Overdue(1)
      /\ pc \in {"secure", "rollover", "market"} => Overdue(2)
      /\ pc = "market_next" => Overdue(3)
      /\ pc \in {"fix", "strike"} => Overdue(4)
      /\ pc \in {"enter", "idle", "kline"} => Overdue(5)

(* A pass that has awaited nothing yet finds no position past its fallback. *)
PromptOK == InPosition /\ OnTime /\ pc # "kline" => now <= Close + ProxyDelay

(* An entry, from its decision.                                             *)
EntryOK ==
    pc \in Buying =>
      /\ End(try.w) - try.decided \in MinRemaining .. MaxRemaining
      /\ try.decided <= Began
      /\ OnTime => now = try.decided
      /\ try.dir = 1 /\ pc = "ask" => Began = try.decided
      /\ try.dir = 1 /\ pc = "buy" => Began <= try.decided + MaxAwait
      /\ pc = "ask" => Began <= try.decided + 2 * MaxAwait
      /\ pc = "buy" => Began <= try.decided + 3 * MaxAwait

TInv == AwaitOK /\ PassOK /\ SaleOK /\ HeldOK /\ PromptOK /\ EntryOK

(* The times, and what is assumed of the delays.                            *)
LEMMA Times ==
    ASSUME TypeOK
    PROVE  /\ now \in Nat /\ since \in Nat /\ hk \in Nat /\ Began \in Nat
           /\ Close \in Int /\ End(try.w) \in Int /\ try.decided \in Nat
           /\ {MaxAwait, MinRemaining, MaxRemaining} \subseteq Nat
           /\ {ResolveDelay, ProxyDelay, SecureMin} \subseteq Nat
           /\ MaxAwait > 0 /\ ResolveDelay <= ProxyDelay
           /\ 2 * MaxAwait <= ProxyDelay + SecureMin
<1>1. now \in Nat /\ since \in Nat /\ hk \in Nat
  BY Constants DEF TypeOK, Moments
<1>2. try.decided \in Nat
  BY Constants DEF TypeOK, Moments, Tries
<1>3. Close \in Int /\ End(try.w) \in Int
  BY Numbers, Constants DEF Close, End
<1>. QED
  BY <1>1, <1>2, <1>3, Constants, TimingAssumption DEF Began

(* A step of a handler takes no time of its own.                            *)
LEMMA Moves ==
    ASSUME since' = IF pc' \in Awaits THEN now ELSE 0, UNCHANGED now
    PROVE  Began' = now
BY DEF Began

(* A position that stays ends when it did.                                  *)
LEMMA SamePosition ==
    ASSUME pos' = pos
    PROVE  Close' = Close /\ (InPosition' <=> InPosition)
BY DEF Close, InPosition, End

(* No request outlasts its timeout.                                         *)
LEMMA NextAwaitOK == IInv /\ TInv /\ [Next]_vars => AwaitOK'
<1>. SUFFICES ASSUME TypeOK, AwaitOK, [Next]_vars PROVE AwaitOK'
  BY DEF IInv, TInv
<1>. USE DEF feed, loop, machine
<1>1. CASE Advance
  <2>1. CASE pc \in Awaits
    BY <1>1, <2>1, Times DEF Advance, AwaitOK, Began, Awaits
  <2>2. CASE pc \notin Awaits
    BY <1>1, <2>2, Times DEF Advance, AwaitOK, Began
  <2>. QED
    BY <2>1, <2>2
<1>2. CASE UNCHANGED <<now, pc, since>>
  BY <1>2 DEF AwaitOK, Began
<1>3. CASE Began' = now /\ now' = now
  BY <1>3, Times DEF AwaitOK
<1>4. CASE FeedTick \/ CheckExits \/ UNCHANGED vars
  BY <1>4, <1>2, <1>3, Moves DEF FeedTick, CheckExits, HandleTick, ExitBook, Recovery,
     ExitSale, vars, Goto
<1>5. CASE Housekeep \/ Resolve \/ StaleCheck \/ StaleSale \/ Measure \/ WallRead
  BY <1>5, <1>3, Moves DEF Housekeep, Resolve, StaleCheck, StaleSale, Measure,
     WallRead, Goto
<1>6. CASE SecureCheck \/ SecureBook \/ SecureSale \/ Rollover
  BY <1>6, <1>3, Moves DEF SecureCheck, SecureBook, SecureSale, Rollover, Goto
<1>7. CASE FetchMarket \/ FetchNext \/ StrikeCheck \/ FixStrike
  BY <1>7, <1>3, Moves DEF FetchMarket, FetchNext, StrikeCheck, FixStrike, Goto
<1>8. CASE TryEnter \/ ReadAsk \/ Buy
  BY <1>8, <1>3, Moves DEF TryEnter, ReadAsk, Buy, NextSide, Goto
<1>. QED
  BY <1>1, <1>4, <1>5, <1>6, <1>7, <1>8 DEF Next, Housekeeping

(* A step of a handler keeps the bounds: the next one is the last one, and  *)
(* the request awaited meanwhile.                                           *)
LEMMA NextTInv == IInv /\ TInv /\ [Next]_vars => TInv'
<1>. SUFFICES ASSUME IInv, TInv, [Next]_vars PROVE TInv'
  OBVIOUS
<1>. TypeOK /\ AwaitOK /\ PassOK /\ SaleOK /\ HeldOK /\ PromptOK /\ EntryOK
  BY DEF IInv, TInv
<1>a. AwaitOK'
  BY NextAwaitOK
<1>. USE DEF feed, loop, machine
<1>1. CASE Advance
  <2>1. CASE pc = "idle"
    <3>1. /\ pc' = "idle" /\ OnTime /\ Began' = now + 1 /\ UNCHANGED pos
      BY <1>1, <2>1 DEF Advance, Began, OnTime, Awaits
    <3>2. HeldOK'
      BY <1>1, <2>1, <3>1, Times, SamePosition DEF HeldOK, PromptOK, Overdue, Advance
    <3>3. ~OnTime'
      BY <1>1 DEF Advance, OnTime
    <3>. QED
      BY <1>a, <3>1, <3>2, <3>3 DEF TInv, PromptOK, PassOK, SaleOK, EntryOK, Buying
  <2>2. CASE pc \in Awaits
    <3>1. UNCHANGED <<pc, hk, try, Began, pos>> /\ ~OnTime'
      BY <1>1, <2>2 DEF Advance, Began, OnTime
    <3>2. PassOK' /\ SaleOK'
      BY <2>2, <3>1, SamePosition DEF PassOK, SaleOK, Awaits
    <3>3. HeldOK'
      BY <2>2, <3>1, SamePosition DEF HeldOK, Overdue, Awaits
    <3>4. EntryOK'
      BY <2>2, <3>1 DEF EntryOK, Buying, Awaits, End
    <3>. QED
      BY <1>a, <3>1, <3>2, <3>3, <3>4 DEF TInv, PromptOK
  <2>. QED
    BY <1>1, <2>1, <2>2 DEF Advance
<1>2. CASE FeedTick \/ UNCHANGED vars
  <2>1. UNCHANGED <<pc, hk, now, due, try, Began, pos>>
    BY <1>2 DEF FeedTick, vars, Began
  <2>2. OnTime' => OnTime
    BY <2>1 DEF OnTime
  <2>3. PassOK' /\ SaleOK'
    BY <2>1, <2>2, SamePosition DEF PassOK, SaleOK
  <2>4. HeldOK'
    BY <2>1, <2>2, SamePosition DEF HeldOK, Overdue
  <2>6. PromptOK'
    BY <2>1, <2>2, SamePosition DEF PromptOK
  <2>5. EntryOK'
    BY <2>1, <2>2 DEF EntryOK, Buying, End
  <2>. QED
    BY <1>a, <2>3, <2>4, <2>5, <2>6 DEF TInv
<1>3. CASE HandleTick
  <2>1. /\ pc = "idle" /\ Began = now /\ pc' \in {"idle", "exit_book"} /\ UNCHANGED <<now, hk, pos>>
        /\ pc' = "exit_book" => now < Close
    BY <1>3 DEF HandleTick, Began, Awaits, Close, Goto
  <2>2. Began' = now
    BY <1>3, Moves DEF HandleTick, Began, Awaits, Goto
  <2>3. OnTime' => OnTime
    BY <1>3 DEF HandleTick, OnTime
  <2>4. PassOK'
    BY <2>1 DEF PassOK
  <2>5. SaleOK'
    BY <2>1, <2>2, Times, SamePosition DEF SaleOK, AwaitOK
  <2>6. HeldOK'
    BY <2>1, <2>2, Times, SamePosition DEF HeldOK, AwaitOK, Overdue
  <2>7. PromptOK'
    BY <2>1, <2>3, SamePosition DEF PromptOK
  <2>8. EntryOK'
    BY <2>1 DEF EntryOK, Buying, End
  <2>. QED
    BY <1>a, <2>4, <2>5, <2>6, <2>7, <2>8 DEF TInv
<1>4. CASE ExitBook
  <2>1. /\ pc = "exit_book" /\ pc' \in {"idle", "exit_sale", "recovery"}
        /\ UNCHANGED <<now, hk>> /\ pos'.w = pos.w /\ Close' = Close /\ InPosition
    BY <1>4 DEF ExitBook, Close, End, InPosition, TypeOK, Positions, IInv,
       HandlerOK, Selling, Goto
  <2>2. Began' = now
    BY <1>4, Moves DEF ExitBook, Goto
  <2>3. OnTime' => OnTime
    BY <1>4 DEF ExitBook, OnTime
  <2>4. PassOK'
    BY <2>1 DEF PassOK
  <2>5. SaleOK'
    BY <2>1, <2>2, Times DEF SaleOK, AwaitOK
  <2>6. HeldOK'
    BY <2>1, <2>2, Times DEF HeldOK, AwaitOK, Overdue, SaleOK
  <2>7. PromptOK'
    BY <2>1, <2>3, SamePosition DEF PromptOK
  <2>8. EntryOK'
    BY <2>1 DEF EntryOK, Buying, End
  <2>. QED
    BY <1>a, <2>4, <2>5, <2>6, <2>7, <2>8 DEF TInv
<1>5. CASE Recovery
  <2>1. /\ pc = "recovery" /\ pc' \in {"idle", "exit_sale"}
        /\ UNCHANGED <<now, hk, pos>> /\ InPosition
    BY <1>5 DEF Recovery, IInv, HandlerOK, Selling, Goto
  <2>2. Began' = now
    BY <1>5, Moves DEF Recovery, Goto
  <2>3. OnTime' => OnTime
    BY <1>5 DEF Recovery, OnTime
  <2>4. PassOK'
    BY <2>1 DEF PassOK
  <2>5. SaleOK'
    BY <2>1, <2>2, Times, SamePosition DEF SaleOK, AwaitOK
  <2>6. HeldOK'
    BY <2>1, <2>2, Times, SamePosition DEF HeldOK, AwaitOK, Overdue, SaleOK
  <2>7. PromptOK'
    BY <2>1, <2>3, SamePosition DEF PromptOK
  <2>8. EntryOK'
    BY <2>1 DEF EntryOK, Buying, End
  <2>. QED
    BY <1>a, <2>4, <2>5, <2>6, <2>7, <2>8 DEF TInv
<1>6. CASE ExitSale
  <2>1. /\ pc = "exit_sale" /\ pc' = "idle" /\ UNCHANGED <<now, hk>>
        /\ InPosition /\ (~InPosition' \/ UNCHANGED pos)
    BY <1>6 DEF ExitSale, Settled, InPosition, IInv, HandlerOK, Selling, Goto
  <2>2. Began' = now
    BY <1>6, Moves DEF ExitSale, Goto
  <2>3. OnTime' => OnTime
    BY <1>6 DEF ExitSale, OnTime
  <2>4. PassOK'
    BY <2>1 DEF PassOK
  <2>5. SaleOK'
    BY <2>1 DEF SaleOK
  <2>6. HeldOK'
    BY <2>1, <2>2, Times, SamePosition DEF HeldOK, AwaitOK, Overdue, SaleOK
  <2>7. PromptOK'
    BY <2>1, <2>3, SamePosition DEF PromptOK
  <2>8. EntryOK'
    BY <2>1 DEF EntryOK, Buying, End
  <2>. QED
    BY <1>a, <2>4, <2>5, <2>6, <2>7, <2>8 DEF TInv
<1>7. CASE Housekeep
  <2>1. /\ pc = "idle" /\ Began = now /\ UNCHANGED <<now, pos>> /\ hk' = now
        /\ \/ pc' = "kline" /\ InPosition /\ now >= Close + ResolveDelay
           \/ pc' = "stale" /\ (InPosition => ~(now >= Close + ResolveDelay))
    BY <1>7 DEF Housekeep, Began, Awaits, Close, Goto
  <2>2. Began' = now
    BY <1>7, Moves DEF Housekeep, Goto
  <2>4. PassOK'
    BY <2>1, <2>2, Times, SamePosition DEF PassOK, AwaitOK
  <2>5. SaleOK'
    BY <2>1 DEF SaleOK
  <2>6. HeldOK'
    BY <2>1, <2>2, Times, SamePosition DEF HeldOK, AwaitOK, Overdue
  <2>7. PromptOK'
    BY <2>1, <2>2, Times, SamePosition DEF PromptOK, AwaitOK
  <2>8. EntryOK'
    BY <2>1 DEF EntryOK, Buying, End
  <2>. QED
    BY <1>a, <2>4, <2>5, <2>6, <2>7, <2>8 DEF TInv
<1>8. CASE Resolve
  <2>1. /\ pc = "kline" /\ pc' = "stale" /\ UNCHANGED <<now, hk>>
        /\ InPosition /\ (~InPosition' \/ UNCHANGED pos)
        /\ InPosition' => hk < Close + ProxyDelay
    BY <1>8 DEF Resolve, Close, Settled, InPosition, IInv, HandlerOK, Selling, Goto
  <2>2. Began' = now
    BY <1>8, Moves DEF Resolve, Goto
  <2>3. OnTime' => OnTime
    BY <1>8 DEF Resolve, OnTime
  <2>4. PassOK'
    BY <2>1, <2>2, Times, SamePosition DEF PassOK, AwaitOK
  <2>5. SaleOK'
    BY <2>1 DEF SaleOK
  <2>6. HeldOK'
    BY <2>1, <2>2, Times, SamePosition DEF HeldOK, AwaitOK, Overdue, PassOK
  <2>7. PromptOK'
    BY <2>1, <2>2, <2>3, Times, SamePosition DEF PromptOK, AwaitOK, PassOK
  <2>8. EntryOK'
    BY <2>1 DEF EntryOK, Buying, End
  <2>. QED
    BY <1>a, <2>4, <2>5, <2>6, <2>7, <2>8 DEF TInv
<1>9. CASE StaleCheck
  <2>1. /\ pc = "stale" /\ Began = now /\ UNCHANGED <<now, hk, pos>>
        /\ \/ pc' = "stale_sale" /\ InPosition /\ hk < Close
           \/ pc' = "measure"
    BY <1>9 DEF StaleCheck, Began, Awaits, Close, Goto
  <2>2. Began' = now
    BY <1>9, Moves DEF StaleCheck, Goto
  <2>3. OnTime' => OnTime
    BY <1>9 DEF StaleCheck, OnTime
  <2>4. PassOK'
    BY <2>1, <2>2, Times, SamePosition DEF PassOK, AwaitOK
  <2>5. SaleOK'
    BY <2>1 DEF SaleOK
  <2>6. HeldOK'
    BY <2>1, <2>2, Times, SamePosition DEF HeldOK, AwaitOK, Overdue
  <2>7. PromptOK'
    BY <2>1, <2>3, SamePosition DEF PromptOK
  <2>8. EntryOK'
    BY <2>1 DEF EntryOK, Buying, End
  <2>. QED
    BY <1>a, <2>4, <2>5, <2>6, <2>7, <2>8 DEF TInv
<1>10. CASE StaleSale
  <2>1. /\ pc = "stale_sale" /\ pc' = "measure" /\ UNCHANGED <<now, hk>>
        /\ InPosition /\ (~InPosition' \/ UNCHANGED pos)
    BY <1>10 DEF StaleSale, Settled, InPosition, IInv, HandlerOK, Selling, Goto
  <2>2. Began' = now
    BY <1>10, Moves DEF StaleSale, Goto
  <2>3. OnTime' => OnTime
    BY <1>10 DEF StaleSale, OnTime
  <2>4. PassOK'
    BY <2>1, <2>2, Times DEF PassOK, AwaitOK
  <2>5. SaleOK'
    BY <2>1 DEF SaleOK
  <2>6. HeldOK'
    BY <2>1, <2>2, Times, SamePosition DEF HeldOK, AwaitOK, Overdue, PassOK
  <2>7. PromptOK'
    BY <2>1, <2>3, SamePosition DEF PromptOK
  <2>8. EntryOK'
    BY <2>1 DEF EntryOK, Buying, End
  <2>. QED
    BY <1>a, <2>4, <2>5, <2>6, <2>7, <2>8 DEF TInv
<1>11. CASE Measure
  <2>1. /\ pc = "measure" /\ Began = now /\ pc' \in {"wall", "secure"} /\ UNCHANGED <<now, hk, pos>>
    BY <1>11 DEF Measure, Began, Awaits, Goto
  <2>2. Began' = now
    BY <1>11, Moves DEF Measure, Goto
  <2>3. OnTime' => OnTime
    BY <1>11 DEF Measure, OnTime
  <2>4. PassOK'
    BY <2>1, <2>2, Times DEF PassOK, AwaitOK
  <2>5. SaleOK'
    BY <2>1 DEF SaleOK
  <2>6. HeldOK'
    BY <2>1, <2>2, Times, SamePosition DEF HeldOK, AwaitOK, Overdue
  <2>7. PromptOK'
    BY <2>1, <2>3, SamePosition DEF PromptOK
  <2>8. EntryOK'
    BY <2>1 DEF EntryOK, Buying, End
  <2>. QED
    BY <1>a, <2>4, <2>5, <2>6, <2>7, <2>8 DEF TInv
<1>12. CASE WallRead
  <2>1. /\ pc = "wall" /\ pc' = "secure" /\ UNCHANGED <<now, hk, pos>>
    BY <1>12 DEF WallRead, Goto
  <2>2. Began' = now
    BY <1>12, Moves DEF WallRead, Goto
  <2>3. OnTime' => OnTime
    BY <1>12 DEF WallRead, OnTime
  <2>4. PassOK'
    BY <2>1, <2>2, Times DEF PassOK, AwaitOK
  <2>5. SaleOK'
    BY <2>1 DEF SaleOK
  <2>6. HeldOK'
    BY <2>1, <2>2, Times, SamePosition DEF HeldOK, AwaitOK, Overdue
  <2>7. PromptOK'
    BY <2>1, <2>3, SamePosition DEF PromptOK
  <2>8. EntryOK'
    BY <2>1 DEF EntryOK, Buying, End
  <2>. QED
    BY <1>a, <2>4, <2>5, <2>6, <2>7, <2>8 DEF TInv
<1>13. CASE SecureCheck
  <2>1. /\ pc = "secure" /\ Began = now /\ UNCHANGED <<now, pos>>
        /\ \/ pc' = "secure_book" /\ InPosition /\ Close - hk > SecureMin
           \/ pc' = "rollover"
    BY <1>13 DEF SecureCheck, Began, Awaits, Close, Goto
  <2>2. Began' = now
    BY <1>13, Moves DEF SecureCheck, Goto
  <2>3. OnTime' => OnTime
    BY <1>13 DEF SecureCheck, OnTime
  <2>4. PassOK'
    BY <2>1 DEF PassOK
  <2>5. SaleOK'
    BY <2>1, <2>2, Times, SamePosition DEF SaleOK, AwaitOK, PassOK
  <2>6. HeldOK'
    BY <2>1, <2>2, Times, SamePosition DEF HeldOK, AwaitOK, Overdue
  <2>7. PromptOK'
    BY <2>1, <2>3, SamePosition DEF PromptOK
  <2>8. EntryOK'
    BY <2>1 DEF EntryOK, Buying, End
  <2>. QED
    BY <1>a, <2>4, <2>5, <2>6, <2>7, <2>8 DEF TInv
<1>14. CASE SecureBook
  <2>1. /\ pc = "secure_book" /\ pc' \in {"secure_sale", "rollover"} /\ UNCHANGED <<now, hk, pos>>
    BY <1>14 DEF SecureBook, Goto
  <2>2. Began' = now
    BY <1>14, Moves DEF SecureBook, Goto
  <2>3. OnTime' => OnTime
    BY <1>14 DEF SecureBook, OnTime
  <2>4. PassOK'
    BY <2>1 DEF PassOK
  <2>5. SaleOK'
    BY <2>1, <2>2, Times, SamePosition DEF SaleOK, AwaitOK
  <2>6. HeldOK'
    BY <2>1, <2>2, Times, SamePosition DEF HeldOK, AwaitOK, Overdue, SaleOK
  <2>7. PromptOK'
    BY <2>1, <2>3, SamePosition DEF PromptOK
  <2>8. EntryOK'
    BY <2>1 DEF EntryOK, Buying, End
  <2>. QED
    BY <1>a, <2>4, <2>5, <2>6, <2>7, <2>8 DEF TInv
<1>15. CASE SecureSale
  <2>1. /\ pc = "secure_sale" /\ pc' = "rollover" /\ UNCHANGED <<now, hk>>
        /\ InPosition /\ (~InPosition' \/ UNCHANGED pos)
    BY <1>15 DEF SecureSale, Settled, InPosition, IInv, HandlerOK, Selling, Goto
  <2>2. Began' = now
    BY <1>15, Moves DEF SecureSale, Goto
  <2>3. OnTime' => OnTime
    BY <1>15 DEF SecureSale, OnTime
  <2>4. PassOK'
    BY <2>1 DEF PassOK
  <2>5. SaleOK'
    BY <2>1 DEF SaleOK
  <2>6. HeldOK'
    BY <2>1, <2>2, Times, SamePosition DEF HeldOK, AwaitOK, Overdue, SaleOK
  <2>7. PromptOK'
    BY <2>1, <2>3, SamePosition DEF PromptOK
  <2>8. EntryOK'
    BY <2>1 DEF EntryOK, Buying, End
  <2>. QED
    BY <1>a, <2>4, <2>5, <2>6, <2>7, <2>8 DEF TInv
<1>16. CASE Rollover
  <2>1. /\ pc = "rollover" /\ Began = now /\ pc' \in {"market", "fix"} /\ UNCHANGED <<now, hk, pos>>
    BY <1>16 DEF Rollover, Began, Awaits, Goto
  <2>2. Began' = now
    BY <1>16, Moves DEF Rollover, Goto
  <2>3. OnTime' => OnTime
    BY <1>16 DEF Rollover, OnTime
  <2>4. PassOK'
    BY <2>1 DEF PassOK
  <2>5. SaleOK'
    BY <2>1 DEF SaleOK
  <2>6. HeldOK'
    BY <2>1, <2>2, Times, SamePosition DEF HeldOK, AwaitOK, Overdue
  <2>7. PromptOK'
    BY <2>1, <2>3, SamePosition DEF PromptOK
  <2>8. EntryOK'
    BY <2>1 DEF EntryOK, Buying, End
  <2>. QED
    BY <1>a, <2>4, <2>5, <2>6, <2>7, <2>8 DEF TInv
<1>17. CASE FetchMarket
  <2>1. /\ pc = "market" /\ pc' \in {"market_next", "fix"} /\ UNCHANGED <<now, hk, pos>>
    BY <1>17 DEF FetchMarket, Goto
  <2>2. Began' = now
    BY <1>17, Moves DEF FetchMarket, Goto
  <2>3. OnTime' => OnTime
    BY <1>17 DEF FetchMarket, OnTime
  <2>4. PassOK'
    BY <2>1 DEF PassOK
  <2>5. SaleOK'
    BY <2>1 DEF SaleOK
  <2>6. HeldOK'
    BY <2>1, <2>2, Times, SamePosition DEF HeldOK, AwaitOK, Overdue
  <2>7. PromptOK'
    BY <2>1, <2>3, SamePosition DEF PromptOK
  <2>8. EntryOK'
    BY <2>1 DEF EntryOK, Buying, End
  <2>. QED
    BY <1>a, <2>4, <2>5, <2>6, <2>7, <2>8 DEF TInv
<1>18. CASE FetchNext
  <2>1. /\ pc = "market_next" /\ pc' = "fix" /\ UNCHANGED <<now, hk, pos>>
    BY <1>18 DEF FetchNext, Goto
  <2>2. Began' = now
    BY <1>18, Moves DEF FetchNext, Goto
  <2>3. OnTime' => OnTime
    BY <1>18 DEF FetchNext, OnTime
  <2>4. PassOK'
    BY <2>1 DEF PassOK
  <2>5. SaleOK'
    BY <2>1 DEF SaleOK
  <2>6. HeldOK'
    BY <2>1, <2>2, Times, SamePosition DEF HeldOK, AwaitOK, Overdue
  <2>7. PromptOK'
    BY <2>1, <2>3, SamePosition DEF PromptOK
  <2>8. EntryOK'
    BY <2>1 DEF EntryOK, Buying, End
  <2>. QED
    BY <1>a, <2>4, <2>5, <2>6, <2>7, <2>8 DEF TInv
<1>19. CASE StrikeCheck
  <2>1. /\ pc = "fix" /\ Began = now /\ pc' \in {"strike", "enter"} /\ UNCHANGED <<now, hk, pos>>
    BY <1>19 DEF StrikeCheck, Began, Awaits, Goto
  <2>2. Began' = now
    BY <1>19, Moves DEF StrikeCheck, Goto
  <2>3. OnTime' => OnTime
    BY <1>19 DEF StrikeCheck, OnTime
  <2>4. PassOK'
    BY <2>1 DEF PassOK
  <2>5. SaleOK'
    BY <2>1 DEF SaleOK
  <2>6. HeldOK'
    BY <2>1, <2>2, Times, SamePosition DEF HeldOK, AwaitOK, Overdue
  <2>7. PromptOK'
    BY <2>1, <2>3, SamePosition DEF PromptOK
  <2>8. EntryOK'
    BY <2>1 DEF EntryOK, Buying, End
  <2>. QED
    BY <1>a, <2>4, <2>5, <2>6, <2>7, <2>8 DEF TInv
<1>20. CASE FixStrike
  <2>1. /\ pc = "strike" /\ pc' = "enter" /\ UNCHANGED <<now, hk, pos>>
    BY <1>20 DEF FixStrike, Goto
  <2>2. Began' = now
    BY <1>20, Moves DEF FixStrike, Goto
  <2>3. OnTime' => OnTime
    BY <1>20 DEF FixStrike, OnTime
  <2>4. PassOK'
    BY <2>1 DEF PassOK
  <2>5. SaleOK'
    BY <2>1 DEF SaleOK
  <2>6. HeldOK'
    BY <2>1, <2>2, Times, SamePosition DEF HeldOK, AwaitOK, Overdue
  <2>7. PromptOK'
    BY <2>1, <2>3, SamePosition DEF PromptOK
  <2>8. EntryOK'
    BY <2>1 DEF EntryOK, Buying, End
  <2>. QED
    BY <1>a, <2>4, <2>5, <2>6, <2>7, <2>8 DEF TInv
<1>21. CASE TryEnter
  <2>1. /\ pc = "enter" /\ Began = now /\ UNCHANGED <<now, hk, pos>>
        /\ \/ pc' = "idle"
           \/ /\ pc' = "ask" /\ try'.decided = now /\ ~InPosition
              /\ End(try'.w) - now \in MinRemaining .. MaxRemaining
    BY <1>21 DEF TryEnter, Began, Awaits, MayEnter, Goto
  <2>2. Began' = now
    BY <1>21, Moves DEF TryEnter, Goto
  <2>3. OnTime' => OnTime
    BY <1>21 DEF TryEnter, OnTime
  <2>4. PassOK'
    BY <2>1 DEF PassOK
  <2>5. SaleOK'
    BY <2>1 DEF SaleOK
  <2>6. HeldOK'
    BY <2>1, <2>2, Times, SamePosition DEF HeldOK, AwaitOK, Overdue
  <2>7. PromptOK'
    BY <2>1, <2>3, SamePosition DEF PromptOK
  <2>8. EntryOK'
    BY <2>1, <2>2, Times DEF EntryOK, AwaitOK, Buying, End
  <2>. QED
    BY <1>a, <2>4, <2>5, <2>6, <2>7, <2>8 DEF TInv
<1>22. CASE ReadAsk
  <2>1. /\ pc = "ask" /\ ~InPosition /\ UNCHANGED <<now, hk, pos>>
        /\ \/ pc' = "idle"
           \/ /\ try.dir = 1 /\ pc' = "ask" /\ try'.dir = -1
              /\ try'.w = try.w /\ try'.decided = try.decided
           \/ pc' = "buy" /\ try' = try
    BY <1>22 DEF ReadAsk, NextSide, TypeOK, Tries, IInv, HandlerOK, Buying,
       InPosition, Goto
  <2>2. Began' = now
    BY <1>22, Moves DEF ReadAsk, NextSide, Goto
  <2>3. OnTime' => OnTime
    BY <1>22 DEF ReadAsk, OnTime
  <2>4. PassOK'
    BY <2>1 DEF PassOK
  <2>5. SaleOK'
    BY <2>1 DEF SaleOK
  <2>6. HeldOK'
    BY <2>1, SamePosition DEF HeldOK, Overdue
  <2>7. PromptOK'
    BY <2>1, SamePosition DEF PromptOK
  <2>8. EntryOK'
    BY <2>1, <2>2, <2>3, Times, SamePosition DEF EntryOK, AwaitOK, Buying, End
  <2>. QED
    BY <1>a, <2>4, <2>5, <2>6, <2>7, <2>8 DEF TInv
<1>23. CASE Buy
  <2>1. /\ pc = "buy" /\ ~InPosition /\ UNCHANGED <<now, hk>>
        /\ \/ pc' = "idle" /\ Close' = End(try.w)
           \/ ~InPosition' /\ pc' = "idle"
           \/ /\ ~InPosition' /\ try.dir = 1 /\ pc' = "ask" /\ try'.dir = -1
              /\ try'.w = try.w /\ try'.decided = try.decided
    BY <1>23 DEF Buy, NextSide, Close, End, TypeOK, Tries, IInv, HandlerOK, Buying,
       InPosition, Goto
  <2>2. Began' = now
    BY <1>23, Moves DEF Buy, NextSide, Goto
  <2>3. OnTime' => OnTime
    BY <1>23 DEF Buy, OnTime
  <2>4. PassOK'
    BY <2>1 DEF PassOK
  <2>5. SaleOK'
    BY <2>1 DEF SaleOK
  <2>6. HeldOK'
    BY <2>1, <2>2, Times DEF HeldOK, AwaitOK, Overdue, EntryOK, Buying, Close
  <2>7. PromptOK'
    BY <2>1, <2>2, <2>3, Times, SamePosition DEF PromptOK, AwaitOK, EntryOK, Buying, Close
  <2>8. EntryOK'
    BY <2>1, <2>2, <2>3, Times, SamePosition DEF EntryOK, AwaitOK, Buying, End
  <2>. QED
    BY <1>a, <2>4, <2>5, <2>6, <2>7, <2>8 DEF TInv
<1>. QED
  BY <1>1, <1>2, <1>3, <1>4, <1>5, <1>6, <1>7, <1>8, <1>9, <1>10, <1>11, <1>12, <1>13,
     <1>14, <1>15, <1>16, <1>17, <1>18, <1>19, <1>20, <1>21, <1>22, <1>23
     DEF Next, CheckExits, Housekeeping

(* Nothing is under way when the loop begins.                               *)
LEMMA InitTInv == Init => TInv
<1>. SUFFICES ASSUME Init PROVE TInv
  OBVIOUS
<1>1. pc = "idle" /\ ~InPosition /\ Began = now /\ now = 0
  BY DEF Init, InPosition, Began, Awaits
<1>. QED
  BY <1>1, Constants DEF TInv, AwaitOK, PassOK, SaleOK, HeldOK, PromptOK, EntryOK, Buying

(* Both invariants hold in every reachable state.                           *)
LEMMA TimesHold == Spec => [](IInv /\ TInv)
<1>1. Init => IInv /\ TInv
  BY InitIInv, InitTInv
<1>2. IInv /\ TInv /\ [Next]_vars => (IInv /\ TInv)'
  BY NextIInv, NextTInv
<1>. QED
  BY <1>1, <1>2, PTL DEF Spec

(* A position is resolved, at the latest by the fallback, ProxyDelay and    *)
(* six requests after its window: those of the pass that found the fallback *)
(* not due yet, and those of the one that asks for the candle again.        *)
THEOREM ResolvedHolds == Spec => []ResolvedInTime
<1>1. ASSUME IInv, TInv, InPosition
      PROVE  now < Close + ProxyDelay + 6 * MaxAwait
  <2>. TypeOK /\ AwaitOK /\ HeldOK /\ SaleOK
    BY <1>1 DEF IInv, TInv
  <2>1. CASE pc \in {"stale", "measure", "wall", "stale_sale", "secure", "rollover", "market",
                     "market_next", "fix", "strike", "enter", "idle", "kline"}
    BY <1>1, <2>1, Times DEF HeldOK, Overdue, AwaitOK
  <2>2. CASE pc \in Selling
    BY <2>2, <1>1, Times DEF SaleOK, HeldOK, Overdue, AwaitOK, Selling
  <2>3. pc \notin Buying
    BY <1>1 DEF IInv, HandlerOK, InPosition
  <2>. QED
    BY <2>1, <2>2, <2>3 DEF TypeOK, Awaits, Stages, Selling, Buying
<1>2. IInv /\ TInv => ResolvedInTime
  BY <1>1 DEF ResolvedInTime, Close
<1>. QED
  BY <1>2, TimesHold, PTL

(* A position opens at most four requests after a decision taken in the     *)
(* window's playing time, and a sale is over three requests after the last  *)
(* moment it may be decided, the securing one four.                         *)
THEOREM EntryAndSaleHold == Spec => EntryAndSaleInTime
<1>. DEFINE InTime ==
       /\ pos = NoPos /\ pos' # NoPos =>
            /\ now >= End(pos'.w) - MaxRemaining
            /\ now <= End(pos'.w) - MinRemaining + 4 * MaxAwait
       /\ pos # NoPos /\ pos' = NoPos /\ results'[pos.w] = "sold" =>
            now < IF pc = "secure_sale"
                  THEN End(pos.w) - SecureMin + 4 * MaxAwait
                  ELSE End(pos.w) + 3 * MaxAwait
<1>1. ASSUME IInv, TInv, [Next]_vars PROVE InTime
  <2>. TypeOK /\ AwaitOK /\ PassOK /\ SaleOK /\ EntryOK
    BY <1>1 DEF IInv, TInv
  <2>1. ASSUME pos = NoPos, pos' # NoPos
        PROVE  /\ now >= End(pos'.w) - MaxRemaining
               /\ now <= End(pos'.w) - MinRemaining + 4 * MaxAwait
    <3>1. ~Settling
      BY <1>1, <2>1, SettlingIs DEF InPosition
    <3>2. ~ExitBook
      BY <1>1, <2>1 DEF IInv, HandlerOK, Selling, ExitBook, InPosition
    <3>3. Buy
      BY <1>1, <2>1, <3>1, <3>2, Keeping
    <3>4. pc = "buy" /\ pos'.w = try.w
      BY <1>1, <2>1, <3>3, BuyOpens DEF Buy
    <3>5. /\ End(try.w) - try.decided \in MinRemaining .. MaxRemaining
          /\ try.decided <= now /\ now <= try.decided + 4 * MaxAwait
      BY <3>4, Times DEF EntryOK, Buying, AwaitOK
    <3>. QED
      BY <3>4, <3>5, Times
  <2>2. ASSUME pos # NoPos, pos' = NoPos, results'[pos.w] = "sold"
        PROVE  now < IF pc = "secure_sale"
                     THEN End(pos.w) - SecureMin + 4 * MaxAwait
                     ELSE End(pos.w) + 3 * MaxAwait
    <3>1. pos.w \in Windows /\ results \in [Windows -> Outcomes \cup {Unplayed}]
      BY <1>1, <2>2 DEF IInv, TypeOK, PositionOK, Positions
    <3>2. ~Resolve
      BY <2>2, <3>1 DEF Resolve, Settled
    <3>3. ~Buy
      BY <1>1, <2>2 DEF IInv, HandlerOK, Buying, Buy
    <3>4. ~ExitBook
      BY <2>2, NoPosIsNone, <3>1 DEF ExitBook, TypeOK, Positions
    <3>5. ExitSale \/ StaleSale \/ SecureSale
      BY <1>1, <2>2, <3>2, <3>3, <3>4, Keeping DEF Settling
    <3>6. CASE ExitSale
      BY <3>6, Times DEF ExitSale, SaleOK, AwaitOK, Close
    <3>7. CASE StaleSale
      BY <3>7, Times DEF StaleSale, PassOK, AwaitOK, Close
    <3>8. CASE SecureSale
      BY <3>8, Times DEF SecureSale, SaleOK, AwaitOK, Close
    <3>. QED
      BY <3>5, <3>6, <3>7, <3>8
  <2>. QED
    BY <2>1, <2>2
<1>2. IInv /\ TInv /\ [Next]_vars => [InTime]_vars
  BY <1>1
<1>. QED
  BY <1>2, TimesHold, PTL DEF Spec, EntryAndSaleInTime
=============================================================================
