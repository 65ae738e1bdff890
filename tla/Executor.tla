------------------------------ MODULE Executor ------------------------------
(***************************************************************************)
(* The orders of Le Grinder in one window after another (grinder.rs:       *)
(* exec_buy, exec_sell and their callers): simulated by a sweep of the     *)
(* book (PaperSweep.tla), or sent to Polymarket's CLOB (live/mod.rs,       *)
(* live/orders.rs), or only signed (LIVE_ARMED=false).                     *)
(*                                                                         *)
(* The handlers run one at a time, so an order is one call that steps from *)
(* await to await; pc is the await it is at.  Live, the amounts are lots   *)
(* and prices are left out.  The CLOB (external) refuses an order, matches *)
(* part of it or all, and its answer may be lost; it sells no more than it *)
(* has seen credited, which a refresh of its cache may raise.              *)
(***************************************************************************)
EXTENDS PaperSweep

CONSTANTS
    Tokens, None,
    Stakes,        \* what engage() may put on a window
    Whole,         \* lots in a share
    SecureMin,     \* SECURE_MIN_PRICE, in ticks
    MaxLost        \* bound: answers lost in a window

ASSUME ExecutorAssumption ==
    /\ None \notin Tokens
    /\ Stakes \subseteq Nat /\ \E n \in Stakes : \A m \in Stakes : m <= n
    /\ Whole \in Nat \ {0}
    /\ Cap > 0 /\ SecureMin \in Nat /\ MaxLost \in Nat

VARIABLES
    mode,          \* paper, dry, live
    pos,           \* Phase: the token and the lots of the position
    played,        \* last_played_window is this window
    pc,            \* idle, sweep, balance, refresh, post, sync
    order,         \* of the call: kind, token, attempt, size (remaining),
                   \* filled (reported), moved (what really changed hands)
    owned,         \* what the wallet holds, by token
    seen,          \* what the CLOB has seen credited of it
    lost,          \* answers lost
    booked         \* lots booked as sold

machine == <<pos, played, booked>>
clob    == <<owned, seen, lost>>
vars    == <<sweepVars, mode, machine, pc, order, clob>>

NoPos   == [token |-> None, n |-> 0]
NoOrder == [kind |-> "none", token |-> None, attempt |-> 0, size |-> 0,
            filled |-> 0, moved |-> 0]
Nothing == [t \in Tokens |-> 0]

Init ==
    /\ NoSweep
    /\ mode \in {"paper", "dry", "live"}
    /\ pos = NoPos /\ played = FALSE /\ pc = "idle" /\ order = NoOrder
    /\ owned = Nothing /\ seen = Nothing /\ lost = 0 /\ booked = 0

Call(kind, token, size) ==
    order' = [kind |-> kind, token |-> token, attempt |-> 1, size |-> size,
              filled |-> 0, moved |-> 0]

Back == pc' = "idle" /\ order' = NoOrder

-----------------------------------------------------------------------------
(* The callers: try_enter(), panic_exit(), the securing sale.               *)

Bug_Opened(n) ==
    IF n > 0 THEN pos' = [token |-> order.token, n |-> n] /\ UNCHANGED <<played, booked>>
             ELSE UNCHANGED machine
(* The position is what the fill says, if it says anything.                 *)
Opened(n) ==
    IF n > 0
    THEN pos' = [token |-> order.token, n |-> n] /\ played' = TRUE /\ UNCHANGED booked
    ELSE UNCHANGED machine

(* A sale that sold anything closes the position, its residue included.     *)
Closed(n) ==
    IF n > 0
    THEN pos' = NoPos /\ booked' = booked + n /\ UNCHANGED played
    ELSE UNCHANGED machine

(* buy_all() buys whole shares.                                             *)
LiveSize(cash) == (cash \div (Cap * Whole)) * Whole

Enter(t) ==
    /\ pc = "idle" /\ pos = NoPos /\ ~played
    /\ \E cash \in Stakes :
          IF mode = "paper"
          THEN /\ \E b \in Books : StartBuy(b, cash)
               /\ pc' = "sweep" /\ Call("buy", t, cash)
          ELSE /\ LiveSize(cash) > 0
               /\ pc' = "post" /\ Call("buy", t, LiveSize(cash))
               /\ UNCHANGED sweepVars
    /\ UNCHANGED <<mode, machine, clob>>

Exit(kind) ==
    /\ pc = "idle" /\ pos # NoPos
    /\ Call(kind, pos.token, pos.n)
    /\ IF mode = "paper"
       THEN (\E b \in Books : StartSale(b, pos.n)) /\ pc' = "sweep"
       ELSE pc' = "balance" /\ UNCHANGED sweepVars
    /\ UNCHANGED <<mode, machine, clob>>

(* The window is over: its position is resolved, its tokens are paid.       *)
NextWindow ==
    /\ pc = "idle"
    /\ pos' = NoPos /\ played' = FALSE /\ booked' = 0
    /\ owned' = Nothing /\ seen' = Nothing /\ lost' = 0
    /\ UNCHANGED <<sweepVars, mode, pc, order>>

-----------------------------------------------------------------------------
(* Paper.                                                                   *)

Sweep == pc = "sweep" /\ SweepStep /\ UNCHANGED <<mode, machine, pc, order, clob>>

PaperBought ==
    /\ pc = "sweep" /\ done /\ order.kind = "buy"
    /\ Opened(shares)
    /\ owned' = [owned EXCEPT ![order.token] = @ + shares]
    /\ Forget /\ Back
    /\ UNCHANGED <<mode, seen, lost>>

(* A securing sale is all or nothing, at the floor or better on average.    *)
PaperSold ==
    /\ pc = "sweep" /\ done /\ order.kind # "buy"
    /\ LET n == IF order.kind = "secure" /\ (notional < SecureMin * shares \/ shares < order.size)
                THEN 0 ELSE shares
       IN  /\ Closed(n)
           /\ owned' = [owned EXCEPT ![order.token] = @ - n]
    /\ Forget /\ Back
    /\ UNCHANGED <<mode, seen, lost>>

-----------------------------------------------------------------------------
(* Live: the balance of a sale.                                             *)

(* The first FAK, for the balance or for the position; none for less than   *)
(* a lot.                                                                   *)
FirstFak(truth) ==
    IF RoundSize(truth, 1) > 0
    THEN pc' = "post" /\ order' = [order EXCEPT !.attempt = 1, !.size = RoundSize(truth, 1)]
    ELSE Back

(* sync_balance_allowance(): the CLOB looks at the chain, which may lag; or *)
(* the request fails.                                                       *)
Synced == \E n \in seen[order.token] .. owned[order.token] :
              seen' = [seen EXCEPT ![order.token] = n]

(* get_conditional_balance() refreshes, then reads: what it reads is the    *)
(* truth ...                                                                *)
BalanceRead ==
    /\ pc = "balance"
    /\ Synced /\ seen'[order.token] > 0
    /\ FirstFak(seen'[order.token])
    /\ UNCHANGED <<sweepVars, mode, machine, owned, lost>>

(* ... but 0, which is asked again once, after another refresh ...          *)
BalanceZero ==
    /\ pc = "balance"
    /\ Synced /\ seen'[order.token] = 0
    /\ IF order.attempt = 1
       THEN pc' = "refresh" /\ UNCHANGED order
       ELSE FirstFak(order.size)
    /\ UNCHANGED <<sweepVars, mode, machine, owned, lost>>

(* ... and an error, at once: the position's lots are sold.                 *)
BalanceError ==
    /\ pc = "balance"
    /\ Synced
    /\ FirstFak(order.size)
    /\ UNCHANGED <<sweepVars, mode, machine, owned, lost>>

Refresh ==
    /\ pc = "refresh"
    /\ Synced
    /\ pc' = "balance" /\ order' = [order EXCEPT !.attempt = 2]
    /\ UNCHANGED <<sweepVars, mode, machine, owned, lost>>

-----------------------------------------------------------------------------
(* Live: place_fak().                                                       *)

(* What the CLOB may match of the order: a sale, of no more than it has     *)
(* seen credited; the securing one (FOK), all or nothing.                   *)
Matches ==
    {n \in 1 .. order.size :
        order.kind # "buy" => /\ order.size <= seen[order.token]
                              /\ order.kind = "secure" => n = order.size}

Matched(n) ==
    IF order.kind = "buy"
    THEN /\ owned' = [owned EXCEPT ![order.token] = @ + n]
         /\ UNCHANGED seen
    ELSE /\ owned' = [owned EXCEPT ![order.token] = @ - n]
         /\ seen' = [seen EXCEPT ![order.token] = @ - n]

(* LIVE_ARMED=false: signed, never sent.                                    *)
DryRun ==
    /\ pc = "post" /\ mode = "dry"
    /\ Back
    /\ UNCHANGED <<sweepVars, mode, machine, clob>>

(* An error, before the order was sent or in the answer, success=false      *)
(* included: a buy returns None, a sale Fill::default().                    *)
PostError ==
    /\ pc = "post" /\ mode = "live"
    /\ Back
    /\ UNCHANGED <<sweepVars, mode, machine, clob>>

(* Matched, and the answer is lost: an error like the others.               *)
PostLost ==
    /\ pc = "post" /\ mode = "live" /\ lost < MaxLost
    /\ lost' = lost + 1
    /\ \E n \in Matches : Matched(n)
    /\ Back
    /\ UNCHANGED <<sweepVars, mode, machine>>

Bug_Reported(n) == order.size
(* filled_size: the amounts of the answer, that is, what was matched.       *)
Reported(n) == n

(* The answer to a purchase, and what buy_all() does before it returns it.  *)
Bought ==
    /\ pc = "post" /\ mode = "live" /\ order.kind = "buy"
    /\ \/ Back /\ UNCHANGED clob
       \/ \E n \in Matches :
             /\ Matched(n) /\ UNCHANGED lost
             /\ pc' = "sync" /\ order' = [order EXCEPT !.filled = Reported(n), !.moved = n]
    /\ UNCHANGED <<sweepVars, mode, machine>>

BuySynced ==
    /\ pc = "sync"
    /\ Synced
    /\ Opened(order.filled)
    /\ Back
    /\ UNCHANGED <<sweepVars, mode, owned, lost>>

Bug_Sold(n) ==
    LET filled == Reported(n)
        rest   == RoundSize(order.size - Reported(n), 1)
    IN  IF rest > 0 /\ order.attempt = 1
        THEN /\ order' = [order EXCEPT !.attempt = 2, !.size = rest,
                                       !.filled = filled, !.moved = @ + n]
             /\ UNCHANGED <<pc, machine>>
        ELSE Back /\ Closed(filled)
(* The answer to a sale: a second FAK for what the first left, then the     *)
(* sum is the fill.                                                         *)
Sold(n) ==
    LET filled == order.filled + Reported(n)
        rest   == RoundSize(order.size - Reported(n), 1)
    IN  IF rest > 0 /\ order.attempt = 1
        THEN /\ order' = [order EXCEPT !.attempt = 2, !.size = rest,
                                       !.filled = filled, !.moved = @ + n]
             /\ UNCHANGED <<pc, machine>>
        ELSE Back /\ Closed(filled)

SaleAnswered ==
    /\ pc = "post" /\ mode = "live" /\ order.kind # "buy"
    /\ \/ Sold(0) /\ UNCHANGED clob
       \/ \E n \in Matches : Matched(n) /\ Sold(n) /\ UNCHANGED lost
    /\ UNCHANGED <<sweepVars, mode>>

Next ==
    \/ \E t \in Tokens : Enter(t)
    \/ \E kind \in {"panic", "secure"} : Exit(kind)
    \/ NextWindow
    \/ Sweep \/ PaperBought \/ PaperSold
    \/ BalanceRead \/ BalanceZero \/ BalanceError \/ Refresh
    \/ DryRun \/ PostError \/ PostLost
    \/ Bought \/ BuySynced \/ SaleAnswered

Spec == Init /\ [][Next]_vars

-----------------------------------------------------------------------------
(* The most lots an entry buys: the stake at a price of one tick.           *)
MaxStake == CHOOSE n \in Stakes : \A m \in Stakes : m <= n
Lots == 0 .. (1 + MaxLost) * MaxStake

(* The types; among them, an order that is only signed moves nothing, and   *)
(* the CLOB sees no more than there is.                                     *)
TypeOK ==
    /\ SweepTypeOK
    /\ mode \in {"paper", "dry", "live"}
    /\ pos \in [token : Tokens \cup {None}, n : Lots] /\ (pos.n > 0 <=> pos.token \in Tokens)
    /\ played \in BOOLEAN /\ booked \in Lots /\ lost \in 0 .. MaxLost
    /\ pc \in {"idle", "sweep", "balance", "refresh", "post", "sync"}
    /\ order \in [kind : {"none", "buy", "panic", "secure"}, token : Tokens \cup {None},
                  attempt : 0 .. 2, size : Lots, filled : Lots, moved : Lots]
    /\ owned \in [Tokens -> Lots] /\ seen \in [Tokens -> Lots]
    /\ \A t \in Tokens : seen[t] <= owned[t]
    /\ mode = "dry" => owned = Nothing /\ pos = NoPos

(* A sweep takes the best levels first and leaves nothing it could have.    *)
SweepIsGreedy == BestFirst /\ NothingLeft

(* What the wallet held when the call began.                                *)
Before ==
    [t \in Tokens |->
        IF t # order.token THEN owned[t]
        ELSE IF order.kind = "buy" THEN owned[t] - order.moved
                                   ELSE owned[t] + order.moved]

(* Each order, taken for one step at the end of its call, is a step of      *)
(* Broker.tla: at most one entry a window, what a closing sale books is     *)
(* what changed hands, and the machine's belief parts from the wallet by    *)
(* lost answers, failed second halves and residues only.                    *)
Account == INSTANCE Broker WITH account <- Before, belief <- pos
BrokerSpec == Account!Spec

(* One stake at risk, plus one for each answer lost in the window, whatever *)
(* was sold in between and however little of it the machine knows of.       *)
Exposure == Account!Exposure

-----------------------------------------------------------------------------
(* grinder.rs, panic_exit(): the position is kept if NOTHING could be sold. *)
KeptMeansNothingSold ==
    [][order.kind = "panic" /\ pc' = "idle" /\ pos' = pos => Before = owned']_vars
=============================================================================
