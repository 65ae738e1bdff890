----------------------------- MODULE PaperSweep -----------------------------
(***************************************************************************)
(* A simulated order of Le Grinder (paper.rs): a purchase sweeps the asks  *)
(* up to a cap while there is cash, a sale the bids of a book cut by a     *)
(* haircut, level by level, best price first.                              *)
(*                                                                         *)
(* Prices are in ticks, shares in lots of 0.01, cash in ticks times lots;  *)
(* a level's size may be a fraction of a lot.  The amounts of the code are *)
(* doubles: what round_size() does to a whole number of lots depends on    *)
(* the number, and is a parameter.  Fees are left to Settlement.tla.       *)
(***************************************************************************)
EXTENDS Integers

CONSTANTS
    Prices,        \* the prices of a book, in ticks
    MaxSize,       \* bound: the size of a level, in fractions of a lot
    Lot,           \* fractions in a lot
    Cap,           \* ENTRY_MAX
    Haircut,       \* PANIC_HAIRCUT, in percent, clamped to 0 .. 100
    Falls          \* lots n that (n / 100.0) * 100.0 takes below n: 29, 57, 58 ...

ASSUME PaperSweepAssumption ==
    /\ Prices \subseteq Nat \ {0}
    /\ MaxSize \in Nat /\ Lot \in Nat \ {0}
    /\ Cap \in Nat /\ Haircut \in 0 .. 100
    /\ Falls \subseteq Nat \ {0}

Books == [Prices -> 0 .. MaxSize]
Empty == [p \in Prices |-> 0]

VARIABLES
    side,          \* of the sweep under way: none, buy, sell
    done,          \* it has ended
    book,          \* the side of the book it sweeps
    todo,          \* the levels it has not come to
    took,          \* lots taken at each level
    asked,         \* the cash or the shares it began with
    left,          \* remaining_cash of a purchase, remaining shares of a sale
    shares, notional  \* of the fill

sweepVars == <<side, done, book, todo, took, asked, left, shares, notional>>

Lesser(a, b) == IF a <= b THEN a ELSE b

Bug_RoundSize(n, d) == (n + d - 1) \div d
(* round_size() of n / d lots: the whole lots, one less where the product   *)
(* falls short.                                                             *)
RoundSize(n, d) ==
    LET lots == n \div d
    IN  IF n % d = 0 /\ lots \in Falls THEN lots - 1 ELSE lots

(* What a purchase takes at price p: the lesser of what the cash affords    *)
(* and what the level has, rounded.                                         *)
Affordable(p) ==
    IF left * Lot <= book[p] * p THEN RoundSize(left, p) ELSE RoundSize(book[p], Lot)

(* What the haircut leaves of a level, and what a sale takes of it.         *)
Depth(p)    == RoundSize(book[p] * Haircut, Lot * 100)
Sellable(p) == RoundSize(Lesser(left, Depth(p)), 1)

-----------------------------------------------------------------------------
NoSweep ==
    /\ side = "none" /\ done = FALSE
    /\ book = Empty /\ todo = {} /\ took = Empty
    /\ asked = 0 /\ left = 0 /\ shares = 0 /\ notional = 0

Forget ==
    /\ side' = "none" /\ done' = FALSE
    /\ book' = Empty /\ todo' = {} /\ took' = Empty
    /\ asked' = 0 /\ left' = 0 /\ shares' = 0 /\ notional' = 0

Start(s, b, amount) ==
    /\ side' = s /\ done' = FALSE
    /\ book' = b /\ took' = Empty
    /\ asked' = amount /\ left' = amount /\ shares' = 0 /\ notional' = 0

Bug_StartBuy(b, cash) ==
    /\ Start("buy", b, cash)
    /\ todo' = {p \in Prices : b[p] > 0}
(* sweep_buy(b, cash, Cap): the levels up to the cap.                       *)
StartBuy(b, cash) ==
    /\ Start("buy", b, cash)
    /\ todo' = {p \in Prices : b[p] > 0 /\ p <= Cap}

(* sweep_sell_panic(b, n, Haircut).                                         *)
StartSale(b, n) ==
    /\ Start("sell", b, n)
    /\ todo' = {p \in Prices : b[p] > 0}

Stop == done' = TRUE /\ UNCHANGED <<side, book, todo, took, asked, left, shares, notional>>

(* n lots at price p, for a cost or a return of n * p.                      *)
Take(p, n, paid) ==
    /\ took' = [took EXCEPT ![p] = n]
    /\ shares' = shares + n /\ notional' = notional + n * p
    /\ left' = left - paid
    /\ todo' = todo \ {p}
    /\ UNCHANGED <<side, done, book, asked>>

Bug_BuyLevel(p) ==
    LET n == Affordable(p)
    IN  /\ side = "buy" /\ ~done
        /\ \A q \in todo : p >= q
        /\ IF left = 0 \/ n = 0 THEN Stop ELSE Take(p, n, n * p)
(* The best ask left; the first that gives nothing ends the purchase.       *)
BuyLevel(p) ==
    LET n == Affordable(p)
    IN  /\ side = "buy" /\ ~done
        /\ \A q \in todo : p <= q
        /\ IF left = 0 \/ n = 0 THEN Stop ELSE Take(p, n, n * p)

Bug_SellLevel(p) ==
    LET n == Sellable(p)
    IN  /\ side = "sell" /\ ~done
        /\ \A q \in todo : p >= q
        /\ IF left = 0 \/ n = 0 THEN Stop ELSE Take(p, n, n)
(* The best bid left; one that takes nothing is passed over.                *)
SellLevel(p) ==
    LET n == Sellable(p)
    IN  /\ side = "sell" /\ ~done
        /\ \A q \in todo : p >= q
        /\ IF left = 0 THEN Stop ELSE Take(p, n, n)

OutOfLevels == side # "none" /\ ~done /\ todo = {} /\ Stop

SweepStep == (\E p \in todo : BuyLevel(p) \/ SellLevel(p)) \/ OutOfLevels

(* A sweep by itself: any book, any amount up to asked.                     *)
SweepInit == NoSweep
SweepNext ==
    \/ side = "none" /\ \E b \in Books, n \in Nat : StartBuy(b, n) \/ StartSale(b, n)
    \/ SweepStep
SweepSpec == SweepInit /\ [][SweepNext]_sweepVars

-----------------------------------------------------------------------------
(* The types.                                                               *)
SweepTypeOK ==
    /\ side \in {"none", "buy", "sell"} /\ done \in BOOLEAN
    /\ book \in Books /\ todo \subseteq Prices /\ took \in [Prices -> Nat]
    /\ asked \in Nat /\ left \in Nat /\ shares \in Nat /\ notional \in Nat

(* A purchase never spends more than its cash nor pays more than the cap,   *)
(* a sale never sells more than it has; neither takes of a level more than  *)
(* it shows (the haircut off), nor a fraction of a lot, in any rounding.    *)
SweepBounds ==
    /\ side = "buy"  => notional + left = asked /\ notional <= Cap * shares
    /\ side = "sell" => shares + left = asked
    /\ \A p \in Prices :
          took[p] * Lot * 100 <= book[p] * (IF side = "buy" THEN 100 ELSE Haircut)

(* What the sweep may take of a level: all it shows, but for the lot that a *)
(* rounding loses.                                                          *)
Shown(p) == IF side = "buy" THEN book[p] \div Lot ELSE Depth(p)
Eaten(p) == took[p] >= Shown(p) - 1

(* Money is not spent, nor shares sold, at a price while a better one is    *)
(* there, beyond the lot a rounding loses.                                  *)
BestFirst ==
    \A p, q \in Prices :
        /\ took[q] > 1
        /\ side = "buy"  => p < q
        /\ side = "sell" => q < p
        => Eaten(p)

(* A sweep leaves nothing it could have: at its end every level it may take *)
(* is eaten, or what is left would not do for two lots of it.  A purchase   *)
(* that met a level of less than a lot, which ends it, is the exception.    *)
Dust == side = "buy" /\ \E p \in todo : p <= Cap /\ RoundSize(book[p], Lot) = 0
NothingLeft ==
    done /\ ~Dust =>
        \A p \in Prices : p <= Cap \/ side = "sell" =>
            Eaten(p) \/ left < 2 * (IF side = "buy" THEN p ELSE 1)
=============================================================================
