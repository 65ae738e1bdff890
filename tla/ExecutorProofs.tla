--------------------------- MODULE ExecutorProofs ---------------------------
(***************************************************************************)
(* What a simulated order of PaperSweep.tla guarantees for every book,     *)
(* every amount, and whatever lots the doubles of round_size() lose: its   *)
(* types, which say that no amount ever goes below zero, its limits, and   *)
(* its greed: the best levels first, and nothing left that could be had.   *)
(* Then the orders of Executor.tla, for every set of tokens, book, stake   *)
(* and number of lost answers: what the machine believes, what the wallet  *)
(* holds and what is under way agree, each call taken for one step is a    *)
(* step of Broker.tla, and the simulated orders keep the limits and the    *)
(* greed of their sweeps.                                                  *)
(***************************************************************************)
EXTENDS Executor, TLAPS


(* The quotient of natural numbers, as the order on products sees it.       *)
LEMMA Quotient ==
    ASSUME NEW n \in Nat, NEW d \in Nat \ {0}
    PROVE  n \div d \in Nat /\ (n \div d) * d <= n
BY SMT

(* Products keep the order ...                                              *)
LEMMA TimesKeeps ==
    ASSUME NEW a \in Nat, NEW b \in Nat, NEW c \in Nat, a <= b
    PROVE  a * c <= b * c
BY SMT

(* ... so that what is no larger times c is no larger.                      *)
LEMMA TimesGives ==
    ASSUME NEW a \in Nat, NEW b \in Nat, NEW c \in Nat \ {0}, a * c <= b * c
    PROVE  a <= b
BY SMT

(* Rounding n / d to lots gives a number of lots of no more than n / d.     *)
LEMMA RoundSizeFalls ==
    ASSUME NEW n \in Nat, NEW d \in Nat \ {0}
    PROVE  RoundSize(n, d) \in Nat /\ RoundSize(n, d) * d <= n
<1>1. n \div d \in Nat /\ (n \div d) * d <= n
  BY Quotient
<1>2. CASE n % d = 0 /\ n \div d \in Falls
  <2>1. n \div d \in Nat \ {0}
    BY <1>2, PaperSweepAssumption
  <2>2. RoundSize(n, d) = n \div d - 1 /\ RoundSize(n, d) \in Nat
    BY <1>2, <2>1 DEF RoundSize
  <2>3. RoundSize(n, d) * d <= (n \div d) * d
    BY <1>1, <2>2, TimesKeeps
  <2>. QED
    BY <1>1, <2>2, <2>3
<1>3. CASE ~(n % d = 0 /\ n \div d \in Falls)
  BY <1>1, <1>3 DEF RoundSize
<1>. QED
  BY <1>2, <1>3

-----------------------------------------------------------------------------
(* What a purchase takes of a level costs no more than the cash left, and   *)
(* is no more than the level has.                                           *)
LEMMA AffordableFits ==
    ASSUME SweepTypeOK, NEW p \in Prices
    PROVE  /\ Affordable(p) \in Nat
           /\ Affordable(p) * p <= left
           /\ Affordable(p) * Lot <= book[p]
<1>1. p \in Nat \ {0} /\ Lot \in Nat \ {0} /\ left \in Nat /\ book[p] \in Nat
  BY PaperSweepAssumption DEF SweepTypeOK, Books
<1>2. CASE left * Lot <= book[p] * p
  <2>. DEFINE n == RoundSize(left, p)
  <2>1. n \in Nat /\ n * p <= left /\ Affordable(p) = n
    BY <1>1, <1>2, RoundSizeFalls DEF Affordable
  <2>. HIDE DEF n
  <2>2. (n * p) * Lot <= left * Lot
    <3>1. n * p \in Nat
      BY <1>1, <2>1
    <3>. QED
      BY <1>1, <2>1, <3>1, TimesKeeps
  <2>3. (n * Lot) * p <= book[p] * p
    BY <1>1, <1>2, <2>1, <2>2, SMT
  <2>4. n * Lot <= book[p]
    <3>1. n * Lot \in Nat
      BY <1>1, <2>1
    <3>. QED
      BY <1>1, <2>3, <3>1, TimesGives
  <2>. QED
    BY <2>1, <2>4
<1>3. CASE ~(left * Lot <= book[p] * p)
  <2>. DEFINE n == RoundSize(book[p], Lot)
  <2>1. n \in Nat /\ n * Lot <= book[p] /\ Affordable(p) = n
    BY <1>1, <1>3, RoundSizeFalls DEF Affordable
  <2>. HIDE DEF n
  <2>2. (n * Lot) * p <= book[p] * p
    <3>1. n * Lot \in Nat
      BY <1>1, <2>1
    <3>. QED
      BY <1>1, <2>1, <3>1, TimesKeeps
  <2>3. (n * p) * Lot <= left * Lot
    BY <1>1, <1>3, <2>1, <2>2, SMT
  <2>4. n * p <= left
    <3>1. n * p \in Nat
      BY <1>1, <2>1
    <3>. QED
      BY <1>1, <2>3, <3>1, TimesGives
  <2>. QED
    BY <2>1, <2>4
<1>. QED
  BY <1>2, <1>3

(* What a sale takes of a level is no more than is left to sell, nor than   *)
(* the haircut leaves of the level.                                         *)
LEMMA SellableFits ==
    ASSUME SweepTypeOK, NEW p \in Prices
    PROVE  /\ Sellable(p) \in Nat
           /\ Sellable(p) <= left
           /\ (Sellable(p) * Lot) * 100 <= book[p] * Haircut
<1>1. Lot \in Nat \ {0} /\ Haircut \in Nat /\ left \in Nat /\ book[p] \in Nat
  BY PaperSweepAssumption DEF SweepTypeOK, Books
<1>2. book[p] * Haircut \in Nat /\ Lot * 100 \in Nat \ {0}
  BY <1>1, SMT
<1>. DEFINE depth == Depth(p)
            least == Lesser(left, depth)
            n     == Sellable(p)
<1>3. depth \in Nat /\ depth * (Lot * 100) <= book[p] * Haircut
  BY <1>2, RoundSizeFalls DEF Depth
<1>. HIDE DEF depth
<1>4. least \in Nat /\ least <= left /\ least <= depth
  BY <1>1, <1>3 DEF Lesser
<1>5. n = RoundSize(least, 1)
  BY DEF Sellable, depth
<1>. HIDE DEF least, n
<1>6. n \in Nat /\ n <= least
  <2>1. RoundSize(least, 1) \in Nat /\ RoundSize(least, 1) * 1 <= least
    BY <1>4, RoundSizeFalls
  <2>. QED
    BY <1>5, <2>1
<1>7. n * (Lot * 100) <= depth * (Lot * 100)
  BY <1>2, <1>3, <1>4, <1>6, TimesKeeps
<1>8. (n * Lot) * 100 = n * (Lot * 100) /\ n <= left
  BY <1>1, <1>4, <1>6, SMT
<1>9. (n * Lot) * 100 <= book[p] * Haircut
  BY <1>1, <1>2, <1>3, <1>6, <1>7, <1>8, SMT
<1>. QED
  BY <1>6, <1>8, <1>9 DEF n

-----------------------------------------------------------------------------
(* The inductive invariant: the types, the limits, and what the levels a    *)
(* purchase has yet to come to are, without which the next one could be     *)
(* over the cap.                                                            *)
IInv ==
    /\ SweepTypeOK
    /\ SweepBounds
    /\ side = "buy" => \A p \in todo : p <= Cap

(* The invariant holds before any order.                                    *)
LEMMA InitIInv == SweepInit => IInv
<1>. SUFFICES ASSUME SweepInit PROVE IInv
  OBVIOUS
<1>. USE PaperSweepAssumption DEF SweepInit, NoSweep
<1>1. \A p \in Prices : book[p] = 0 /\ took[p] = 0
  BY DEF Empty
<1>2. SweepTypeOK
  <2>1. Empty \in Books /\ Empty \in [Prices -> Nat]
    BY DEF Empty, Books
  <2>2. done \in BOOLEAN
    OBVIOUS
  <2>. QED
    BY <2>1, <2>2 DEF SweepTypeOK
<1>3. SweepBounds
  BY <1>1 DEF SweepBounds
<1>. QED
  BY <1>2, <1>3 DEF IInv

(* An order begins with nothing taken and all of its amount left.           *)
LEMMA StartIInv ==
    ASSUME NEW s \in {"buy", "sell"}, NEW b \in Books, NEW n \in Nat,
           Start(s, b, n), todo' \subseteq Prices,
           s = "buy" => \A p \in todo' : p <= Cap
    PROVE  IInv'
<1>. USE PaperSweepAssumption
<1>1. \A p \in Prices : book'[p] \in Nat /\ took'[p] = 0
  BY DEF Start, Empty, Books
<1>2. SweepTypeOK'
  BY DEF Start, SweepTypeOK, Empty, Books
<1>3. SweepBounds'
  <2>1. side' = "buy" => notional' + left' = asked' /\ notional' <= Cap * shares'
    BY DEF Start
  <2>2. side' = "sell" => shares' + left' = asked'
    BY DEF Start
  <2>3. ASSUME NEW p \in Prices, NEW share \in {100, Haircut}
        PROVE  took'[p] * Lot * 100 <= book'[p] * share
    <3>1. took'[p] * Lot * 100 = 0
      BY <1>1
    <3>2. share \in Nat /\ book'[p] \in Nat
      BY <1>1
    <3>3. 0 <= book'[p] * share
      BY <3>2, SMT
    <3>. QED
      BY <3>1, <3>3
  <2>. QED
    BY <2>1, <2>2, <2>3 DEF SweepBounds
<1>. QED
  BY <1>2, <1>3 DEF IInv, Start

(* A level taken within its size and the amount left.                       *)
LEMMA TakeIInv ==
    ASSUME IInv, NEW p \in todo, NEW n \in Nat, NEW paid \in Nat,
           Take(p, n, paid), paid <= left, side \in {"buy", "sell"},
           side = "buy"  => paid = n * p /\ n * Lot <= book[p],
           side = "sell" => paid = n /\ (n * Lot) * 100 <= book[p] * Haircut
    PROVE  IInv'
<1>. USE PaperSweepAssumption
<1>1. p \in Prices /\ p \in Nat \ {0}
  BY DEF IInv, SweepTypeOK
<1>2. n * p \in Nat
  BY <1>1
<1>3. SweepTypeOK'
  <2>1. left - paid \in Nat
    BY DEF IInv, SweepTypeOK
  <2>2. took' \in [Prices -> Nat] /\ shares' \in Nat /\ notional' \in Nat
    BY <1>1, <1>2 DEF Take, IInv, SweepTypeOK
  <2>. QED
    BY <2>1, <2>2 DEF Take, IInv, SweepTypeOK
<1>4. SweepBounds'
  <2>1. CASE side = "buy"
    <3>1. notional' + left' = asked'
      BY <1>1, <1>2, <2>1 DEF Take, IInv, SweepTypeOK, SweepBounds
    <3>2. notional' <= Cap * shares'
      <4>1. p * n <= Cap * n
        BY <1>1, <2>1, TimesKeeps DEF IInv
      <4>2. notional <= Cap * shares /\ shares \in Nat /\ notional \in Nat
        BY <2>1 DEF IInv, SweepTypeOK, SweepBounds
      <4>3. Cap * (shares + n) = Cap * shares + Cap * n
        BY <4>2, SMT
      <4>4. Cap * shares \in Nat /\ Cap * n \in Nat /\ p * n = n * p
        BY <1>1, <4>2, SMT
      <4>5. notional + n * p <= Cap * (shares + n)
        BY <1>2, <4>1, <4>2, <4>3, <4>4
      <4>. QED
        BY <4>5 DEF Take
    <3>3. ASSUME NEW q \in Prices PROVE took'[q] * Lot * 100 <= book'[q] * 100
      <4>1. CASE q = p
        <5>1. took'[q] = n /\ book' = book
          BY <1>1, <4>1 DEF Take, IInv, SweepTypeOK
        <5>2. n * Lot \in Nat /\ book[p] \in Nat /\ n * Lot <= book[p]
          BY <1>1, <2>1 DEF IInv, SweepTypeOK, Books
        <5>. QED
          BY <4>1, <5>1, <5>2
      <4>2. CASE q # p
        BY <2>1, <4>2 DEF Take, IInv, SweepTypeOK, SweepBounds
      <4>. QED
        BY <4>1, <4>2
    <3>4. side' = "buy"
      BY <2>1 DEF Take
    <3>. QED
      BY <3>1, <3>2, <3>3, <3>4 DEF SweepBounds
  <2>2. CASE side = "sell"
    <3>1. shares' + left' = asked'
      BY <2>2 DEF Take, IInv, SweepTypeOK, SweepBounds
    <3>2. ASSUME NEW q \in Prices PROVE took'[q] * Lot * 100 <= book'[q] * Haircut
      <4>1. CASE q = p
        <5>1. took'[q] = n /\ book' = book
          BY <1>1, <4>1 DEF Take, IInv, SweepTypeOK
        <5>. QED
          BY <2>2, <4>1, <5>1
      <4>2. CASE q # p
        BY <2>2, <4>2 DEF Take, IInv, SweepTypeOK, SweepBounds
      <4>. QED
        BY <4>1, <4>2
    <3>3. side' = "sell"
      BY <2>2 DEF Take
    <3>. QED
      BY <3>1, <3>2, <3>3 DEF SweepBounds
  <2>. QED
    BY <2>1, <2>2
<1>. QED
  BY <1>3, <1>4 DEF IInv, Take

(* A purchase begins within its limits: the levels over the cap are left    *)
(* out.                                                                     *)
LEMMA BuyIInv == \A b \in Books, n \in Nat : StartBuy(b, n) => IInv'
<1>. SUFFICES ASSUME NEW b \in Books, NEW n \in Nat, StartBuy(b, n) PROVE IInv'
  OBVIOUS
<1>1. Start("buy", b, n) /\ todo' \subseteq Prices /\ \A p \in todo' : p <= Cap
  BY DEF StartBuy
<1>. QED
  BY <1>1, StartIInv

(* So does a sale.                                                          *)
LEMMA SaleIInv == \A b \in Books, n \in Nat : StartSale(b, n) => IInv'
<1>. SUFFICES ASSUME NEW b \in Books, NEW n \in Nat, StartSale(b, n) PROVE IInv'
  OBVIOUS
<1>1. Start("sell", b, n) /\ todo' \subseteq Prices
  BY DEF StartSale
<1>. QED
  BY <1>1, StartIInv

(* Every step of a sweep, the one that ends it included, and every new      *)
(* order keep the invariant.                                                *)
LEMMA StepIInv == IInv /\ [SweepNext]_sweepVars => IInv'
<1>. SUFFICES ASSUME IInv, [SweepNext]_sweepVars PROVE IInv'
  OBVIOUS
<1>3. CASE Stop \/ UNCHANGED sweepVars
  <2>1. UNCHANGED <<side, book, todo, took, asked, left, shares, notional>>
        /\ done' \in BOOLEAN
    BY <1>3 DEF Stop, sweepVars, IInv, SweepTypeOK
  <2>. QED
    BY <2>1 DEF IInv, SweepTypeOK, SweepBounds
<1>4. ASSUME NEW p \in todo, BuyLevel(p), ~Stop PROVE IInv'
  <2>. DEFINE n == Affordable(p)
  <2>1. p \in Prices /\ p \in Nat
    BY PaperSweepAssumption DEF IInv, SweepTypeOK
  <2>2. n \in Nat /\ n * p <= left /\ n * Lot <= book[p]
    BY <2>1, AffordableFits DEF IInv
  <2>3. Take(p, n, n * p) /\ side = "buy" /\ n * p \in Nat
    BY <1>4, <2>1, <2>2 DEF BuyLevel
  <2>. HIDE DEF n
  <2>. QED
    BY <2>2, <2>3, TakeIInv
<1>5. ASSUME NEW p \in todo, SellLevel(p), ~Stop PROVE IInv'
  <2>. DEFINE n == Sellable(p)
  <2>1. p \in Prices
    BY DEF IInv, SweepTypeOK
  <2>2. n \in Nat /\ n <= left /\ (n * Lot) * 100 <= book[p] * Haircut
    BY <2>1, SellableFits DEF IInv
  <2>3. Take(p, n, n) /\ side = "sell"
    BY <1>5 DEF SellLevel
  <2>. HIDE DEF n
  <2>. QED
    BY <2>2, <2>3, TakeIInv
<1>6. CASE SweepStep
  BY <1>3, <1>4, <1>5, <1>6 DEF SweepStep, OutOfLevels
<1>. QED
  BY <1>3, <1>6, BuyIInv, SaleIInv DEF SweepNext

(* An order that is forgotten leaves no trace.                              *)
LEMMA ForgetIInv == IInv /\ Forget => IInv'
<1>. SUFFICES ASSUME Forget PROVE IInv'
  OBVIOUS
<1>. USE PaperSweepAssumption DEF Forget
<1>1. \A p \in Prices : book'[p] = 0 /\ took'[p] = 0
  BY DEF Empty
<1>2. SweepTypeOK'
  <2>1. Empty \in Books /\ Empty \in [Prices -> Nat]
    BY DEF Empty, Books
  <2>2. done' \in BOOLEAN
    OBVIOUS
  <2>. QED
    BY <2>1, <2>2 DEF SweepTypeOK
<1>3. SweepBounds'
  BY <1>1 DEF SweepBounds
<1>. QED
  BY <1>2, <1>3 DEF IInv

-----------------------------------------------------------------------------
(* What a sweep leaves.  A level it came past is eaten, or what was left    *)
(* then would not do for two lots of it; the levels to come are worse.      *)
Passed(p)    == p \notin todo /\ book[p] > 0 /\ (side = "buy" => p <= Cap)
Unit(p)      == IF side = "buy" THEN p ELSE 1
Better(p, q) == IF side = "buy" THEN p < q ELSE q < p

LevelsOK ==
    /\ \A p \in todo : book[p] > 0
    /\ \A p \in Prices : ~ Passed(p) => took[p] = 0
    /\ \A p \in Prices, q \in todo : Passed(p) => Better(p, q)
    /\ \A p \in Prices : Passed(p) => Eaten(p) \/ left < 2 * Unit(p)

(* The inductive invariant of greed.                                        *)
Greedy == LevelsOK /\ BestFirst /\ NothingLeft

(* Rounding loses less than two lots.                                       *)
LEMMA RoundSizeNear ==
    ASSUME NEW n \in Nat, NEW d \in Nat \ {0}
    PROVE  /\ RoundSize(n, d) >= n \div d - 1
           /\ n - RoundSize(n, d) * d < 2 * d
<1>1. n \div d \in Nat /\ n - (n \div d) * d < d
  BY SMT
<1>2. RoundSize(n, d) \in {n \div d, n \div d - 1}
  BY DEF RoundSize
<1>3. (n \div d - 1) * d = (n \div d) * d - d
  BY <1>1, SMT
<1>4. (n \div d) * d \in Nat
  BY <1>1, SMT
<1>. QED
  BY <1>1, <1>2, <1>3, <1>4

(* Nothing is rounded to nothing.                                           *)
LEMMA RoundSizeZero ==
    ASSUME NEW d \in Nat \ {0}
    PROVE  RoundSize(0, d) = 0 /\ 0 \div d = 0
<1>1. 0 \div d = 0
  BY SMT
<1>2. 0 \notin Falls
  BY PaperSweepAssumption
<1>. QED
  BY <1>1, <1>2 DEF RoundSize

(* A purchase spends its cash but for two lots' worth, or eats the level.   *)
LEMMA AffordableLeaves ==
    ASSUME SweepTypeOK, NEW p \in Prices
    PROVE  \/ left - Affordable(p) * p < 2 * p
           \/ /\ Affordable(p) = RoundSize(book[p], Lot)
              /\ Affordable(p) >= book[p] \div Lot - 1
<1>1. p \in Nat \ {0} /\ Lot \in Nat \ {0} /\ left \in Nat /\ book[p] \in Nat
  BY PaperSweepAssumption DEF SweepTypeOK, Books
<1>. QED
  BY <1>1, RoundSizeNear DEF Affordable

(* A sale sells its shares but for a lot, or eats the level.                *)
LEMMA SellableLeaves ==
    ASSUME SweepTypeOK, NEW p \in Prices
    PROVE  left - Sellable(p) < 2 \/ Sellable(p) >= Depth(p) - 1
<1>1. Lot \in Nat \ {0} /\ Haircut \in Nat /\ left \in Nat /\ book[p] \in Nat
  BY PaperSweepAssumption DEF SweepTypeOK, Books
<1>2. book[p] * Haircut \in Nat /\ Lot * 100 \in Nat \ {0}
  BY <1>1, SMT
<1>3. Depth(p) \in Nat
  BY <1>2, RoundSizeFalls DEF Depth
<1>. DEFINE m == Lesser(left, Depth(p))
<1>4. m \in Nat /\ m \in {left, Depth(p)}
  BY <1>1, <1>3 DEF Lesser
<1>. HIDE DEF m
<1>5. m - RoundSize(m, 1) * 1 < 2 * 1 /\ RoundSize(m, 1) \in Nat
  BY <1>4, RoundSizeNear, RoundSizeFalls
<1>6. Sellable(p) = RoundSize(m, 1)
  BY DEF Sellable, m
<1>. QED
  BY <1>1, <1>3, <1>4, <1>5, <1>6

(* What is left at the end of a level, and what has been eaten of it.       *)
LEMMA TakeLeaves ==
    ASSUME IInv, Greedy, NEW p \in todo, NEW n \in Nat, NEW paid \in Nat,
           Take(p, n, paid), paid = n * Unit(p), paid <= left,
           side \in {"buy", "sell"}, ~done,
           side = "buy" => p <= Cap,
           \A q \in todo : q = p \/ Better(p, q),
           left - paid < 2 * Unit(p) \/ n >= Shown(p) - 1
    PROVE  Greedy'
<1>. USE PaperSweepAssumption
<1>1. /\ p \in Prices /\ Prices \subseteq Nat \ {0} /\ todo \subseteq Prices
      /\ \A q \in Prices : took[q] \in Nat
      /\ left \in Nat /\ Cap \in Nat
  BY DEF IInv, SweepTypeOK
<1>2. /\ side' = side /\ book' = book /\ done' = done /\ todo' = todo \ {p}
      /\ took'[p] = n /\ \A q \in Prices : q # p => took'[q] = took[q]
      /\ left' = left - paid /\ left' <= left
  BY <1>1 DEF Take, IInv, SweepTypeOK
<1>3. \A q \in Prices : /\ Unit(q)' = Unit(q) /\ Unit(q) \in Nat \ {0}
                        /\ Shown(q)' = Shown(q)
                        /\ q # p => (Eaten(q)' <=> Eaten(q))
  BY <1>1, <1>2 DEF Unit, Shown, Eaten, Depth
<1>4. \A q, r \in Prices : Better(q, r)' <=> Better(q, r)
  BY <1>2 DEF Better
<1>5. \A q \in Prices : Passed(q)' <=> Passed(q) \/ q = p
  BY <1>1, <1>2 DEF Passed, Greedy, LevelsOK
<1>6. Eaten(p)' \/ left' < 2 * Unit(p)
  BY <1>1, <1>2, <1>3 DEF Eaten
<1>7. LevelsOK'
  <2>1. \A q \in Prices : ~ Passed(q)' => took'[q] = 0
    BY <1>2, <1>5 DEF Greedy, LevelsOK
  <2>2. ASSUME NEW q \in Prices, NEW r \in todo', Passed(q)' PROVE Better(q, r)'
    BY <1>1, <1>2, <1>4, <1>5, <2>2 DEF Greedy, LevelsOK
  <2>3. ASSUME NEW q \in Prices, Passed(q)' PROVE Eaten(q)' \/ left' < 2 * Unit(q)'
    <3>1. CASE q = p
      BY <1>3, <1>6, <3>1
    <3>2. CASE q # p
      <4>1. Eaten(q) \/ left < 2 * Unit(q)
        BY <1>5, <2>3, <3>2 DEF Greedy, LevelsOK
      <4>. QED
        BY <1>1, <1>2, <1>3, <3>2, <4>1
    <3>. QED
      BY <3>1, <3>2
  <2>4. \A q \in todo' : book'[q] > 0
    BY <1>2 DEF Greedy, LevelsOK
  <2>. QED
    BY <2>1, <2>2, <2>3, <2>4 DEF LevelsOK
<1>8. BestFirst'
  <2>. SUFFICES ASSUME NEW q \in Prices, NEW r \in Prices, took'[r] > 1,
                       side' = "buy" => q < r, side' = "sell" => r < q
                PROVE  Eaten(q)'
    BY DEF BestFirst
  <2>0. Better(q, r) /\ q # r
    BY <1>1, <1>2 DEF Better
  <2>1. CASE r # p /\ q # p
    BY <1>2, <1>3, <2>1 DEF Greedy, BestFirst
  <2>2. CASE r # p /\ q = p
    <3>1. took[r] > 1
      BY <1>2, <2>2
    <3>2. Passed(r)
      BY <3>1 DEF Greedy, LevelsOK
    <3>3. Better(r, q)
      BY <2>2, <3>2 DEF Greedy, LevelsOK
    <3>. QED
      BY <1>1, <2>0, <3>3 DEF Better
  <2>3. CASE r = p
    <3>1. q \notin todo
      BY <1>1, <2>0, <2>3 DEF Better
    <3>2. CASE book[q] = 0
      <4>1. book[q] * Haircut = 0 /\ Lot * 100 \in Nat \ {0}
        BY <3>2
      <4>2. Shown(q) = 0
        BY <3>2, <4>1, RoundSizeZero DEF Shown, Depth
      <4>. QED
        BY <1>1, <1>2, <1>3, <2>0, <2>3, <4>2 DEF Eaten
    <3>3. CASE book[q] # 0
      <4>1. book[q] > 0
        BY <3>3 DEF IInv, SweepTypeOK, Books
      <4>2. Passed(q)
        BY <1>1, <2>0, <2>3, <3>1, <4>1 DEF Passed, Better
      <4>3. Eaten(q) \/ left < 2 * Unit(q)
        BY <4>2 DEF Greedy, LevelsOK
      <4>4. ~(left < 2 * Unit(q))
        <5>1. n >= 2 /\ Unit(p) >= Unit(q)
          BY <1>1, <1>2, <2>0, <2>3 DEF Unit, Better
        <5>2. 2 * Unit(p) <= n * Unit(p)
          BY <1>1, <1>3, <5>1, TimesKeeps
        <5>3. n * Unit(p) <= left
          OBVIOUS
        <5>4. n * Unit(p) \in Nat
          OBVIOUS
        <5>. QED
          BY <1>1, <1>3, <5>1, <5>2, <5>3, <5>4
      <4>. QED
        BY <1>3, <2>0, <2>3, <4>3, <4>4
    <3>. QED
      BY <3>2, <3>3
  <2>. QED
    BY <2>1, <2>2, <2>3
<1>9. NothingLeft'
  BY <1>2 DEF NothingLeft
<1>. QED
  BY <1>7, <1>8, <1>9 DEF Greedy

(* A sweep that ends has nothing left to take.                              *)
LEMMA StopLeaves ==
    ASSUME IInv, Greedy, Stop,
           \/ side \in {"buy", "sell"} /\ left = 0
           \/ side \in {"buy", "sell"} /\ todo = {}
           \/ /\ side = "buy"
              /\ \E p \in todo : Affordable(p) = 0 /\ \A q \in todo : p <= q
    PROVE  Greedy'
<1>. USE PaperSweepAssumption
<1>1. UNCHANGED <<side, book, todo, took, left>> /\ done'
  BY DEF Stop
<1>2. LevelsOK' /\ BestFirst'
  BY <1>1 DEF Greedy, LevelsOK, BestFirst, Passed, Better, Unit, Eaten, Shown, Depth
<1>3. /\ Prices \subseteq Nat \ {0} /\ todo \subseteq Prices /\ left \in Nat
      /\ \A p \in Prices : took[p] \in Nat /\ book[p] \in Nat
  BY DEF IInv, SweepTypeOK, Books
<1>4. ASSUME ~Dust, NEW p \in Prices, p <= Cap \/ side = "sell"
      PROVE  Eaten(p) \/ left < 2 * Unit(p)
  <2>1. CASE left = 0
    BY <1>3, <2>1 DEF Unit
  <2>2. CASE p \notin todo /\ side \in {"buy", "sell"}
    <3>1. CASE Passed(p)
      BY <3>1 DEF Greedy, LevelsOK
    <3>2. CASE ~Passed(p)
      <4>1. book[p] = 0
        BY <1>3, <1>4, <2>2, <3>2 DEF Passed
      <4>2. book[p] * Haircut = 0 /\ Lot * 100 \in Nat \ {0}
        BY <4>1
      <4>3. Shown(p) = 0
        BY <4>1, <4>2, RoundSizeZero DEF Shown, Depth
      <4>. QED
        BY <1>3, <4>3 DEF Eaten
    <3>. QED
      BY <3>1, <3>2
  <2>3. CASE side = "buy" /\ \E q \in todo : Affordable(q) = 0 /\ \A r \in todo : q <= r
    <3>1. PICK q \in todo : Affordable(q) = 0 /\ \A r \in todo : q <= r
      BY <2>3
    <3>2. q \in Prices /\ q <= Cap
      BY <1>3, <2>3 DEF IInv
    <3>3. RoundSize(book[q], Lot) # 0
      BY <1>4, <2>3, <3>2 DEF Dust
    <3>4. left - Affordable(q) * q < 2 * q
      BY <3>1, <3>2, <3>3, AffordableLeaves DEF IInv
    <3>5. left < 2 * q
      BY <1>3, <3>1, <3>2, <3>4
    <3>6. p \in todo => left < 2 * p
      BY <1>3, <3>1, <3>2, <3>5
    <3>. QED
      BY <2>2, <2>3, <3>6 DEF Unit
  <2>. QED
    BY <2>1, <2>2, <2>3
<1>5. ~Dust' => ~Dust
  BY <1>1 DEF Dust
<1>6. ASSUME ~Dust', NEW p \in Prices, p <= Cap \/ side = "sell"
      PROVE  Eaten(p)' \/ left' < 2 * (IF side' = "buy" THEN p ELSE 1)
  <2>1. Eaten(p) \/ left < 2 * Unit(p)
    BY <1>4, <1>5, <1>6
  <2>. QED
    BY <1>1, <2>1 DEF Eaten, Shown, Depth, Unit
<1>7. NothingLeft'
  BY <1>1, <1>6 DEF NothingLeft
<1>. QED
  BY <1>2, <1>7 DEF Greedy

(* Before any order, and at the beginning of one, nothing is taken.         *)
LEMMA UntakenGreedy ==
    ASSUME took = Empty, ~done, \A p \in todo : book[p] > 0, todo \subseteq Prices,
           \A p \in Prices : ~Passed(p)
    PROVE  Greedy
<1>1. \A p \in Prices : took[p] = 0
  BY DEF Empty
<1>. QED
  BY <1>1 DEF Greedy, LevelsOK, BestFirst, NothingLeft

(* The invariant of greed holds before any order.                           *)
LEMMA InitGreedy == SweepInit => Greedy
<1>. SUFFICES ASSUME SweepInit PROVE Greedy
  OBVIOUS
<1>1. \A p \in Prices : book[p] = 0
  BY DEF SweepInit, NoSweep, Empty
<1>2. ASSUME NEW p \in Prices PROVE ~Passed(p)
  <2>1. ~(book[p] > 0)
    BY <1>1
  <2>. QED
    BY <2>1 DEF Passed
<1>. QED
  BY <1>2, UntakenGreedy DEF SweepInit, NoSweep

(* A forgotten order leaves nothing behind.                                 *)
LEMMA ForgetGreedy == Forget => Greedy'
<1>. SUFFICES ASSUME Forget PROVE Greedy'
  OBVIOUS
<1>1. \A p \in Prices : book'[p] = 0 /\ took'[p] = 0
  BY DEF Forget, Empty
<1>. QED
  BY <1>1 DEF Forget, Greedy, LevelsOK, BestFirst, NothingLeft, Passed

(* A new order begins greedy.                                               *)
LEMMA StartGreedy ==
    ASSUME NEW b \in Books, NEW n \in Nat, StartBuy(b, n) \/ StartSale(b, n)
    PROVE  Greedy'
<1>1. \A p \in Prices : b[p] \in Nat
  BY PaperSweepAssumption DEF Books
<1>2. /\ book' = b /\ ~done' /\ \A p \in Prices : took'[p] = 0
      /\ todo' \subseteq Prices /\ \A p \in todo' : b[p] > 0
      /\ \A p \in Prices : b[p] > 0 /\ (side' = "buy" => p <= Cap) => p \in todo'
  BY DEF StartBuy, StartSale, Start, Empty
<1>. QED
  BY <1>2 DEF Greedy, LevelsOK, BestFirst, NothingLeft, Passed

(* Every step of a sweep is greedy.                                         *)
LEMMA StepGreedy == IInv /\ Greedy /\ [SweepNext]_sweepVars => Greedy'
<1>. SUFFICES ASSUME IInv, Greedy, [SweepNext]_sweepVars PROVE Greedy'
  OBVIOUS
<1>1. todo \subseteq Prices /\ left \in Nat /\ Prices \subseteq Nat \ {0}
  BY PaperSweepAssumption DEF IInv, SweepTypeOK
<1>2. ASSUME NEW p \in todo, BuyLevel(p) PROVE Greedy'
  <2>. DEFINE n == Affordable(p)
  <2>0. p \in Prices /\ side = "buy" /\ ~done
    BY <1>1, <1>2 DEF BuyLevel
  <2>1. CASE Stop
    <3>1. left = 0 \/ n = 0
      BY <1>2, <2>0, <2>1 DEF BuyLevel, Stop, Take
    <3>2. \A q \in todo : p <= q
      BY <1>2 DEF BuyLevel
    <3>. QED
      BY <2>0, <2>1, <3>1, <3>2, StopLeaves
  <2>2. CASE ~Stop
    <3>1. n \in Nat /\ n * p <= left /\ n * p \in Nat /\ Take(p, n, n * p)
      BY <1>1, <1>2, <2>0, <2>2, AffordableFits DEF IInv, BuyLevel
    <3>2. left - n * p < 2 * p \/ n >= Shown(p) - 1
      BY <2>0, AffordableLeaves DEF IInv, Shown
    <3>3. p <= Cap /\ \A q \in todo : q = p \/ Better(p, q)
      BY <1>1, <1>2, <2>0 DEF IInv, BuyLevel, Better
    <3>4. Unit(p) = p
      BY <2>0 DEF Unit
    <3>. HIDE DEF n
    <3>. QED
      BY <2>0, <3>1, <3>2, <3>3, <3>4, TakeLeaves
  <2>. QED
    BY <2>1, <2>2
<1>3. ASSUME NEW p \in todo, SellLevel(p) PROVE Greedy'
  <2>. DEFINE n == Sellable(p)
  <2>0. p \in Prices /\ side = "sell" /\ ~done
    BY <1>1, <1>3 DEF SellLevel
  <2>1. CASE Stop
    <3>1. left = 0
      BY <1>3, <2>1 DEF SellLevel, Stop, Take, IInv, SweepTypeOK
    <3>. QED
      BY <2>0, <2>1, <3>1, StopLeaves
  <2>2. CASE ~Stop
    <3>1. n \in Nat /\ n <= left /\ Take(p, n, n)
      BY <1>3, <2>0, <2>2, SellableFits DEF IInv, SellLevel
    <3>2. left - n < 2 \/ n >= Shown(p) - 1
      BY <2>0, SellableLeaves DEF IInv, Shown
    <3>3. \A q \in todo : q = p \/ Better(p, q)
      BY <1>1, <1>3, <2>0 DEF SellLevel, Better
    <3>4. Unit(p) = 1 /\ n = n * Unit(p)
      BY <2>0, <3>1 DEF Unit
    <3>. HIDE DEF n
    <3>. QED
      BY <2>0, <3>1, <3>2, <3>3, <3>4, TakeLeaves
  <2>. QED
    BY <2>1, <2>2
<1>4. CASE OutOfLevels
  BY <1>4, StopLeaves DEF OutOfLevels, IInv, SweepTypeOK
<1>5. CASE UNCHANGED sweepVars
  BY <1>5 DEF sweepVars, Greedy, LevelsOK, BestFirst, NothingLeft, Dust,
              Passed, Better, Unit, Eaten, Shown, Depth
<1>. QED
  BY <1>2, <1>3, <1>4, <1>5, StartGreedy DEF SweepNext, SweepStep

-----------------------------------------------------------------------------
(* The fill.  A lot costs a tick at least, so that no purchase brings more  *)
(* lots than the cash it began with.                                        *)
Cheap == side = "buy" => shares <= notional

(* A step of a sweep is of the same order.                                  *)
LEMMA StepOfOrder == SweepStep => UNCHANGED <<side, asked>>
BY DEF SweepStep, BuyLevel, SellLevel, OutOfLevels, Stop, Take

(* Each level taken pays a tick a lot at least.                             *)
LEMMA StepCheap == IInv /\ Cheap /\ SweepStep => Cheap'
<1>. SUFFICES ASSUME IInv, Cheap, SweepStep PROVE Cheap'
  OBVIOUS
<1>1. CASE Stop
  BY <1>1 DEF Stop, Cheap
<1>2. ASSUME NEW p \in todo, BuyLevel(p), ~Stop PROVE Cheap'
  <2>. DEFINE n == Affordable(p)
  <2>1. p \in Prices /\ p \in Nat \ {0}
    BY PaperSweepAssumption DEF IInv, SweepTypeOK
  <2>2. n \in Nat /\ Take(p, n, n * p)
    BY <1>2, <2>1, AffordableFits DEF IInv, BuyLevel
  <2>3. n <= n * p /\ n * p \in Nat
    <3>. HIDE DEF n
    <3>1. 1 * n <= p * n
      BY <2>1, <2>2, TimesKeeps
    <3>. QED
      BY <2>1, <2>2, <3>1
  <2>4. side' = side /\ shares' = shares + n /\ notional' = notional + n * p
    BY <2>2 DEF Take
  <2>. HIDE DEF n
  <2>. QED
    BY <2>2, <2>3, <2>4 DEF Cheap, IInv, SweepTypeOK
<1>3. ASSUME NEW p \in todo, SellLevel(p) PROVE Cheap'
  <2>1. side = "sell" /\ side' = side
    BY <1>3 DEF SellLevel, Stop, Take
  <2>. QED
    BY <2>1 DEF Cheap
<1>. QED
  BY <1>1, <1>2, <1>3 DEF SweepStep, OutOfLevels

(* A fill is of no more than the order asked.                               *)
LEMMA FillFits ==
    ASSUME IInv, Cheap, side \in {"buy", "sell"}
    PROVE  shares \in Nat /\ shares <= asked
BY DEF IInv, Cheap, SweepTypeOK, SweepBounds

-----------------------------------------------------------------------------
(* No sweep leaves its invariant, whatever the book and the amount.         *)
THEOREM SweepInvariance == SweepSpec => []IInv
BY InitIInv, StepIInv, PTL DEF SweepSpec

(* The types: no cash and no shares are ever taken below zero.              *)
THEOREM SweepTypeCorrect == SweepSpec => []SweepTypeOK
<1>1. IInv => SweepTypeOK
  BY DEF IInv
<1>. QED
  BY <1>1, SweepInvariance, PTL

(* The limits: a purchase stays within its cash and its cap, a sale within  *)
(* its shares, and neither takes of a level more than it shows.             *)
THEOREM SweepStaysInBounds == SweepSpec => []SweepBounds
<1>1. IInv => SweepBounds
  BY DEF IInv
<1>. QED
  BY <1>1, SweepInvariance, PTL

(* The best levels first, and nothing left that could be had: no simulated  *)
(* order is dearer, or smaller, than the book it sweeps makes it.           *)
THEOREM SweepTakesTheBest == SweepSpec => [](BestFirst /\ NothingLeft)
<1>1. SweepInit => IInv /\ Greedy
  BY InitIInv, InitGreedy
<1>2. IInv /\ Greedy /\ [SweepNext]_sweepVars => (IInv /\ Greedy)'
  BY StepIInv, StepGreedy
<1>3. Greedy => BestFirst /\ NothingLeft
  BY DEF Greedy
<1>. QED
  BY <1>1, <1>2, <1>3, PTL DEF SweepSpec

-----------------------------------------------------------------------------
(* The orders of the machine.                                               *)

(* What is proved of Broker.tla, of the wallet as each call finds it.       *)
Wallet == INSTANCE BrokerProofs WITH account <- Before, belief <- pos

Kinds == {"none", "buy", "panic", "secure"}
Pcs   == {"idle", "sweep", "balance", "refresh", "post", "sync"}
Modes == {"paper", "dry", "live"}

(* The types, of numbers that nothing bounds yet.                           *)
PosOK   == pos \in [token : Tokens \cup {None}, n : Nat]
OrderOK == order \in [kind : Kinds, token : Tokens \cup {None}, attempt : 0 .. 2,
                      size : Nat, filled : Nat, moved : Nat]
ClobOK  == /\ owned \in [Tokens -> Nat] /\ seen \in [Tokens -> Nat]
           /\ lost \in 0 .. MaxLost
           /\ \A t \in Tokens : seen[t] <= owned[t]
FlagsOK == mode \in Modes /\ played \in BOOLEAN /\ booked \in Nat /\ pc \in Pcs

(* The call: what it is for, at each await it can be at.                    *)
CallOK ==
    /\ pc = "idle" <=> order.kind = "none"
    /\ pc = "idle" => order = NoOrder
    /\ order.filled = order.moved
    /\ order.moved > 0 => pc \in {"post", "sync"}
    /\ pc = "post" /\ order.kind = "buy" => order.moved = 0
    /\ pc = "sync" => order.kind = "buy" /\ order.moved > 0
    /\ pc \in {"balance", "refresh"} => order.kind # "buy"

(* The order: a purchase of an empty, unplayed window, within a stake; a    *)
(* sale of the position.                                                    *)
AimOK ==
    /\ order.kind = "buy" =>
          /\ pos = NoPos /\ ~played /\ order.token \in Tokens
          /\ order.size <= MaxStake /\ order.moved <= MaxStake
    /\ order.kind \in {"panic", "secure"} => pos # NoPos /\ order.token = pos.token

(* The position: of one token, within a stake, in a window that is played;  *)
(* what is booked is of a position closed.                                  *)
PositionOK ==
    /\ pos # NoPos => pos.token \in Tokens /\ pos.n > 0 /\ played
    /\ pos.n <= MaxStake
    /\ booked > 0 => played /\ pos = NoPos

(* Paper holds what the machine believes, and has no CLOB to see it; a dry  *)
(* run holds nothing.                                                       *)
ModeOK ==
    /\ mode = "paper" => /\ pc \in {"idle", "sweep"} /\ seen = Nothing
                         /\ pos # NoPos => pos.n <= owned[pos.token]
    /\ mode = "dry" => owned = Nothing /\ pos = NoPos
    /\ pc = "sync" => mode = "live"

(* A sweep is of the order under way.                                       *)
SweepOfOrder ==
    pc = "sweep" => /\ mode = "paper" /\ asked = order.size
                    /\ order.kind = "buy" => side = "buy"
                    /\ order.kind # "buy" => side = "sell" /\ order.size = pos.n

(* No order and no booking is beyond what a window can hold.                *)
AmountsOK == order.size \in Lots /\ booked \in Lots

Types   == PosOK /\ OrderOK /\ ClobOK /\ FlagsOK
Sweeps  == IInv /\ Greedy /\ Cheap
Machine == CallOK /\ AimOK /\ PositionOK /\ ModeOK /\ SweepOfOrder /\ AmountsOK

(* The inductive invariant.                                                 *)
EInv == Sweeps /\ Types /\ Machine /\ Wallet!IInv

-----------------------------------------------------------------------------
(* The constants: the largest stake, and what a window may come to hold.    *)
LEMMA Constants ==
    /\ MaxStake \in Nat /\ MaxLost \in Nat
    /\ \A n \in Stakes : n \in Nat /\ n <= MaxStake
    /\ (1 + MaxLost) * MaxStake \in Nat /\ MaxStake <= (1 + MaxLost) * MaxStake
    /\ \A n \in Nat : n <= MaxStake => n \in Lots
<1>1. MaxStake \in Stakes /\ \A m \in Stakes : m <= MaxStake
  BY ExecutorAssumption DEF MaxStake
<1>2. MaxStake \in Nat /\ MaxLost \in Nat
  BY <1>1, ExecutorAssumption
<1>3. MaxLost * MaxStake \in Nat /\ (1 + MaxLost) * MaxStake = MaxStake + MaxLost * MaxStake
  BY <1>2, SMT
<1>. QED
  BY <1>1, <1>2, <1>3, ExecutorAssumption DEF Lots

(* A live purchase costs no more than the stake, and brings no more lots.   *)
LEMMA LiveSizeFits ==
    ASSUME NEW cash \in Stakes
    PROVE  LiveSize(cash) \in Nat /\ LiveSize(cash) <= cash
<1>1. cash \in Nat /\ Cap \in Nat \ {0} /\ Whole \in Nat \ {0}
  BY ExecutorAssumption, PaperSweepAssumption
<1>2. Cap * Whole \in Nat \ {0}
  BY <1>1, SMT
<1>. DEFINE q == cash \div (Cap * Whole)
<1>3. q \in Nat /\ q * (Cap * Whole) <= cash
  BY <1>1, <1>2, Quotient
<1>. HIDE DEF q
<1>4. 1 * Whole <= Cap * Whole
  BY <1>1, TimesKeeps
<1>5. Whole * q <= (Cap * Whole) * q
  BY <1>1, <1>2, <1>3, <1>4, TimesKeeps
<1>6. q * Whole \in Nat /\ q * Whole = Whole * q /\ (Cap * Whole) * q = q * (Cap * Whole)
  BY <1>1, <1>2, <1>3, SMT
<1>7. LiveSize(cash) = q * Whole
  BY DEF LiveSize, q
<1>. QED
  BY <1>1, <1>2, <1>3, <1>5, <1>6, <1>7

(* Rounding a number of lots gives no more lots.                            *)
LEMMA RoundFits ==
    ASSUME NEW n \in Nat
    PROVE  RoundSize(n, 1) \in Nat /\ RoundSize(n, 1) <= n
<1>1. RoundSize(n, 1) \in Nat /\ RoundSize(n, 1) * 1 <= n
  BY RoundSizeFalls
<1>. QED
  BY <1>1

-----------------------------------------------------------------------------
(* What the wallet held when the call began, by token ...                   *)
LEMMA BeforeIs ==
    ASSUME NEW t \in Tokens
    PROVE  /\ t # order.token => Before[t] = owned[t]
           /\ t = order.token /\ order.kind = "buy" => Before[t] = owned[t] - order.moved
           /\ t = order.token /\ order.kind # "buy" => Before[t] = owned[t] + order.moved
BY DEF Before

(* ... now and after a step.                                                *)
LEMMA BeforeWillBe ==
    ASSUME NEW t \in Tokens
    PROVE  /\ t # order'.token => Before'[t] = owned'[t]
           /\ t = order'.token /\ order'.kind = "buy" => Before'[t] = owned'[t] - order'.moved
           /\ t = order'.token /\ order'.kind # "buy" => Before'[t] = owned'[t] + order'.moved
BY DEF Before

(* With nothing moved, what it held is what it holds.                       *)
LEMMA NothingMoved == Types /\ order.moved = 0 => Before = owned
<1>. SUFFICES ASSUME Types, order.moved = 0 PROVE Before = owned
  OBVIOUS
<1>1. ASSUME NEW t \in Tokens PROVE Before[t] = owned[t]
  <2>1. owned[t] \in Nat
    BY DEF Types, ClobOK
  <2>. QED
    BY <2>1, BeforeIs
<1>2. DOMAIN Before = Tokens /\ owned \in [Tokens -> Nat]
  BY DEF Before, Types, ClobOK
<1>. QED
  BY <1>1, <1>2 DEF Before

(* A call that ends, and one that begins, has moved nothing.                *)
LEMMA NothingMovedNext ==
    ASSUME owned' \in [Tokens -> Nat], order'.moved = 0
    PROVE  Before' = owned'
<1>1. ASSUME NEW t \in Tokens PROVE Before'[t] = owned'[t]
  <2>1. owned'[t] \in Nat
    OBVIOUS
  <2>. QED
    BY <2>1, BeforeWillBe
<1>2. DOMAIN Before' = Tokens
  BY DEF Before
<1>. QED
  BY <1>1, <1>2 DEF Before

(* A call that goes on with the wallet it had found it as it did.           *)
LEMMA SameBefore ==
    ASSUME owned' = owned, order'.token = order.token, order'.kind = order.kind,
           order'.moved = order.moved
    PROVE  Before' = Before
BY DEF Before

(* One whose order is matched in part found the wallet as it did.           *)
LEMMA MovedBefore ==
    ASSUME Types, owned' \in [Tokens -> Nat], NEW n \in Nat,
           order'.token = order.token, order'.kind = order.kind,
           order'.moved = order.moved + n,
           \A t \in Tokens : t # order.token => owned'[t] = owned[t],
           \A t \in Tokens : t = order.token =>
              owned'[t] = IF order.kind = "buy" THEN owned[t] + n ELSE owned[t] - n
    PROVE  Before' = Before
<1>1. ASSUME NEW t \in Tokens PROVE Before'[t] = Before[t]
  <2>1. owned[t] \in Nat /\ order.moved \in Nat
    BY DEF Types, ClobOK, OrderOK
  <2>2. CASE t # order.token
    BY <2>2, BeforeIs, BeforeWillBe
  <2>3. CASE t = order.token /\ order.kind = "buy"
    <3>1. /\ Before[t] = owned[t] - order.moved
          /\ Before'[t] = owned'[t] - order'.moved
      BY <2>3, BeforeIs, BeforeWillBe
    <3>. QED
      BY <2>1, <2>3, <3>1
  <2>4. CASE t = order.token /\ order.kind # "buy"
    <3>1. /\ Before[t] = owned[t] + order.moved
          /\ Before'[t] = owned'[t] + order'.moved
      BY <2>4, BeforeIs, BeforeWillBe
    <3>. QED
      BY <2>1, <2>4, <3>1
  <2>. QED
    BY <2>2, <2>3, <2>4
<1>2. DOMAIN Before = Tokens /\ DOMAIN Before' = Tokens
  BY DEF Before
<1>. QED
  BY <1>1, <1>2 DEF Before

-----------------------------------------------------------------------------
(* The CLOB matches no more than the order, and sells no more than it has   *)
(* seen credited: the wallet moves by that.                                 *)
LEMMA MatchFits ==
    ASSUME EInv, pc = "post", NEW n \in Matches, Matched(n)
    PROVE  /\ n \in Nat \ {0} /\ n <= order.size /\ order.token \in Tokens
           /\ owned' \in [Tokens -> Nat] /\ seen' \in [Tokens -> Nat]
           /\ \A t \in Tokens : seen'[t] <= owned'[t]
           /\ \A t \in Tokens : t # order.token => owned'[t] = owned[t]
           /\ owned'[order.token] = IF order.kind = "buy" THEN owned[order.token] + n
                                                          ELSE owned[order.token] - n
           /\ order.kind # "buy" => n <= owned[order.token]
<1>. USE DEF EInv, Types, OrderOK, ClobOK
<1>1. n \in Nat \ {0} /\ n <= order.size
  BY DEF Matches
<1>2. order.kind \in {"buy", "panic", "secure"} /\ order.token \in Tokens
  BY DEF Machine, CallOK, AimOK, PositionOK, Kinds
<1>3. order.kind # "buy" => order.size <= seen[order.token]
  BY DEF Matches
<1>4. CASE order.kind = "buy"
  BY <1>1, <1>2, <1>4 DEF Matched
<1>5. CASE order.kind # "buy"
  <2>1. /\ owned' = [owned EXCEPT ![order.token] = @ - n]
        /\ seen' = [seen EXCEPT ![order.token] = @ - n]
    BY <1>5 DEF Matched
  <2>2. n <= seen[order.token] /\ seen[order.token] <= owned[order.token]
    BY <1>1, <1>2, <1>3, <1>5
  <2>. QED
    BY <1>1, <1>2, <1>5, <2>1, <2>2
<1>. QED
  BY <1>4, <1>5

(* A refresh raises what the CLOB has seen, to what there is at most.       *)
LEMMA SyncFits ==
    ASSUME EInv, order.token \in Tokens, Synced
    PROVE  /\ seen' \in [Tokens -> Nat] /\ \A t \in Tokens : seen'[t] <= owned[t]
BY DEF EInv, Types, ClobOK, Synced

(* A call that is under way is a purchase or a sale, of a token.            *)
LEMMA UnderWay ==
    ASSUME EInv, pc # "idle"
    PROVE  order.token \in Tokens /\ order.kind \in {"buy", "panic", "secure"}
BY DEF EInv, Types, OrderOK, Kinds, Machine, CallOK, AimOK, PositionOK

(* What a simulated order fills is within the order, and what it sells is   *)
(* there.                                                                   *)
LEMMA PaperFits ==
    ASSUME EInv, pc = "sweep"
    PROVE  /\ mode = "paper" /\ shares \in Nat /\ shares <= order.size /\ order.moved = 0
           /\ order.kind # "buy" => /\ pos # NoPos /\ order.token = pos.token
                                    /\ shares <= pos.n /\ shares <= owned[order.token]
<1>1. /\ mode = "paper" /\ asked = order.size
      /\ order.kind # "buy" => order.size = pos.n
  BY DEF EInv, Machine, SweepOfOrder
<1>2. side \in {"buy", "sell"}
  BY DEF EInv, Machine, SweepOfOrder
<1>3. order.moved = 0
  BY DEF EInv, Machine, CallOK, Types, OrderOK
<1>4. shares \in Nat /\ shares <= order.size
  <2>1. IInv /\ Cheap
    BY DEF EInv, Sweeps
  <2>2. shares \in Nat /\ shares <= asked
    BY <1>2, <2>1, FillFits
  <2>3. asked = order.size
    BY <1>1
  <2>. QED
    BY <2>2, <2>3
<1>5. order.kind \in {"buy", "panic", "secure"}
  <2>1. pc # "idle"
    OBVIOUS
  <2>. QED
    BY <2>1, UnderWay
<1>6. ASSUME order.kind # "buy"
      PROVE  /\ pos # NoPos /\ order.token = pos.token
             /\ shares <= pos.n /\ shares <= owned[order.token]
  <2>1. pos # NoPos /\ order.token = pos.token /\ order.token \in Tokens
    BY <1>5, <1>6 DEF EInv, Machine, AimOK, PositionOK
  <2>2. pos.n <= owned[pos.token]
    BY <1>1, <2>1 DEF EInv, Machine, ModeOK
  <2>3. pos.n \in Nat /\ owned[order.token] \in Nat
    BY <2>1 DEF EInv, Types, PosOK, ClobOK
  <2>4. order.size = pos.n
    BY <1>1, <1>6
  <2>5. shares <= pos.n
    BY <1>4, <2>4
  <2>. QED
    BY <1>4, <2>1, <2>2, <2>3, <2>5
<1>. QED
  BY <1>1, <1>3, <1>4, <1>6

(* No token holds, as a call finds it, more than a window can; nor is more  *)
(* of it under way.                                                         *)
LEMMA BeforeFits ==
    ASSUME EInv, NEW t \in Tokens
    PROVE  Before[t] \in Nat /\ Before[t] <= (1 + MaxLost) * MaxStake
<1>1. Before[t] \in Nat /\ Before[t] <= Wallet!Entries * MaxStake
  BY DEF EInv, Wallet!IInv
<1>2. Wallet!Entries \in Nat /\ Wallet!Entries <= 1 + MaxLost
  BY Constants DEF EInv, Types, ClobOK, Wallet!Entries, Wallet!Known
<1>3. Wallet!Entries * MaxStake <= (1 + MaxLost) * MaxStake
  BY <1>2, Constants, TimesKeeps
<1>4. Wallet!Entries * MaxStake \in Nat
  BY <1>2, Constants, SMT
<1>. QED
  BY <1>1, <1>3, <1>4, Constants

(* What a sale finds of its token: what there is, and what it has sold.     *)
LEMMA SaleFinds ==
    ASSUME EInv, pc # "idle", order.kind # "buy"
    PROVE  /\ order.token \in Tokens /\ order.token = pos.token /\ pos # NoPos
           /\ order.moved \in Nat /\ owned[order.token] \in Nat
           /\ Before[order.token] = owned[order.token] + order.moved
           /\ owned[order.token] + order.moved \in Lots
<1>1. order.token \in Tokens /\ order.token = pos.token /\ pos # NoPos
  BY UnderWay DEF EInv, Machine, AimOK
<1>2. order.moved \in Nat /\ owned[order.token] \in Nat
  BY <1>1 DEF EInv, Types, OrderOK, ClobOK
<1>3. Before[order.token] = owned[order.token] + order.moved
  BY <1>1, BeforeIs
<1>4. Before[order.token] \in Nat /\ Before[order.token] <= (1 + MaxLost) * MaxStake
  BY <1>1, BeforeFits
<1>. QED
  BY <1>1, <1>2, <1>3, <1>4, Constants DEF Lots

-----------------------------------------------------------------------------
(* The sweeps.                                                              *)

(* One that is forgotten, goes on or is left alone keeps its invariant.     *)
LEMMA SweepGoesOn ==
    ASSUME Sweeps, Forget \/ SweepStep \/ UNCHANGED sweepVars
    PROVE  Sweeps'
<1>. USE DEF Sweeps
<1>1. CASE Forget
  <2>1. Cheap'
    BY <1>1 DEF Forget, Cheap
  <2>. QED
    BY <1>1, <2>1, ForgetIInv, ForgetGreedy
<1>2. CASE SweepStep
  BY <1>2, StepIInv, StepGreedy, StepCheap DEF SweepNext
<1>3. CASE UNCHANGED sweepVars
  <2>1. Cheap'
    BY <1>3 DEF sweepVars, Cheap
  <2>. QED
    BY <1>3, <2>1, StepIInv, StepGreedy
<1>. QED
  BY <1>1, <1>2, <1>3

(* A new one begins with it.                                                *)
LEMMA SweepBegins ==
    ASSUME NEW b \in Books, NEW n \in Nat, StartBuy(b, n) \/ StartSale(b, n)
    PROVE  /\ Sweeps' /\ asked' = n
           /\ StartBuy(b, n) => side' = "buy"
           /\ StartSale(b, n) => side' = "sell"
<1>1. Cheap'
  BY DEF Cheap, StartBuy, StartSale, Start
<1>. QED
  BY <1>1, BuyIInv, SaleIInv, StartGreedy DEF Sweeps, StartBuy, StartSale, Start

(* What an entry begins: on paper a sweep, live an order at once.           *)
LEMMA EnterBegins ==
    ASSUME EInv, NEW t \in Tokens, Enter(t)
    PROVE  \E n \in Nat :
             /\ n <= MaxStake /\ Call("buy", t, n)
             /\ \/ mode = "paper" /\ pc' = "sweep" /\ Sweeps' /\ asked' = n /\ side' = "buy"
                \/ mode # "paper" /\ pc' = "post" /\ UNCHANGED sweepVars
<1>1. PICK cash \in Stakes :
          IF mode = "paper"
          THEN /\ \E b \in Books : StartBuy(b, cash)
               /\ pc' = "sweep" /\ Call("buy", t, cash)
          ELSE /\ LiveSize(cash) > 0
               /\ pc' = "post" /\ Call("buy", t, LiveSize(cash))
               /\ UNCHANGED sweepVars
  BY DEF Enter
<1>2. cash \in Nat /\ cash <= MaxStake
  BY Constants
<1>3. LiveSize(cash) \in Nat /\ LiveSize(cash) <= MaxStake
  BY <1>2, LiveSizeFits, Constants
<1>4. CASE mode = "paper"
  BY <1>1, <1>2, <1>4, SweepBegins
<1>5. CASE mode # "paper"
  BY <1>1, <1>3, <1>5
<1>. QED
  BY <1>4, <1>5

(* What a sale begins.                                                      *)
LEMMA ExitBegins ==
    ASSUME EInv, NEW kind \in {"panic", "secure"}, Exit(kind)
    PROVE  \/ mode = "paper" /\ pc' = "sweep" /\ Sweeps' /\ asked' = pos.n /\ side' = "sell"
           \/ mode # "paper" /\ pc' = "balance" /\ UNCHANGED sweepVars
<1>1. pos.n \in Nat
  BY DEF EInv, Types, PosOK
<1>2. CASE mode = "paper"
  <2>1. PICK b \in Books : StartSale(b, pos.n)
    BY <1>2 DEF Exit
  <2>. QED
    BY <1>1, <1>2, <2>1, SweepBegins DEF Exit
<1>3. CASE mode # "paper"
  BY <1>3 DEF Exit
<1>. QED
  BY <1>2, <1>3

(* No call of the machine, and no step of an order, leaves it.              *)
LEMMA NextSweeps == EInv /\ [Next]_vars => Sweeps'
<1>. SUFFICES ASSUME EInv, [Next]_vars PROVE Sweeps'
  OBVIOUS
<1>0. Sweeps
  BY DEF EInv
<1>1. ASSUME NEW t \in Tokens, Enter(t) PROVE Sweeps'
  BY <1>0, <1>1, EnterBegins, SweepGoesOn
<1>2. ASSUME NEW kind \in {"panic", "secure"}, Exit(kind) PROVE Sweeps'
  BY <1>0, <1>2, ExitBegins, SweepGoesOn
<1>3. CASE Sweep \/ PaperBought \/ PaperSold
  BY <1>0, <1>3, SweepGoesOn DEF Sweep, PaperBought, PaperSold
<1>4. CASE NextWindow \/ BalanceRead \/ BalanceZero \/ BalanceError \/ Refresh
  BY <1>0, <1>4, SweepGoesOn
     DEF NextWindow, BalanceRead, BalanceZero, BalanceError, Refresh
<1>5. CASE DryRun \/ PostError \/ PostLost \/ Bought \/ BuySynced \/ SaleAnswered
  BY <1>0, <1>5, SweepGoesOn
     DEF DryRun, PostError, PostLost, Bought, BuySynced, SaleAnswered
<1>6. CASE UNCHANGED vars
  BY <1>0, <1>6, SweepGoesOn DEF vars
<1>. QED
  BY <1>1, <1>2, <1>3, <1>4, <1>5, <1>6 DEF Next

-----------------------------------------------------------------------------
(* The end of a call: nothing is under way.  What is left to show is of the *)
(* position and the wallet.                                                 *)
LEMMA CallEnds ==
    ASSUME EInv, Back, UNCHANGED mode,
           ClobOK', PosOK', PositionOK', played' \in BOOLEAN, booked' \in Lots,
           mode = "paper" => UNCHANGED seen \/ seen' = Nothing,
           mode = "paper" /\ pos' # NoPos => pos'.n <= owned'[pos'.token],
           mode = "dry" => owned' = Nothing /\ pos' = NoPos
    PROVE  Types' /\ Machine'
<1>1. order' = NoOrder /\ pc' = "idle"
  BY DEF Back
<1>2. OrderOK'
  BY <1>1 DEF NoOrder, OrderOK, Kinds
<1>3. FlagsOK'
  BY <1>1 DEF EInv, Types, FlagsOK, Lots, Pcs
<1>4. CallOK' /\ AimOK' /\ SweepOfOrder'
  BY <1>1 DEF NoOrder, CallOK, AimOK, SweepOfOrder
<1>5. ModeOK'
  BY <1>1 DEF ModeOK, EInv, Machine
<1>6. AmountsOK'
  BY <1>1, Constants DEF AmountsOK, NoOrder
<1>. QED
  BY <1>2, <1>3, <1>4, <1>5, <1>6 DEF Types, Machine

(* A step that leaves the position alone, and on paper the wallet.          *)
LEMMA CallGoesOn ==
    ASSUME EInv, UNCHANGED <<mode, machine>>, owned' = owned \/ mode = "live",
           ClobOK', OrderOK', pc' \in Pcs, CallOK', AimOK', SweepOfOrder',
           order'.size \in Lots,
           mode = "paper" => pc' \in {"idle", "sweep"} /\ UNCHANGED seen,
           pc' = "sync" => mode = "live"
    PROVE  Types' /\ Machine'
<1>1. PosOK' /\ FlagsOK'
  BY DEF EInv, Types, PosOK, FlagsOK, machine
<1>2. PositionOK' /\ booked' \in Lots
  BY DEF EInv, Machine, PositionOK, AmountsOK, machine
<1>3. ModeOK'
  BY DEF EInv, Machine, ModeOK, machine
<1>. QED
  BY <1>1, <1>2, <1>3 DEF Types, Machine, AmountsOK

-----------------------------------------------------------------------------
(* The steps of Broker.tla.                                                 *)

(* A step of a call before its end, or of one that comes to nothing.        *)
LEMMA Unseen ==
    ASSUME Before' = Before, UNCHANGED machine, UNCHANGED lost
    PROVE  [Account!Next]_(Account!bvars)
BY DEF machine, Account!bvars

(* A call that bought k lots in all.                                        *)
LEMMA PurchaseEnds ==
    ASSUME EInv, pc # "idle", order.kind = "buy", Back, owned' \in [Tokens -> Nat],
           NEW k \in Nat \ {0}, k <= MaxStake,
           \A t \in Tokens : t # order.token => owned'[t] = owned[t],
           owned'[order.token] = owned[order.token] - order.moved + k
    PROVE  /\ order.token \in Tokens /\ k \in 1 .. MaxStake
           /\ pos = Account!Flat /\ ~played
           /\ Before' = [Before EXCEPT ![order.token] = @ + k]
<1>1. order.token \in Tokens
  BY UnderWay
<1>2. Before' = owned'
  BY NothingMovedNext DEF Back, NoOrder
<1>3. ASSUME NEW t \in Tokens
      PROVE  Before'[t] = IF t = order.token THEN Before[t] + k ELSE Before[t]
  BY <1>2, BeforeIs
<1>4. Before \in [Tokens -> Nat] /\ Before' \in [Tokens -> Nat]
  BY <1>2 DEF EInv, Wallet!IInv
<1>5. Before' = [Before EXCEPT ![order.token] = @ + k]
  BY <1>1, <1>3, <1>4
<1>6. pos = Account!Flat /\ ~played
  BY DEF EInv, Machine, AimOK, NoPos, Account!Flat
<1>. QED
  BY <1>1, <1>5, <1>6, Constants

(* A call that sold k lots in all.                                          *)
LEMMA SaleEnds ==
    ASSUME EInv, pc # "idle", order.kind # "buy", Back, owned' \in [Tokens -> Nat],
           NEW k \in Nat \ {0}, k <= owned[order.token] + order.moved,
           \A t \in Tokens : t # order.token => owned'[t] = owned[t],
           owned'[order.token] = owned[order.token] + order.moved - k
    PROVE  /\ k \in 1 .. (1 + MaxLost) * MaxStake
           /\ pos # Account!Flat /\ k <= Before[pos.token]
           /\ Before' = [Before EXCEPT ![pos.token] = @ - k]
<1>1. /\ order.token \in Tokens /\ order.token = pos.token /\ pos # NoPos
      /\ order.moved \in Nat /\ owned[order.token] \in Nat
      /\ Before[order.token] = owned[order.token] + order.moved
  BY SaleFinds
<1>2. Before' = owned'
  BY NothingMovedNext DEF Back, NoOrder
<1>3. ASSUME NEW t \in Tokens
      PROVE  Before'[t] = IF t = order.token THEN Before[t] - k ELSE Before[t]
  BY <1>1, <1>2, BeforeIs
<1>4. Before \in [Tokens -> Nat] /\ Before' \in [Tokens -> Nat]
  BY <1>2 DEF EInv, Wallet!IInv
<1>5. Before' = [Before EXCEPT ![pos.token] = @ - k]
  BY <1>1, <1>3, <1>4
<1>6. Before[order.token] <= (1 + MaxLost) * MaxStake
  BY <1>1, BeforeFits
<1>7. k \in 1 .. (1 + MaxLost) * MaxStake
  BY <1>1, <1>6, Constants
<1>. QED
  BY <1>1, <1>5, <1>7 DEF NoPos, Account!Flat

(* The machine learns of what it bought ...                                 *)
LEMMA BoughtStep ==
    ASSUME NEW t \in Tokens, NEW k \in 1 .. MaxStake, pos = Account!Flat, ~played,
           Before' = [Before EXCEPT ![t] = @ + k],
           pos' = [token |-> t, n |-> k], played' = TRUE, UNCHANGED <<booked, lost>>
    PROVE  [Account!Next]_(Account!bvars)
<1>1. Account!Buy(t, k)
  BY DEF Account!Buy
<1>. QED
  BY <1>1 DEF Account!Next

(* ... or never does.                                                       *)
LEMMA BuyLostStep ==
    ASSUME NEW t \in Tokens, NEW k \in 1 .. MaxStake, pos = Account!Flat, ~played,
           Before' = [Before EXCEPT ![t] = @ + k],
           UNCHANGED machine, lost < MaxLost, lost' = lost + 1
    PROVE  [Account!Next]_(Account!bvars)
<1>1. Account!BuyLost(t, k)
  BY DEF Account!BuyLost, machine
<1>. QED
  BY <1>1 DEF Account!Next

(* The same of what it sold.                                                *)
LEMMA SoldStep ==
    ASSUME NEW k \in 1 .. (1 + MaxLost) * MaxStake,
           pos # Account!Flat, k <= Before[pos.token],
           Before' = [Before EXCEPT ![pos.token] = @ - k],
           \/ pos' = NoPos /\ booked' = booked + k /\ UNCHANGED <<played, lost>>
           \/ UNCHANGED machine /\ lost' \in {lost, lost + 1} /\ lost' <= MaxLost
    PROVE  [Account!Next]_(Account!bvars)
<1>1. CASE pos' = NoPos /\ booked' = booked + k /\ UNCHANGED <<played, lost>>
  <2>1. Account!Sell(k)
    BY <1>1 DEF Account!Sell, Account!Flat, NoPos
  <2>. QED
    BY <2>1 DEF Account!Next
<1>2. CASE UNCHANGED machine /\ lost' \in {lost, lost + 1} /\ lost' <= MaxLost
  <2>1. Account!SellLost(k)
    BY <1>2 DEF Account!SellLost, machine
  <2>. QED
    BY <2>1 DEF Account!Next
<1>. QED
  BY <1>1, <1>2

-----------------------------------------------------------------------------
(* What each action comes to.                                               *)
Fits == Types' /\ Machine' /\ [Account!Next]_(Account!bvars)

(* A call that ends as it began: refused, in error, or not sent.  Of a sale *)
(* whose second half fails, the first is sold all the same.                 *)
LEMMA NothingFits ==
    ASSUME EInv, pc # "idle", order.kind = "buy" => order.moved = 0,
           Back, UNCHANGED <<mode, machine, owned, lost>>, ClobOK',
           mode = "paper" => UNCHANGED seen
    PROVE  Fits
<1>1. Types' /\ Machine'
  <2>1. PosOK' /\ PositionOK' /\ played' \in BOOLEAN /\ booked' \in Lots
    BY DEF EInv, Types, PosOK, FlagsOK, Machine, PositionOK, AmountsOK, machine
  <2>2. /\ mode = "paper" /\ pos' # NoPos => pos'.n <= owned'[pos'.token]
        /\ mode = "dry" => owned' = Nothing /\ pos' = NoPos
    BY DEF EInv, Machine, ModeOK, machine
  <2>. QED
    BY <2>1, <2>2, CallEnds
<1>2. [Account!Next]_(Account!bvars)
  <2>1. CASE order.moved = 0
    <3>1. Before' = owned'
      BY NothingMovedNext DEF Back, NoOrder, ClobOK
    <3>2. Before = owned
      BY <2>1, NothingMoved DEF EInv
    <3>. QED
      BY <3>1, <3>2, Unseen
  <2>2. CASE order.moved # 0
    <3>1. order.kind # "buy"
      BY <2>2
    <3>. DEFINE k == order.moved
    <3>2. /\ k \in Nat \ {0} /\ owned[order.token] \in Nat
          /\ owned' \in [Tokens -> Nat]
      BY <2>2, <3>1, SaleFinds DEF ClobOK
    <3>3. k <= owned[order.token] + order.moved
          /\ owned'[order.token] = owned[order.token] + order.moved - k
      BY <3>2
    <3>4. /\ k \in 1 .. (1 + MaxLost) * MaxStake
          /\ pos # Account!Flat /\ k <= Before[pos.token]
          /\ Before' = [Before EXCEPT ![pos.token] = @ - k]
      <4>. HIDE DEF k
      <4>. QED
        BY <3>1, <3>2, <3>3, SaleEnds
    <3>5. lost' \in {lost, lost + 1} /\ lost' <= MaxLost
      BY Constants DEF EInv, Types, ClobOK
    <3>. HIDE DEF k
    <3>. QED
      BY <3>4, <3>5, SoldStep
  <2>. QED
    BY <2>1, <2>2
<1>. QED
  BY <1>1, <1>2 DEF Fits

(* An order that is only signed, or in error.                               *)
LEMMA PostFits == EInv /\ (DryRun \/ PostError) => Fits
<1>. SUFFICES ASSUME EInv, DryRun \/ PostError PROVE Fits
  OBVIOUS
<1>1. /\ pc = "post" /\ Back /\ UNCHANGED <<mode, machine, owned, lost, seen>>
  BY DEF DryRun, PostError, clob
<1>2. ClobOK'
  BY <1>1 DEF EInv, Types, ClobOK
<1>3. order.kind = "buy" => order.moved = 0
  BY <1>1 DEF EInv, Machine, CallOK
<1>4. pc # "idle"
  BY <1>1
<1>. QED
  BY <1>1, <1>2, <1>3, <1>4, NothingFits

(* A step that leaves the wallet, the position and what has moved.          *)
LEMMA GoesOnFits ==
    ASSUME EInv, UNCHANGED <<mode, machine, owned, lost>>,
           order'.token = order.token, order'.kind = order.kind,
           order'.moved = order.moved,
           ClobOK', OrderOK', pc' \in Pcs, CallOK', AimOK', SweepOfOrder',
           order'.size \in Lots,
           mode = "paper" => pc' \in {"idle", "sweep"} /\ UNCHANGED seen,
           pc' = "sync" => mode = "live"
    PROVE  Fits
<1>1. Types' /\ Machine'
  BY CallGoesOn
<1>2. Before' = Before
  BY SameBefore
<1>. QED
  BY <1>1, <1>2, Unseen DEF Fits

(* An entry begins: nothing is bought yet.                                  *)
LEMMA EnterFits ==
    ASSUME EInv, NEW t \in Tokens, Enter(t)
    PROVE  Fits
<1>1. PICK n \in Nat :
          /\ n <= MaxStake /\ Call("buy", t, n)
          /\ \/ mode = "paper" /\ pc' = "sweep" /\ Sweeps' /\ asked' = n /\ side' = "buy"
             \/ mode # "paper" /\ pc' = "post" /\ UNCHANGED sweepVars
  BY EnterBegins
<1>2. /\ pc = "idle" /\ pos = NoPos /\ ~played
      /\ UNCHANGED <<mode, machine, owned, seen, lost>>
  BY DEF Enter, clob
<1>3. order' = [kind |-> "buy", token |-> t, attempt |-> 1, size |-> n,
                filled |-> 0, moved |-> 0]
  BY <1>1 DEF Call
<1>4. ClobOK' /\ OrderOK' /\ order'.size \in Lots /\ pc' \in Pcs
  BY <1>1, <1>2, <1>3, Constants DEF EInv, Types, ClobOK, OrderOK, Kinds, Pcs
<1>5. CallOK' /\ AimOK' /\ SweepOfOrder'
  BY <1>1, <1>2, <1>3, Constants DEF CallOK, AimOK, SweepOfOrder, machine
<1>6. Types' /\ Machine'
  BY <1>1, <1>2, <1>4, <1>5, CallGoesOn
<1>7. Before' = Before
  <2>1. order = NoOrder
    BY <1>2 DEF EInv, Machine, CallOK
  <2>2. Before = owned
    BY <2>1, NothingMoved DEF EInv, NoOrder
  <2>3. Before' = owned'
    BY <1>3, <1>4, NothingMovedNext DEF ClobOK
  <2>. QED
    BY <1>2, <2>2, <2>3
<1>. QED
  BY <1>2, <1>6, <1>7, Unseen DEF Fits

(* A sale begins: nothing is sold yet.                                      *)
LEMMA ExitFits ==
    ASSUME EInv, NEW kind \in {"panic", "secure"}, Exit(kind)
    PROVE  Fits
<1>1. \/ mode = "paper" /\ pc' = "sweep" /\ Sweeps' /\ asked' = pos.n /\ side' = "sell"
      \/ mode # "paper" /\ pc' = "balance" /\ UNCHANGED sweepVars
  BY ExitBegins
<1>2. /\ pc = "idle" /\ pos # NoPos
      /\ UNCHANGED <<mode, machine, owned, seen, lost>>
  BY DEF Exit, clob
<1>3. order' = [kind |-> kind, token |-> pos.token, attempt |-> 1, size |-> pos.n,
                filled |-> 0, moved |-> 0]
  BY DEF Exit, Call
<1>4. pos.n \in Nat /\ pos.n <= MaxStake /\ pos.token \in Tokens
  BY <1>2 DEF EInv, Types, PosOK, Machine, PositionOK
<1>5. ClobOK' /\ OrderOK' /\ order'.size \in Lots /\ pc' \in Pcs
  BY <1>1, <1>2, <1>3, <1>4, Constants DEF EInv, Types, ClobOK, OrderOK, Kinds, Pcs
<1>6. CallOK' /\ AimOK' /\ SweepOfOrder'
  BY <1>1, <1>2, <1>3, <1>4 DEF CallOK, AimOK, SweepOfOrder, machine
<1>7. Types' /\ Machine'
  BY <1>1, <1>2, <1>5, <1>6, CallGoesOn
<1>8. Before' = Before
  <2>1. order = NoOrder
    BY <1>2 DEF EInv, Machine, CallOK
  <2>2. Before = owned
    BY <2>1, NothingMoved DEF EInv, NoOrder
  <2>3. Before' = owned'
    BY <1>3, <1>5, NothingMovedNext DEF ClobOK
  <2>. QED
    BY <1>2, <2>2, <2>3
<1>. QED
  BY <1>2, <1>7, <1>8, Unseen DEF Fits

(* The balance of a sale is asked for, and leads to the first order of it.  *)
LEMMA FakFits ==
    ASSUME EInv, pc = "balance", UNCHANGED <<mode, machine, owned, lost>>, ClobOK',
           NEW truth \in Nat, truth \in Lots, FirstFak(truth)
    PROVE  Fits
<1>1. /\ order.kind \in {"panic", "secure"} /\ order.token = pos.token /\ pos # NoPos
      /\ order.moved = 0 /\ order.filled = 0 /\ mode # "paper"
  BY DEF EInv, Machine, CallOK, AimOK, ModeOK, Types, OrderOK, FlagsOK, Kinds
<1>. DEFINE n == RoundSize(truth, 1)
<1>2. n \in Nat /\ n \in Lots
  BY RoundFits, Constants DEF Lots
<1>3. CASE n > 0
  <2>1. pc' = "post" /\ order' = [order EXCEPT !.attempt = 1, !.size = n]
    BY <1>3 DEF FirstFak
  <2>. HIDE DEF n
  <2>2. /\ OrderOK' /\ order'.size = n /\ order'.kind = order.kind
        /\ order'.token = order.token /\ order'.moved = 0 /\ order'.filled = 0
    <3>1. order \in [kind : Kinds, token : Tokens \cup {None}, attempt : 0 .. 2,
                     size : Nat, filled : Nat, moved : Nat]
      BY DEF EInv, Types, OrderOK
    <3>2. order' = [order EXCEPT !.attempt = 1, !.size = n]
      BY <2>1
    <3>3. n \in Nat /\ 1 \in 0 .. 2
      BY <1>2
    <3>4. OrderOK'
      BY <3>1, <3>2, <3>3 DEF OrderOK
    <3>. QED
      BY <1>1, <3>1, <3>2, <3>4
  <2>3. CallOK' /\ AimOK' /\ SweepOfOrder'
    BY <1>1, <2>1, <2>2 DEF CallOK, AimOK, SweepOfOrder, machine
  <2>. QED
    BY <1>1, <1>2, <2>1, <2>2, <2>3, GoesOnFits DEF Pcs
<1>4. CASE ~(n > 0)
  <2>1. Back
    BY <1>4 DEF FirstFak
  <2>. QED
    BY <1>1, <2>1, NothingFits
<1>. QED
  BY <1>3, <1>4

(* Each answer to the question, and each refresh before it is asked again.  *)
LEMMA BalanceFits ==
    EInv /\ (BalanceRead \/ BalanceZero \/ BalanceError \/ Refresh) => Fits
<1>. SUFFICES ASSUME EInv, BalanceRead \/ BalanceZero \/ BalanceError \/ Refresh
              PROVE  Fits
  OBVIOUS
<1>1. /\ pc \in {"balance", "refresh"} /\ Synced
      /\ UNCHANGED <<mode, machine, owned, lost>>
  BY DEF BalanceRead, BalanceZero, BalanceError, Refresh
<1>2. /\ order.token \in Tokens /\ order.kind \in {"panic", "secure"}
      /\ order.token = pos.token /\ pos # NoPos /\ order.moved = 0 /\ order.filled = 0
      /\ mode # "paper" /\ owned[order.token] \in Lots
  <2>1. pc # "idle" /\ order.kind # "buy"
    BY <1>1 DEF EInv, Machine, CallOK
  <2>2. order.token \in Tokens /\ order.token = pos.token /\ pos # NoPos
    BY <2>1, SaleFinds
  <2>3. order.kind \in {"panic", "secure"}
    BY <2>1, UnderWay
  <2>4. order.moved = 0 /\ order.filled = 0 /\ mode # "paper"
    BY <1>1 DEF EInv, Machine, CallOK, ModeOK, Types, OrderOK, FlagsOK
  <2>5. owned[order.token] \in Nat /\ owned[order.token] + order.moved \in Lots
    BY <2>1, SaleFinds
  <2>. QED
    BY <2>2, <2>3, <2>4, <2>5
<1>3. ClobOK'
  <2>1. seen' \in [Tokens -> Nat] /\ \A t \in Tokens : seen'[t] <= owned[t]
    BY <1>1, <1>2, SyncFits
  <2>. QED
    BY <1>1, <2>1 DEF EInv, Types, ClobOK
<1>4. seen'[order.token] \in Nat /\ seen'[order.token] \in Lots
  BY <1>1, <1>2, <1>3, Constants DEF ClobOK, Lots
<1>5. order.size \in Nat /\ order.size \in Lots
  BY DEF EInv, Types, OrderOK, Machine, AmountsOK
<1>6. CASE pc = "balance" /\ (FirstFak(seen'[order.token]) \/ FirstFak(order.size))
  BY <1>1, <1>3, <1>4, <1>5, <1>6, FakFits
<1>7. CASE pc' = "refresh" /\ UNCHANGED order
  <2>1. CallOK' /\ AimOK' /\ SweepOfOrder' /\ OrderOK'
    BY <1>1, <1>2, <1>7
       DEF CallOK, AimOK, SweepOfOrder, machine, EInv, Types, OrderOK
  <2>. QED
    BY <1>1, <1>2, <1>3, <1>5, <1>7, <2>1, GoesOnFits DEF Pcs
<1>8. CASE pc' = "balance" /\ order' = [order EXCEPT !.attempt = 2]
  <2>1. /\ OrderOK' /\ order'.size = order.size /\ order'.kind = order.kind
        /\ order'.token = order.token /\ order'.moved = 0 /\ order'.filled = 0
    BY <1>2, <1>8 DEF EInv, Types, OrderOK
  <2>2. CallOK' /\ AimOK' /\ SweepOfOrder'
    BY <1>1, <1>2, <1>8, <2>1 DEF CallOK, AimOK, SweepOfOrder, machine
  <2>. QED
    BY <1>1, <1>2, <1>3, <1>5, <1>8, <2>1, <2>2, GoesOnFits DEF Pcs
<1>. QED
  BY <1>6, <1>7, <1>8 DEF BalanceRead, BalanceZero, BalanceError, Refresh

(* A level of a simulated order.                                            *)
LEMMA SweepFits == EInv /\ Sweep => Fits
<1>. SUFFICES ASSUME EInv, Sweep PROVE Fits
  OBVIOUS
<1>1. /\ pc = "sweep" /\ UNCHANGED <<pc, order, mode, machine, owned, seen, lost>>
      /\ SweepStep
  BY DEF Sweep, clob
<1>2. ClobOK' /\ OrderOK' /\ pc' \in Pcs /\ order'.size \in Lots
  BY <1>1 DEF EInv, Types, ClobOK, OrderOK, FlagsOK, Machine, AmountsOK
<1>3. CallOK' /\ AimOK'
  BY <1>1 DEF EInv, Machine, CallOK, AimOK, machine
<1>4. SweepOfOrder'
  <2>1. side' = side /\ asked' = asked
    BY <1>1, StepOfOrder
  <2>. QED
    BY <1>1, <2>1 DEF EInv, Machine, SweepOfOrder, machine
<1>5. pc' = "sweep"
  BY <1>1
<1>. QED
  BY <1>1, <1>2, <1>3, <1>4, <1>5, GoesOnFits

(* A window begins with nothing.                                            *)
LEMMA WindowFits == EInv /\ NextWindow => Fits
<1>. SUFFICES ASSUME EInv, NextWindow PROVE Fits
  OBVIOUS
<1>1. /\ pc' = "idle" /\ order' = NoOrder /\ mode' = mode
      /\ pos' = NoPos /\ played' = FALSE /\ booked' = 0
      /\ owned' = Nothing /\ seen' = Nothing /\ lost' = 0
  BY DEF NextWindow, EInv, Machine, CallOK
<1>2. ClobOK' /\ PosOK' /\ PositionOK'
  BY <1>1, Constants DEF ClobOK, PosOK, PositionOK, Nothing, NoPos
<1>3. Types' /\ Machine'
  <2>1. 0 \in Lots
    BY Constants DEF Lots
  <2>2. booked' \in Lots /\ played' \in BOOLEAN
    BY <1>1, <2>1
  <2>3. mode = "dry" => owned' = Nothing /\ pos' = NoPos
    BY <1>1
  <2>. QED
    BY <1>1, <1>2, <2>2, <2>3, CallEnds DEF Back
<1>4. Before' = [t \in Tokens |-> 0]
  <2>1. Before' = owned'
    BY <1>1, <1>2, NothingMovedNext DEF ClobOK, NoOrder
  <2>. QED
    BY <1>1, <2>1 DEF Nothing
<1>5. Account!Expire
  BY <1>1, <1>4 DEF Account!Expire, Account!Flat, NoPos
<1>. QED
  BY <1>3, <1>5 DEF Fits, Account!Next

(* A purchase that ends with k lots.                                        *)
LEMMA OpenedFits ==
    ASSUME EInv, pc # "idle", order.kind = "buy", Back, UNCHANGED <<mode, lost>>, ClobOK',
           mode = "paper" => UNCHANGED seen,
           mode # "dry", NEW k \in Nat \ {0}, k <= MaxStake, Opened(k),
           \A t \in Tokens : t # order.token => owned'[t] = owned[t],
           owned'[order.token] = owned[order.token] - order.moved + k,
           mode = "paper" => k <= owned'[order.token]
    PROVE  Fits
<1>1. pos' = [token |-> order.token, n |-> k] /\ played' = TRUE /\ booked' = booked
  BY DEF Opened
<1>2. /\ order.token \in Tokens /\ k \in 1 .. MaxStake /\ pos = Account!Flat /\ ~played
      /\ Before' = [Before EXCEPT ![order.token] = @ + k]
  BY PurchaseEnds DEF ClobOK
<1>3. Types' /\ Machine'
  <2>1. PosOK' /\ PositionOK'
    BY <1>1, <1>2, Constants DEF PosOK, PositionOK, NoPos, EInv, Machine
  <2>2. booked' \in Lots /\ played' \in BOOLEAN
    BY <1>1 DEF EInv, Machine, AmountsOK
  <2>3. mode = "paper" /\ pos' # NoPos => pos'.n <= owned'[pos'.token]
    BY <1>1
  <2>. QED
    BY <2>1, <2>2, <2>3, CallEnds
<1>4. [Account!Next]_(Account!bvars)
  BY <1>1, <1>2, BoughtStep
<1>. QED
  BY <1>3, <1>4 DEF Fits

(* A sale that ends with k lots.                                            *)
LEMMA ClosedFits ==
    ASSUME EInv, pc # "idle", order.kind # "buy", Back, UNCHANGED <<mode, lost>>, ClobOK',
           mode = "paper" => UNCHANGED seen,
           NEW k \in Nat \ {0}, k <= owned[order.token] + order.moved, Closed(k),
           \A t \in Tokens : t # order.token => owned'[t] = owned[t],
           owned'[order.token] = owned[order.token] + order.moved - k
    PROVE  Fits
<1>1. pos' = NoPos /\ booked' = booked + k /\ played' = played
  BY DEF Closed
<1>2. /\ k \in 1 .. (1 + MaxLost) * MaxStake
      /\ pos # Account!Flat /\ k <= Before[pos.token]
      /\ Before' = [Before EXCEPT ![pos.token] = @ - k]
  BY SaleEnds DEF ClobOK
<1>3. pos # NoPos /\ played /\ booked = 0
  <2>1. pos # NoPos
    BY SaleFinds
  <2>. QED
    BY <2>1 DEF EInv, Machine, PositionOK, Types, FlagsOK
<1>4. Types' /\ Machine'
  <2>1. PosOK' /\ PositionOK'
    BY <1>1, <1>3, Constants DEF PosOK, PositionOK, NoPos
  <2>2. booked' \in Lots
    BY <1>1, <1>2, <1>3 DEF Lots
  <2>3. played' \in BOOLEAN
    BY <1>1 DEF EInv, Types, FlagsOK
  <2>4. mode # "dry"
    BY <1>3 DEF EInv, Machine, ModeOK
  <2>. QED
    BY <1>1, <2>1, <2>2, <2>3, <2>4, CallEnds
<1>5. [Account!Next]_(Account!bvars)
  BY <1>1, <1>2, SoldStep
<1>. QED
  BY <1>4, <1>5 DEF Fits

(* The end of a simulated purchase.                                         *)
LEMMA PaperBoughtFits == EInv /\ PaperBought => Fits
<1>. SUFFICES ASSUME EInv, PaperBought PROVE Fits
  OBVIOUS
<1>1. /\ pc = "sweep" /\ pc # "idle" /\ order.kind = "buy" /\ Back
      /\ UNCHANGED <<mode, seen, lost>> /\ Opened(shares)
      /\ owned' = [owned EXCEPT ![order.token] = @ + shares]
  BY DEF PaperBought
<1>2. mode = "paper" /\ shares \in Nat /\ shares <= order.size /\ order.moved = 0
  BY <1>1, PaperFits
<1>3. order.token \in Tokens /\ order.size \in Nat /\ order.size <= MaxStake
  BY <1>1 DEF EInv, Machine, AimOK, Types, OrderOK
<1>4. /\ owned[order.token] \in Nat
      /\ \A t \in Tokens : t # order.token => owned'[t] = owned[t]
      /\ owned'[order.token] = owned[order.token] + shares
  BY <1>1, <1>3 DEF EInv, Types, ClobOK
<1>5. ClobOK'
  BY <1>1, <1>2, <1>3 DEF EInv, Types, ClobOK
<1>6. CASE shares = 0
  <2>1. owned' = owned /\ UNCHANGED machine
    BY <1>1, <1>4, <1>6 DEF Opened, EInv, Types, ClobOK
  <2>. QED
    BY <1>1, <1>2, <1>5, <2>1, NothingFits
<1>7. CASE shares # 0
  <2>1. shares \in Nat \ {0} /\ shares <= MaxStake
    BY <1>2, <1>3, <1>7, Constants
  <2>2. /\ owned'[order.token] = owned[order.token] - order.moved + shares
        /\ shares <= owned'[order.token]
    BY <1>2, <1>4
  <2>. QED
    BY <1>1, <1>2, <1>4, <1>5, <2>1, <2>2, OpenedFits
<1>. QED
  BY <1>6, <1>7

(* The end of a simulated sale.                                             *)
LEMMA PaperSoldFits == EInv /\ PaperSold => Fits
<1>. SUFFICES ASSUME EInv, PaperSold PROVE Fits
  OBVIOUS
<1>1. PICK n \in {0, shares} : Closed(n) /\ owned' = [owned EXCEPT ![order.token] = @ - n]
  BY DEF PaperSold
<1>2. /\ pc = "sweep" /\ pc # "idle" /\ order.kind # "buy" /\ Back
      /\ UNCHANGED <<mode, seen, lost>>
  BY DEF PaperSold
<1>3. /\ mode = "paper" /\ shares \in Nat /\ shares <= owned[order.token]
  BY <1>2, PaperFits
<1>4. order.token \in Tokens /\ order.moved = 0 /\ owned[order.token] \in Nat
  BY <1>2, SaleFinds, PaperFits
<1>5. /\ n \in Nat /\ n <= owned[order.token]
      /\ \A t \in Tokens : t # order.token => owned'[t] = owned[t]
      /\ owned'[order.token] = owned[order.token] - n
      /\ owned' \in [Tokens -> Nat]
  BY <1>1, <1>3, <1>4 DEF EInv, Types, ClobOK
<1>6. CASE n = 0
  <2>1. owned' = owned /\ UNCHANGED machine
    BY <1>1, <1>5, <1>6 DEF Closed, EInv, Types, ClobOK
  <2>2. ClobOK'
    BY <1>2, <2>1 DEF EInv, Types, ClobOK
  <2>. QED
    BY <1>2, <2>1, <2>2, NothingFits
<1>7. CASE n # 0
  <2>1. ClobOK'
    BY <1>2, <1>3, <1>5, Constants DEF EInv, Types, ClobOK, Machine, ModeOK, Nothing
  <2>2. /\ n \in Nat \ {0} /\ n <= owned[order.token] + order.moved
        /\ owned'[order.token] = owned[order.token] + order.moved - n
    BY <1>4, <1>5, <1>7
  <2>. QED
    BY <1>1, <1>2, <1>5, <2>1, <2>2, ClosedFits
<1>. QED
  BY <1>6, <1>7

(* An order is matched, and its answer lost.                                *)
LEMMA PostLostFits == EInv /\ PostLost => Fits
<1>. SUFFICES ASSUME EInv, PostLost PROVE Fits
  OBVIOUS
<1>1. PICK n \in Matches : Matched(n)
  BY DEF PostLost
<1>2. /\ pc = "post" /\ pc # "idle" /\ mode = "live" /\ Back /\ UNCHANGED <<mode, machine>>
      /\ lost < MaxLost /\ lost' = lost + 1
  BY DEF PostLost
<1>3. /\ n \in Nat \ {0} /\ n <= order.size /\ order.token \in Tokens
      /\ owned' \in [Tokens -> Nat] /\ seen' \in [Tokens -> Nat]
      /\ \A t \in Tokens : seen'[t] <= owned'[t]
      /\ \A t \in Tokens : t # order.token => owned'[t] = owned[t]
      /\ owned'[order.token] = IF order.kind = "buy" THEN owned[order.token] + n
                                                     ELSE owned[order.token] - n
      /\ order.kind # "buy" => n <= owned[order.token]
  BY <1>1, <1>2, MatchFits
<1>4. lost' \in {lost, lost + 1} /\ lost' <= MaxLost /\ lost' \in 0 .. MaxLost
  BY <1>2, Constants DEF EInv, Types, ClobOK
<1>5. Types' /\ Machine'
  <2>1. ClobOK'
    BY <1>3, <1>4 DEF ClobOK
  <2>2. PosOK' /\ PositionOK' /\ played' \in BOOLEAN /\ booked' \in Lots
    BY <1>2 DEF EInv, Types, PosOK, FlagsOK, Machine, PositionOK, AmountsOK, machine
  <2>. QED
    BY <1>2, <2>1, <2>2, CallEnds
<1>6. owned[order.token] \in Nat /\ order.moved \in Nat
  BY <1>3 DEF EInv, Types, ClobOK, OrderOK
<1>7. CASE order.kind = "buy"
  <2>1. order.moved = 0 /\ order.size <= MaxStake /\ order.size \in Nat
    BY <1>2, <1>7 DEF EInv, Machine, CallOK, AimOK, Types, OrderOK
  <2>2. n <= MaxStake /\ owned'[order.token] = owned[order.token] - order.moved + n
    BY <1>3, <1>6, <1>7, <2>1, Constants
  <2>3. /\ order.token \in Tokens /\ n \in 1 .. MaxStake /\ pos = Account!Flat /\ ~played
        /\ Before' = [Before EXCEPT ![order.token] = @ + n]
    BY <1>2, <1>3, <1>7, <2>2, PurchaseEnds
  <2>. QED
    BY <1>2, <1>5, <2>3, BuyLostStep DEF Fits
<1>8. CASE order.kind # "buy"
  <2>. DEFINE k == order.moved + n
  <2>1. /\ k \in Nat \ {0} /\ k <= owned[order.token] + order.moved
        /\ owned'[order.token] = owned[order.token] + order.moved - k
    BY <1>3, <1>6, <1>8
  <2>. HIDE DEF k
  <2>2. /\ k \in 1 .. (1 + MaxLost) * MaxStake
        /\ pos # Account!Flat /\ k <= Before[pos.token]
        /\ Before' = [Before EXCEPT ![pos.token] = @ - k]
    BY <1>2, <1>3, <1>8, <2>1, SaleEnds
  <2>3. [Account!Next]_(Account!bvars)
    BY <1>2, <1>4, <2>2, SoldStep
  <2>. QED
    BY <1>5, <2>3 DEF Fits
<1>. QED
  BY <1>7, <1>8

(* The answer to a purchase, which is not yet told.                         *)
LEMMA BoughtFits == EInv /\ Bought => Fits
<1>. SUFFICES ASSUME EInv, Bought PROVE Fits
  OBVIOUS
<1>1. /\ pc = "post" /\ pc # "idle" /\ mode = "live" /\ order.kind = "buy"
      /\ UNCHANGED <<mode, machine>>
  BY DEF Bought
<1>2. /\ order.moved = 0 /\ order.size <= MaxStake
      /\ order.size \in Nat /\ order.size \in Lots
  BY <1>1 DEF EInv, Machine, CallOK, AimOK, AmountsOK, Types, OrderOK
<1>3. CASE Back /\ UNCHANGED clob
  <2>1. UNCHANGED <<owned, lost>> /\ ClobOK'
    BY <1>3 DEF clob, EInv, Types, ClobOK
  <2>. QED
    BY <1>1, <1>2, <1>3, <2>1, NothingFits
<1>4. CASE ~(Back /\ UNCHANGED clob)
  <2>1. PICK n \in Matches :
          /\ Matched(n) /\ UNCHANGED lost
          /\ pc' = "sync" /\ order' = [order EXCEPT !.filled = n, !.moved = n]
    BY <1>4 DEF Bought, Reported
  <2>2. /\ n \in Nat \ {0} /\ n <= order.size /\ order.token \in Tokens
        /\ owned' \in [Tokens -> Nat] /\ seen' \in [Tokens -> Nat]
        /\ \A t \in Tokens : seen'[t] <= owned'[t]
        /\ \A t \in Tokens : t # order.token => owned'[t] = owned[t]
        /\ owned'[order.token] = owned[order.token] + n
    BY <1>1, <2>1, MatchFits
  <2>3. /\ OrderOK' /\ order'.size = order.size /\ order'.kind = order.kind
        /\ order'.token = order.token /\ order'.moved = n /\ order'.filled = n
    BY <2>1, <2>2 DEF EInv, Types, OrderOK
  <2>4. ClobOK'
    BY <2>1, <2>2 DEF EInv, Types, ClobOK
  <2>5. CallOK' /\ SweepOfOrder'
    BY <1>1, <2>1, <2>2, <2>3 DEF CallOK, SweepOfOrder
  <2>6. AimOK'
    <3>1. n <= MaxStake
      BY <1>2, <2>2, Constants
    <3>. QED
      BY <1>1, <2>2, <2>3, <3>1 DEF EInv, Machine, AimOK, machine
  <2>7. Types' /\ Machine'
    BY <1>1, <1>2, <2>1, <2>3, <2>4, <2>5, <2>6, CallGoesOn DEF Pcs
  <2>8. Before' = Before
    <3>1. order'.moved = order.moved + n
      BY <1>2, <2>2, <2>3
    <3>. QED
      BY <1>1, <2>2, <2>3, <3>1, MovedBefore DEF EInv
  <2>. QED
    BY <1>1, <2>1, <2>7, <2>8, Unseen DEF Fits
<1>. QED
  BY <1>3, <1>4

(* The purchase is told.                                                    *)
LEMMA BuySyncedFits == EInv /\ BuySynced => Fits
<1>. SUFFICES ASSUME EInv, BuySynced PROVE Fits
  OBVIOUS
<1>1. /\ pc = "sync" /\ pc # "idle" /\ Synced /\ Opened(order.filled) /\ Back
      /\ UNCHANGED <<mode, owned, lost>>
  BY DEF BuySynced
<1>. DEFINE k == order.filled
<1>2. /\ order.kind = "buy" /\ order.moved = k /\ k \in Nat \ {0} /\ k <= MaxStake
      /\ order.token \in Tokens /\ mode = "live"
  BY <1>1 DEF EInv, Machine, CallOK, AimOK, ModeOK, Types, OrderOK
<1>3. ClobOK'
  <2>1. seen' \in [Tokens -> Nat] /\ \A t \in Tokens : seen'[t] <= owned[t]
    BY <1>1, <1>2, SyncFits
  <2>. QED
    BY <1>1, <2>1 DEF EInv, Types, ClobOK
<1>4. owned'[order.token] = owned[order.token] - order.moved + k
  <2>1. owned[order.token] \in Nat
    BY <1>2 DEF EInv, Types, ClobOK
  <2>. QED
    BY <1>1, <1>2, <2>1
<1>. HIDE DEF k
<1>5. Opened(k)
  BY <1>1 DEF k
<1>. QED
  BY <1>1, <1>2, <1>3, <1>4, <1>5, OpenedFits

(* The answer to a sale of which n lots were matched: the second half goes  *)
(* on, or the sum is booked.                                                *)
LEMMA SoldFits ==
    ASSUME EInv, pc = "post", mode = "live", order.kind # "buy", UNCHANGED <<mode, lost>>,
           NEW n \in Nat, n <= order.size, n <= owned[order.token], Sold(n), ClobOK',
           \A t \in Tokens : t # order.token => owned'[t] = owned[t],
           owned'[order.token] = owned[order.token] - n
    PROVE  Fits
<1>. DEFINE k == order.moved + n
            rest == RoundSize(order.size - n, 1)
<1>1. /\ order.filled = order.moved /\ order.moved \in Nat /\ order.size \in Nat
      /\ order.size \in Lots
  BY DEF EInv, Machine, CallOK, AmountsOK, Types, OrderOK
<1>2. /\ order.token \in Tokens /\ order.token = pos.token /\ pos # NoPos
      /\ owned[order.token] \in Nat /\ pc # "idle"
  BY SaleFinds
<1>3. k \in Nat /\ k = order.filled + Reported(n) /\ rest = RoundSize(order.size - Reported(n), 1)
  BY <1>1 DEF Reported
<1>4. rest \in Nat /\ rest \in Lots
  <2>1. order.size - n \in Nat /\ order.size - n <= order.size
    BY <1>1
  <2>2. rest \in Nat /\ rest <= order.size - n
    BY <2>1, RoundFits
  <2>. HIDE DEF rest
  <2>. QED
    BY <1>1, <2>1, <2>2, Constants DEF Lots
<1>5. order.kind \in {"panic", "secure"}
  BY <1>2, UnderWay
<1>. HIDE DEF k, rest
<1>6. CASE rest > 0 /\ order.attempt = 1
  <2>1. /\ order' = [order EXCEPT !.attempt = 2, !.size = rest, !.filled = k,
                                  !.moved = @ + n]
        /\ UNCHANGED <<pc, machine>>
    BY <1>3, <1>6 DEF Sold
  <2>2. order.moved + n = k
    BY DEF k
  <2>3. order \in [kind : Kinds, token : Tokens \cup {None}, attempt : 0 .. 2,
                   size : Nat, filled : Nat, moved : Nat]
    BY DEF EInv, Types, OrderOK
  <2>4. order' = [order EXCEPT !.attempt = 2, !.size = rest, !.filled = k, !.moved = k]
    BY <2>1, <2>2
  <2>5. /\ OrderOK' /\ order'.size = rest /\ order'.kind = order.kind
        /\ order'.token = order.token /\ order'.moved = k /\ order'.filled = k
    <3>1. k \in Nat /\ rest \in Nat /\ 2 \in 0 .. 2
      BY <1>3, <1>4
    <3>2. OrderOK'
      BY <2>3, <2>4, <3>1 DEF OrderOK
    <3>. QED
      BY <2>3, <2>4, <3>2
  <2>6. CallOK' /\ SweepOfOrder' /\ AimOK'
    BY <1>2, <1>5, <2>1, <2>5 DEF CallOK, SweepOfOrder, AimOK, machine
  <2>7. Types' /\ Machine'
    BY <1>4, <2>1, <2>5, <2>6, CallGoesOn DEF Pcs
  <2>8. Before' = Before
    <3>1. order'.moved = order.moved + n
      BY <2>2, <2>5
    <3>. QED
      BY <2>5, <3>1, MovedBefore DEF EInv, ClobOK
  <2>. QED
    BY <2>1, <2>7, <2>8, Unseen DEF Fits
<1>7. CASE ~(rest > 0 /\ order.attempt = 1)
  <2>1. Back /\ Closed(k)
    BY <1>3, <1>7 DEF Sold
  <2>2. CASE k = 0
    <3>1. n = 0 /\ UNCHANGED machine
      BY <1>1, <2>1, <2>2 DEF k, Closed
    <3>2. owned' = owned
      BY <1>2, <3>1 DEF EInv, Types, ClobOK
    <3>. QED
      BY <1>2, <2>1, <3>1, <3>2, NothingFits
  <2>3. CASE k # 0
    <3>1. /\ k \in Nat \ {0} /\ k <= owned[order.token] + order.moved
          /\ owned'[order.token] = owned[order.token] + order.moved - k
      BY <1>1, <1>2, <1>3, <2>3 DEF k
    <3>. QED
      BY <1>2, <2>1, <3>1, ClosedFits
  <2>. QED
    BY <2>2, <2>3
<1>. QED
  BY <1>6, <1>7

(* Every answer to a sale.                                                  *)
LEMMA SaleAnsweredFits == EInv /\ SaleAnswered => Fits
<1>. SUFFICES ASSUME EInv, SaleAnswered PROVE Fits
  OBVIOUS
<1>1. /\ pc = "post" /\ pc # "idle" /\ mode = "live" /\ order.kind # "buy"
      /\ UNCHANGED <<mode, lost>>
  BY DEF SaleAnswered, clob
<1>2. CASE Sold(0) /\ UNCHANGED clob
  <2>1. ClobOK' /\ owned' = owned
    BY <1>2 DEF EInv, Types, ClobOK, clob
  <2>2. owned[order.token] \in Nat /\ order.size \in Nat
    BY <1>1, SaleFinds DEF EInv, Types, OrderOK
  <2>3. /\ 0 \in Nat /\ 0 <= order.size /\ 0 <= owned[order.token]
        /\ owned'[order.token] = owned[order.token] - 0
    BY <2>1, <2>2
  <2>. QED
    BY <1>1, <1>2, <2>1, <2>3, SoldFits
<1>3. ASSUME NEW n \in Matches, Matched(n), Sold(n) PROVE Fits
  <2>1. /\ n \in Nat /\ n <= order.size
        /\ owned' \in [Tokens -> Nat] /\ seen' \in [Tokens -> Nat]
        /\ \A t \in Tokens : seen'[t] <= owned'[t]
        /\ \A t \in Tokens : t # order.token => owned'[t] = owned[t]
        /\ owned'[order.token] = owned[order.token] - n
        /\ n <= owned[order.token]
    BY <1>1, <1>3, MatchFits
  <2>2. ClobOK'
    BY <1>1, <2>1 DEF EInv, Types, ClobOK
  <2>. QED
    BY <1>1, <1>3, <2>1, <2>2, SoldFits
<1>. QED
  BY <1>2, <1>3 DEF SaleAnswered

(* Every action.                                                            *)
LEMMA NextFits == EInv /\ [Next]_vars => Fits
<1>. SUFFICES ASSUME EInv, [Next]_vars PROVE Fits
  OBVIOUS
<1>1. CASE UNCHANGED vars
  <2>1. UNCHANGED <<mode, machine, owned, lost, seen, order, pc, side, asked>>
    BY <1>1 DEF vars, clob, sweepVars
  <2>2. Types' /\ Machine'
    BY <2>1 DEF EInv, Types, PosOK, OrderOK, ClobOK, FlagsOK, machine,
                Machine, CallOK, AimOK, PositionOK, ModeOK, SweepOfOrder, AmountsOK
  <2>3. Before' = Before
    BY <2>1, SameBefore
  <2>. QED
    BY <2>1, <2>2, <2>3, Unseen DEF Fits
<1>2. CASE \E t \in Tokens : Enter(t)
  BY <1>2, EnterFits
<1>3. CASE \E kind \in {"panic", "secure"} : Exit(kind)
  BY <1>3, ExitFits
<1>4. CASE NextWindow \/ Sweep \/ PaperBought \/ PaperSold
  BY <1>4, WindowFits, SweepFits, PaperBoughtFits, PaperSoldFits
<1>5. CASE BalanceRead \/ BalanceZero \/ BalanceError \/ Refresh
  BY <1>5, BalanceFits
<1>6. CASE DryRun \/ PostError \/ PostLost
  BY <1>6, PostFits, PostLostFits
<1>7. CASE Bought \/ BuySynced \/ SaleAnswered
  BY <1>7, BoughtFits, BuySyncedFits, SaleAnsweredFits
<1>. QED
  BY <1>1, <1>2, <1>3, <1>4, <1>5, <1>6, <1>7 DEF Next

-----------------------------------------------------------------------------
(* Broker.tla, as the machine steps through it and as it was proved.        *)
LEMMA SameStep == [Account!Next]_(Account!bvars) <=> [Wallet!Next]_(Wallet!bvars)
BY DEF Account!Next, Account!bvars, Account!Flat, Account!Buy, Account!BuyLost,
       Account!Sell, Account!SellLost, Account!Expire,
       Wallet!Next, Wallet!bvars, Wallet!Flat, Wallet!Buy, Wallet!BuyLost,
       Wallet!Sell, Wallet!SellLost, Wallet!Expire

(* The machine begins idle, with an empty wallet.                           *)
LEMMA InitEInv == Init => EInv /\ Account!Init
<1>. SUFFICES ASSUME Init PROVE EInv /\ Account!Init
  OBVIOUS
<1>. USE DEF Init
<1>1. Sweeps
  <2>1. SweepInit
    BY DEF SweepInit
  <2>2. Cheap
    BY DEF Cheap, NoSweep
  <2>. QED
    BY <2>1, <2>2, InitIInv, InitGreedy DEF Sweeps
<1>2. PosOK /\ OrderOK /\ FlagsOK
  <2>1. PosOK /\ OrderOK
    BY DEF PosOK, NoPos, OrderOK, NoOrder, Kinds
  <2>2. mode \in Modes /\ booked \in Nat /\ pc \in Pcs
    BY DEF Modes, Pcs
  <2>3. played \in BOOLEAN
    OBVIOUS
  <2>. QED
    BY <2>1, <2>2, <2>3 DEF FlagsOK
<1>3. ClobOK
  BY Constants DEF ClobOK, Nothing
<1>4. CallOK /\ AimOK /\ PositionOK
  BY Constants DEF CallOK, NoOrder, AimOK, PositionOK, NoPos
<1>5. ModeOK
  BY DEF ModeOK, NoPos, Nothing
<1>6. SweepOfOrder
  BY DEF SweepOfOrder
<1>7. AmountsOK
  BY Constants DEF AmountsOK, NoOrder, Lots
<1>8. Types /\ Machine
  BY <1>2, <1>3, <1>4, <1>5, <1>6, <1>7 DEF Types, Machine
<1>9. Before = [t \in Tokens |-> 0]
  BY <1>8, NothingMoved DEF NoOrder, Nothing
<1>10. Wallet!IInv
  <2>1. /\ Before \in [Tokens -> Nat] /\ \A t \in Tokens : Before[t] = 0
        /\ played \in BOOLEAN /\ lost = 0
    BY <1>9
  <2>2. Wallet!Known = 0
    BY DEF Wallet!Known
  <2>. QED
    BY <2>1, <2>2, Constants, Wallet!EmptyFits
<1>11. Account!Init
  BY <1>9 DEF Account!Init, Account!Flat, NoPos
<1>. QED
  BY <1>1, <1>8, <1>10, <1>11 DEF EInv

(* No step leaves the invariant.                                            *)
LEMMA NextEInv == EInv /\ [Next]_vars => EInv' /\ [Account!Next]_(Account!bvars)
<1>. SUFFICES ASSUME EInv, [Next]_vars
              PROVE  EInv' /\ [Account!Next]_(Account!bvars)
  OBVIOUS
<1>1. Sweeps'
  BY NextSweeps
<1>2. Types' /\ Machine' /\ [Account!Next]_(Account!bvars)
  BY NextFits DEF Fits
<1>3. Wallet!IInv'
  <2>1. [Wallet!Next]_(Wallet!bvars) /\ Wallet!IInv
    BY <1>2, SameStep DEF EInv
  <2>. QED
    BY <2>1, Constants, Wallet!NextIInv
<1>. QED
  BY <1>1, <1>2, <1>3 DEF EInv

(* The invariant of the orders, in every mode and every window.             *)
THEOREM EInvHolds == Spec => []EInv
BY InitEInv, NextEInv, PTL DEF Spec

(* The limits of every simulated order the machine makes, entry or exit,    *)
(* in any window: the cash, the cap, the shares held, what each level       *)
(* shows.                                                                   *)
THEOREM OrdersStayInBounds == Spec => []SweepBounds
<1>1. EInv => SweepBounds
  BY DEF EInv, Sweeps, IInv
<1>. QED
  BY <1>1, EInvHolds, PTL

(* And their greed: paper.rs takes the best levels first and leaves nothing *)
(* it could have.                                                           *)
THEOREM OrdersAreGreedy == Spec => []SweepIsGreedy
<1>1. EInv => SweepIsGreedy
  BY DEF EInv, Sweeps, Greedy, SweepIsGreedy
<1>. QED
  BY <1>1, EInvHolds, PTL

(* The refinement.  Each order (exec_buy, exec_sell), with all its awaits,  *)
(* requests and halves, is one step of Broker.tla taken at its end: the     *)
(* machine enters once a window, books what changed hands, and parts from   *)
(* the wallet by lost answers, failed second halves and residues only.      *)
THEOREM OrdersAreBrokered == Spec => BrokerSpec
BY InitEInv, NextEInv, PTL DEF Spec, BrokerSpec, Account!Spec

(* What a window risks, by the theorem of Broker.tla: one stake, and one    *)
(* more for each answer lost.                                               *)
THEOREM OrdersExpose == Spec => []Exposure
<1>1. Account!Init <=> Wallet!Init
  BY DEF Account!Init, Account!Flat, Wallet!Init, Wallet!Flat
<1>2. BrokerSpec => Wallet!Spec
  BY <1>1, SameStep, PTL DEF BrokerSpec, Account!Spec, Wallet!Spec
<1>3. Wallet!Spec => []Wallet!Exposure
  BY Constants, Wallet!ExposureHolds
<1>4. Wallet!Exposure => Exposure
  BY DEF Wallet!Exposure, Exposure, Account!Exposure
<1>. QED
  BY <1>2, <1>3, <1>4, OrdersAreBrokered, PTL

(* The types: no lots below zero, none beyond what a window can hold, in    *)
(* the wallet, the order or the books.                                      *)
THEOREM OrderTypeCorrect == Spec => []TypeOK
<1>1. ASSUME EInv PROVE TypeOK
  <2>. USE <1>1
  <2>1. SweepTypeOK
    BY DEF EInv, Sweeps, IInv
  <2>2. /\ mode \in Modes /\ played \in BOOLEAN /\ booked \in Lots
        /\ lost \in 0 .. MaxLost /\ pc \in Pcs
    BY DEF EInv, Types, FlagsOK, ClobOK, Machine, AmountsOK
  <2>3. /\ pos \in [token : Tokens \cup {None}, n : Lots]
        /\ pos.n > 0 <=> pos.token \in Tokens
    BY Constants, ExecutorAssumption
       DEF EInv, Types, PosOK, Machine, PositionOK, NoPos
  <2>4. ASSUME NEW t \in Tokens PROVE owned[t] \in Lots /\ seen[t] \in Lots
    <3>1. /\ owned[t] \in Nat /\ seen[t] \in Nat /\ seen[t] <= owned[t]
          /\ order.moved \in Nat
      BY DEF EInv, Types, ClobOK, OrderOK
    <3>2. Before[t] \in Nat /\ Before[t] <= (1 + MaxLost) * MaxStake
      BY BeforeFits
    <3>3. owned[t] <= (1 + MaxLost) * MaxStake
      <4>1. CASE ~(t = order.token /\ order.kind = "buy")
        <5>1. Before[t] = owned[t] \/ Before[t] = owned[t] + order.moved
          BY <4>1, BeforeIs
        <5>. QED
          BY <3>1, <3>2, <5>1, Constants
      <4>2. CASE t = order.token /\ order.kind = "buy"
        <5>1. Before[t] = owned[t] - order.moved /\ order.moved <= MaxStake
          BY <4>2, BeforeIs DEF EInv, Machine, AimOK
        <5>2. Wallet!Entries = lost
          BY <4>2 DEF EInv, Machine, AimOK, Types, ClobOK, Wallet!Entries, Wallet!Known
        <5>3. Before[t] <= lost * MaxStake
          BY <5>2 DEF EInv, Wallet!IInv
        <5>4. lost \in Nat /\ lost <= MaxLost
          BY Constants DEF EInv, Types, ClobOK
        <5>5. lost * MaxStake <= MaxLost * MaxStake
          BY <5>4, Constants, TimesKeeps
        <5>6. /\ lost * MaxStake \in Nat /\ MaxLost * MaxStake \in Nat
              /\ (1 + MaxLost) * MaxStake = MaxStake + MaxLost * MaxStake
          BY <5>4, Constants, SMT
        <5>. QED
          BY <3>1, <3>2, <5>1, <5>3, <5>5, <5>6, Constants
      <4>. QED
        BY <4>1, <4>2
    <3>. QED
      BY <3>1, <3>3, Constants DEF Lots
  <2>5. owned \in [Tokens -> Lots] /\ seen \in [Tokens -> Lots]
    BY <2>4 DEF EInv, Types, ClobOK
  <2>6. order.filled \in Lots /\ order.moved \in Lots
    <3>1. order.filled = order.moved /\ order.moved \in Nat
      BY DEF EInv, Machine, CallOK, Types, OrderOK
    <3>2. CASE pc = "idle"
      BY <3>1, <3>2, Constants DEF EInv, Machine, CallOK, NoOrder, Lots
    <3>3. CASE pc # "idle" /\ order.kind = "buy"
      BY <3>1, <3>3, Constants DEF EInv, Machine, AimOK
    <3>4. CASE pc # "idle" /\ order.kind # "buy"
      BY <3>1, <3>4, SaleFinds, Constants DEF Lots
    <3>. QED
      BY <3>1, <3>2, <3>3, <3>4
  <2>7. order \in [kind : Kinds, token : Tokens \cup {None}, attempt : 0 .. 2,
                   size : Lots, filled : Lots, moved : Lots]
    BY <2>6 DEF EInv, Types, OrderOK, Machine, AmountsOK
  <2>8. /\ \A t \in Tokens : seen[t] <= owned[t]
        /\ mode = "dry" => owned = Nothing /\ pos = NoPos
    BY DEF EInv, Types, ClobOK, Machine, ModeOK
  <2>. QED
    BY <2>1, <2>2, <2>3, <2>5, <2>7, <2>8 DEF TypeOK, Modes, Kinds, Pcs
<1>. QED
  BY <1>1, EInvHolds, PTL
=============================================================================
