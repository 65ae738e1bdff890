----------------------------- MODULE Settlement -----------------------------
(***************************************************************************)
(* The accounting of Le Grinder: what a window costs when it is entered    *)
(* (Grinder::try_enter) and what every way of closing it does to the       *)
(* persistent GrinderState (Grinder::resolve, panic_exit, the securing     *)
(* exit, all through Grinder::settle).                                     *)
(*                                                                         *)
(* Money is a number of units, Dollar of them in a dollar; a share is      *)
(* worth one dollar at a win, so the field `shares` of a position is the   *)
(* number of units its shares pay.  Fractions of the configuration are     *)
(* percentages and products with them are rounded down to a unit (the code *)
(* computes in f64).  One handler runs at a time and nothing but the       *)
(* handlers writes this state, so entry and settlement are atomic here;    *)
(* their durability is the subject of Durability.tla.                      *)
(***************************************************************************)
EXTENDS Integers, Sequences, FiniteSets

CONSTANTS
    Dollar,        \* units in one dollar
    GrindBase,     \* cfg.grind_base
    MaxStake,      \* cfg.max_stake_usd, 0 = no ceiling
    SkimPct,       \* cfg.stack_skim_gain in percent, 0 = off
    CapPct,        \* cfg.stack_cap_fraction in percent, 0 = off
    PaperWallet0,  \* cfg.paper_wallet0
    Live,          \* cfg.mode = "live"
    HaltOnWipe,    \* cfg.halt_on_wipe
    MaxResets,     \* cfg.max_resets, 0 = off
    ResetWindow,   \* cfg.reset_window_s
    SecurePct,     \* cfg.secure_min_price in percent
    WalletReads    \* live: values a collateral read may return, 0 = unreadable

CONSTANTS          \* bounds of the instances
    MaxWindows,    \* windows played
    MaxGap,        \* seconds between two settlements
    MaxShort,      \* part of the engaged cash the ask depth may leave undeployed
    MaxFee,        \* fees of one fill
    MaxPremium     \* what the shares of one fill pay above their price

ASSUME SettlementAssumption ==
    /\ Dollar \in Nat \ {0}
    /\ GrindBase \in Nat \ {0}
    /\ MaxStake \in Nat
    /\ SkimPct \in 0..100
    /\ CapPct \in Nat
    /\ PaperWallet0 \in Int
    /\ Live \in BOOLEAN
    /\ HaltOnWipe \in BOOLEAN
    /\ MaxResets \in Nat
    /\ ResetWindow \in Nat
    /\ SecurePct \in 0..100
    /\ WalletReads \subseteq Nat
    /\ MaxWindows \in Nat
    /\ MaxGap \in Nat
    /\ MaxShort \in Nat
    /\ MaxFee \in Nat
    /\ MaxPremium \in Nat

VARIABLES
    (* GrinderState, the part written to grinder_state.json *)
    stack, streak, run_id, best_streak, best_stack, windows_played,
    wins, losses, panic_exits, realized_pnl, halted, banked, reset_ts,
    (* Grinder, volatile *)
    phase,         \* "scanning" or "in_position"
    pos,           \* the open position, NoPos when scanning
    wallet_live,   \* the wallet poller's last value, 0 = nothing read yet
    wallet_evals,  \* the last three wallet evaluations at a settlement
    (* the ledger file *)
    ledger,
    (* history *)
    clock,         \* time of the last settlement
    injected,      \* money put on the table by the returns to the base stake
    trimmed,       \* money a boot left in the wallet without banking it
    rearmed        \* a human lifted the halt since the last reset

state == <<stack, streak, run_id, best_streak, best_stack, windows_played,
           wins, losses, panic_exits, realized_pnl, halted, banked, reset_ts>>

history == <<clock, injected, trimmed, rearmed>>

vars == <<state, phase, pos, wallet_live, wallet_evals, ledger, history>>

-----------------------------------------------------------------------------
Lesser(a, b)  == IF a <= b THEN a ELSE b
Greater(a, b) == IF a >= b THEN a ELSE b
Percent(p, x) == (p * x) \div 100

Outcomes == {"win", "loss", "panic", "secure"}
NoPos    == [cost |-> 0, notional |-> 0, fees |-> 0, shares |-> 0, cash_left |-> 0]

(* engage(): the dollars put into one window. *)
Engage == IF MaxStake > 0 THEN Lesser(stack, MaxStake) ELSE stack

(* The fills of exec_buy: at least a unit, at most the engaged cash, fees on  *)
(* top of it in paper (the live executor reports none), each share paid less  *)
(* than the dollar it may be worth.                                           *)
BuyFills ==
    {f \in [notional : (Engage - MaxShort)..Engage,
            fees     : 0..(IF Live THEN 0 ELSE MaxFee),
            premium  : 1..MaxPremium] : f.notional >= 1}

(* Cash the fill leaves: the code clamps at zero what fees take beyond the    *)
(* stack.                                                                     *)
CashLeft(f) == Greater(stack - f.notional - f.fees, 0)

Bug_Opened(f) == [cost      |-> f.notional + f.fees,
                  notional  |-> f.notional,
                  fees      |-> f.fees,
                  shares    |-> f.notional + f.premium,
                  cash_left |-> CashLeft(f)]
(* The whole stack is the cost of the position, whatever part was deployed.   *)
Opened(f) == [cost      |-> stack,
              notional  |-> f.notional,
              fees      |-> f.fees,
              shares    |-> f.notional + f.premium,
              cash_left |-> CashLeft(f)]

-----------------------------------------------------------------------------
(* settle(), piece by piece.                                                *)

Bug_PaperWallet(pnl) == PaperWallet0
(* The virtual wallet of paper trading, at a realised PnL of pnl.           *)
PaperWallet(pnl) == PaperWallet0 + pnl

(* wallet_estimate(): the poller's value, else the virtual wallet of paper. *)
WalletEstimate(pnl) ==
    IF wallet_live > 0 THEN wallet_live
    ELSE IF Live THEN 0 ELSE Greater(PaperWallet(pnl), 0)

(* The stake of a new run: min(base, 15 % of the wallet), at least $2.      *)
WipeBase(estimate) ==
    IF estimate > 0
    THEN Greater(Lesser(GrindBase, Percent(15, estimate)), 2 * Dollar)
    ELSE GrindBase

(* The window is a wipe: it neither won nor saved the base stake.           *)
Wiped(outcome, proceeds) ==
    outcome \notin {"win", "secure"} /\ proceeds < GrindBase

Bug_TotalLoss(outcome, proceeds) == outcome = "loss" /\ proceeds < Dollar
(* The wipes HALT_ON_WIPE stops on: lost at resolution, or under a dollar.  *)
TotalLoss(outcome, proceeds) == outcome = "loss" \/ proceeds < Dollar

(* The part of a winning window's gain that leaves the table.               *)
Skim(outcome, pnl) ==
    IF outcome = "win" /\ pnl > 0 THEN Percent(SkimPct, pnl) ELSE 0

Bug_CapExcess(x, wallet) ==
    IF CapPct > 0 /\ wallet > 0 THEN x - Percent(CapPct, wallet) ELSE 0
(* What the Kelly cap takes off a stack of x; it takes nothing on a wallet  *)
(* that is empty or unreadable (0).                                         *)
CapExcess(x, wallet) ==
    IF CapPct > 0 /\ wallet > 0 THEN Greater(x - Percent(CapPct, wallet), 0) ELSE 0

Bug_LargestWallet(evals) == wallet_live
(* Live: the largest of the poller's value and of the last evaluations.     *)
LargestWallet(evals) ==
    LET eval(i) == IF i <= Len(evals) THEN evals[i] ELSE 0
    IN  Greater(wallet_live, Greater(eval(1), Greater(eval(2), eval(3))))

(* wallet_evals keeps three evaluations.                                    *)
Pushed(evals, e) ==
    IF Len(evals) < 3 THEN Append(evals, e) ELSE Append(Tail(evals), e)

Bug_Resets(t, outcome, proceeds) == {t}
(* reset_ts: the resets of the last ResetWindow seconds.                    *)
Resets(t, outcome, proceeds) ==
    IF Wiped(outcome, proceeds)
    THEN {r \in reset_ts \cup {t} : t - r < ResetWindow}
    ELSE reset_ts

(* What settle() leaves in `halted`: the circuit breaker of live trading    *)
(* and HALT_ON_WIPE only ever set it.                                       *)
Halting(t, outcome, proceeds) ==
    /\ Wiped(outcome, proceeds)
    /\ \/ /\ Live
          /\ MaxResets > 0
          /\ Cardinality(Resets(t, outcome, proceeds)) >= MaxResets
       \/ HaltOnWipe /\ TotalLoss(outcome, proceeds)

(* The stack before anything is skimmed: the proceeds, or a new base.       *)
Compounded(outcome, proceeds) ==
    IF Wiped(outcome, proceeds)
    THEN WipeBase(WalletEstimate(realized_pnl + proceeds - pos.cost))
    ELSE proceeds

(* The streak after a window: a secured exit leaves it alone.               *)
Bug_Streak(outcome) == IF outcome \in {"win", "secure"} THEN streak + 1 ELSE 0
Streak(outcome) ==
    IF outcome = "win" THEN streak + 1
    ELSE IF outcome = "secure" THEN streak ELSE 0

(* The ledger row of the open position, closed at time t.                   *)
Row(outcome, proceeds, fees, t) ==
    [ts           |-> t,
     cost         |-> pos.cost,
     notional     |-> pos.notional,
     fees         |-> pos.fees + fees,
     outcome      |-> outcome,
     proceeds     |-> proceeds,
     pnl          |-> proceeds - pos.cost,
     stack_after  |-> stack',
     streak_after |-> streak',
     run_id       |-> run_id']

(* settle() at time t, with the wallet the Kelly cap is computed on.        *)
SettleOn(outcome, proceeds, fees, t, wallet) ==
    LET pnl    == proceeds - pos.cost
        table  == Compounded(outcome, proceeds)
        gain   == Skim(outcome, pnl)
        excess == CapExcess(table - gain, wallet)
        wiped  == Wiped(outcome, proceeds)
    IN  /\ windows_played' = windows_played + 1
        /\ realized_pnl' = realized_pnl + pnl
        /\ streak' = Streak(outcome)
        /\ best_streak' = Greater(best_streak, Streak(outcome))
        /\ run_id' = IF wiped THEN run_id + 1 ELSE run_id
        /\ stack' = table - gain - excess
        /\ best_stack' = Greater(best_stack, table)
        /\ banked' = banked + gain + excess
        /\ reset_ts' = Resets(t, outcome, proceeds)
        /\ halted' = (halted \/ Halting(t, outcome, proceeds))
        /\ ledger' = Append(ledger, Row(outcome, proceeds, fees, t))
        /\ phase' = "scanning"
        /\ pos' = NoPos
        /\ clock' = t
        /\ injected' = IF wiped THEN injected + table - proceeds ELSE injected
        /\ rearmed' = (rearmed /\ ~wiped)
        /\ UNCHANGED <<wallet_live, trimmed>>

(* settle() in paper: the wallet is virtual.                                *)
SettlePaper(outcome, proceeds, fees, t) ==
    /\ ~Live
    /\ SettleOn(outcome, proceeds, fees, t,
                PaperWallet(realized_pnl + proceeds - pos.cost))
    /\ UNCHANGED wallet_evals

(* settle() in live: a positive collateral read becomes an evaluation and   *)
(* caps the stack, a failed one (0) caps nothing this time.                 *)
SettleLive(outcome, proceeds, fees, t) ==
    /\ Live
    /\ \E c \in WalletReads :
          IF CapPct > 0 /\ c > 0
          THEN /\ wallet_evals' = Pushed(wallet_evals, c + proceeds)
               /\ SettleOn(outcome, proceeds, fees, t, LargestWallet(wallet_evals'))
          ELSE /\ SettleOn(outcome, proceeds, fees, t, 0)
               /\ UNCHANGED wallet_evals

Settle(outcome, proceeds, fees) ==
    \E t \in clock + 1 .. clock + MaxGap :
        \/ SettlePaper(outcome, proceeds, fees, t)
        \/ SettleLive(outcome, proceeds, fees, t)
-----------------------------------------------------------------------------
(* GrinderState::fresh, and a Grinder that has just been booted on it.      *)
Init ==
    /\ stack = GrindBase /\ best_stack = GrindBase
    /\ streak = 0 /\ best_streak = 0
    /\ run_id = 1
    /\ windows_played = 0 /\ wins = 0 /\ losses = 0 /\ panic_exits = 0
    /\ realized_pnl = 0 /\ banked = 0
    /\ halted = FALSE
    /\ reset_ts = {}
    /\ phase = "scanning" /\ pos = NoPos
    /\ wallet_live = 0 /\ wallet_evals = <<>>
    /\ ledger = <<>>
    /\ clock = 0 /\ injected = 0 /\ trimmed = 0 /\ rearmed = FALSE

(* try_enter(): the market's conditions are those of WindowCycle.tla.       *)
Enter ==
    /\ phase = "scanning"
    /\ ~halted
    /\ windows_played < MaxWindows
    /\ \E f \in BuyFills : pos' = Opened(f)
    /\ phase' = "in_position"
    /\ UNCHANGED <<state, wallet_live, wallet_evals, ledger, history>>

(* resolve() of a window that closed on our side: the shares pay a dollar.  *)
Win ==
    /\ phase = "in_position"
    /\ wins' = wins + 1
    /\ Settle("win", pos.shares + pos.cash_left, 0)
    /\ UNCHANGED <<losses, panic_exits>>

(* resolve() of a window that closed against us.                            *)
Loss ==
    /\ phase = "in_position"
    /\ losses' = losses + 1
    /\ Settle("loss", pos.cash_left, 0)
    /\ UNCHANGED <<wins, panic_exits>>

(* The fees a sale reports: none live, where they come off the price.       *)
ExitFees == 0 .. (IF Live THEN 0 ELSE MaxFee)

(* panic_exit() that sold something: at bids under a dollar, with fees that *)
(* never make the sale negative; what was not sold is written off.          *)
PanicExit ==
    /\ phase = "in_position"
    /\ panic_exits' = panic_exits + 1
    /\ \E sold \in 0 .. pos.shares - 1, fees \in ExitFees :
          Settle("panic", Greater(sold - fees, 0) + pos.cash_left, fees)
    /\ UNCHANGED <<wins, losses>>

(* The securing exit: every share, at secure_min_price or better.           *)
SecureExit ==
    /\ phase = "in_position"
    /\ \E sold \in Percent(SecurePct, pos.shares) .. pos.shares - 1, fees \in ExitFees :
          Settle("secure", Greater(sold - fees, 0) + pos.cash_left, fees)
    /\ UNCHANGED <<wins, losses, panic_exits>>

(* housekeeping(): the reconciliation found an official verdict that is not *)
(* the one booked; paper trading only logs it.                              *)
ReconcileHalt ==
    /\ Live
    /\ wins + losses > 0
    /\ halted' = TRUE
    /\ UNCHANGED <<stack, streak, run_id, best_streak, best_stack, windows_played,
                   wins, losses, panic_exits, realized_pnl, banked, reset_ts,
                   phase, pos, wallet_live, wallet_evals, ledger, history>>

(* try_enter(): the dashboard's button lifts the halt (when the button may  *)
(* have been pressed is the subject of Durability.tla).                     *)
Resume ==
    /\ phase = "scanning"
    /\ halted
    /\ halted' = FALSE
    /\ rearmed' = TRUE
    /\ UNCHANGED <<stack, streak, run_id, best_streak, best_stack, windows_played,
                   wins, losses, panic_exits, realized_pnl, banked, reset_ts,
                   phase, pos, wallet_live, wallet_evals, ledger,
                   clock, injected, trimmed>>

(* The live wallet poller publishes the largest of its last positive reads. *)
PollWallet ==
    /\ Live
    /\ wallet_live' \in WalletReads \ {0}
    /\ UNCHANGED <<state, phase, pos, wallet_evals, ledger, history>>

(* run(): a boot between two windows on the saved state.  Live refuses a    *)
(* collateral under the base stake, then reads it again and trims the stack *)
(* to what it reads, be it under the base by then; a failed read trims      *)
(* nothing.                                                                 *)
Reboot ==
    /\ phase = "scanning"
    /\ wallet_live' = 0 /\ wallet_evals' = <<>>
    /\ IF Live
       THEN /\ \E c \in WalletReads : c >= GrindBase
            /\ \E c \in WalletReads : stack' \in {stack, Lesser(stack, c)}
            /\ trimmed' = trimmed + stack - stack'
       ELSE UNCHANGED <<stack, trimmed>>
    /\ UNCHANGED <<streak, run_id, best_streak, best_stack, windows_played, wins,
                   losses, panic_exits, realized_pnl, halted, banked, reset_ts,
                   phase, pos, ledger, clock, injected, rearmed>>

Next ==
    \/ Enter
    \/ Win \/ Loss \/ PanicExit \/ SecureExit
    \/ ReconcileHalt \/ Resume
    \/ PollWallet \/ Reboot

Spec == Init /\ [][Next]_vars

-----------------------------------------------------------------------------
Positions == [cost : Nat, notional : Nat, fees : Nat, shares : Nat, cash_left : Nat]

Rows == [ts : Nat, cost : Nat, notional : Nat, fees : Nat, outcome : Outcomes, proceeds : Nat,
         pnl : Int, stack_after : Nat, streak_after : Nat, run_id : Nat]

(* The types; among them, no skim or cap ever drives the stack or the       *)
(* reserve below zero, and no window is entered without a stake.            *)
TypeOK ==
    /\ stack \in Nat /\ best_stack \in Nat
    /\ streak \in Nat /\ best_streak \in Nat
    /\ run_id \in Nat
    /\ windows_played \in Nat
    /\ wins \in Nat /\ losses \in Nat /\ panic_exits \in Nat
    /\ realized_pnl \in Int
    /\ banked \in Nat
    /\ halted \in BOOLEAN
    /\ reset_ts \subseteq Nat
    /\ phase \in {"scanning", "in_position"}
    /\ pos \in Positions
    /\ wallet_live \in Nat
    /\ wallet_evals \in Seq(Nat) /\ Len(wallet_evals) <= 3
    /\ ledger \in Seq(Rows)
    /\ clock \in Nat /\ injected \in Int /\ trimmed \in Nat /\ rearmed \in BOOLEAN

(* Money is conserved: what is on the table and in the reserve is the first *)
(* stake plus the realised PnL, up to what the wipes put back on the table  *)
(* and what boots trimmed; and an open position still stands for the whole  *)
(* stack, so a settlement that replaces the stack by the proceeds forgets   *)
(* nothing (settle() and the cost and cash_left of try_enter()).            *)
Conservation ==
    /\ stack + banked + trimmed = GrindBase + realized_pnl + injected
    /\ phase = "in_position" => pos.cost = stack

(* Paper: after any settlement the stack is at most its Kelly share of the  *)
(* virtual wallet as it is AFTER that window, whatever the outcome, a return *)
(* to the base stake included.                                              *)
PaperKellyCap ==
    ~Live /\ CapPct > 0 /\ windows_played > 0 /\ PaperWallet0 + realized_pnl > 0
        => 100 * stack <= CapPct * (PaperWallet0 + realized_pnl)

(* The wallets a settlement caps the stack on: the poller's and the         *)
(* evaluations kept after it.                                               *)
WalletsSeen == {wallet_live} \cup {wallet_evals'[i] : i \in DOMAIN wallet_evals'}

(* The stack is within the Kelly share of a wallet seen, and the proceeds   *)
(* of a window that are within it, and are neither skimmed nor replaced by  *)
(* a new base, are left alone.                                              *)
StackWithinShare ==
    LET row == ledger'[Len(ledger')]
    IN  /\ \E w \in WalletsSeen : 100 * stack' <= CapPct * w
        /\ row.outcome # "win" /\ ~Wiped(row.outcome, row.proceeds)
             /\ (\E w \in WalletsSeen : 100 * row.proceeds <= CapPct * w)
           => stack' = row.proceeds

(* Live: no settlement that could read the collateral leaves on the table   *)
(* more than the Kelly share of the largest wallet seen by the poller and   *)
(* the evaluations it keeps, and none of them skims below that share: a     *)
(* stack under the share of any single evaluation is left alone.            *)
LiveKellyCap ==
    [][wallet_evals' # wallet_evals /\ windows_played' > windows_played
         => StackWithinShare]_vars

Wipes == {i \in DOMAIN ledger :
            ledger[i].outcome \in {"loss", "panic"} /\ ledger[i].proceeds < GrindBase}

Last(s) == s[Len(s)]

(* The rows booked with outcome o.                                          *)
Booked(o) == {i \in DOMAIN ledger : ledger[i].outcome = o}

(* The wins since the last row that broke the streak.                       *)
Unbroken ==
    {i \in Booked("win") :
        \A j \in i .. Len(ledger) : ledger[j].outcome \in {"win", "secure"}}

(* The ledger tells the same story as the state: the counters count its     *)
(* rows, the streak is the wins since the last row that broke it, the run   *)
(* is one more than its wipes, and no window is entered, and no stack       *)
(* carried on, with more than the row before it left.                       *)
LedgerAgrees ==
    /\ windows_played = Len(ledger)
    /\ wins = Cardinality(Booked("win"))
    /\ losses = Cardinality(Booked("loss"))
    /\ panic_exits = Cardinality(Booked("panic"))
    /\ streak = Cardinality(Unbroken)
    /\ \A i \in DOMAIN ledger : ledger[i].streak_after <= best_streak
    /\ run_id = 1 + Cardinality(Wipes)
    /\ \A i \in 2 .. Len(ledger) : ledger[i].cost <= ledger[i - 1].stack_after
    /\ ledger # <<>> => stack <= Last(ledger).stack_after

(* The reserve is out of reach: no window, wipe, halt or boot ever takes    *)
(* from it (GrinderState.banked).                                           *)
BankedNeverShrinks == [][banked' >= banked]_banked

Entered == phase = "scanning" /\ phase' = "in_position"

(* The last wipe is not one that stops the bot: a total loss (HALT_ON_WIPE),*)
(* or one that makes MaxResets wipes within ResetWindow seconds (the live   *)
(* circuit breaker).  The wipes are those of the ledger.                    *)
Untripped ==
    \A last \in Wipes :
        (\A i \in Wipes : i <= last) =>
            /\ HaltOnWipe => /\ ledger[last].outcome # "loss"
                             /\ ledger[last].proceeds >= Dollar
            /\ Live /\ MaxResets > 0 =>
                 Cardinality({i \in Wipes :
                     ledger[last].ts - ledger[i].ts < ResetWindow}) < MaxResets

(* The halts hold, reboots in between or not: after a wipe that stops the   *)
(* bot no window is entered before a human has lifted the halt.             *)
HaltsHold == [][Entered /\ ~rearmed => Untripped]_vars
=============================================================================
