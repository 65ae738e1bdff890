-------------------------- MODULE SettlementProofs --------------------------
(***************************************************************************)
(* What the accounting of Settlement.tla guarantees for every value of its *)
(* constants: its types (no skim or cap drives the stack or the reserve    *)
(* below zero), the conservation of money, the Kelly caps of paper and of  *)
(* live trading, the reserve that only grows, the ledger that tells the    *)
(* same story as the state, and the halts that hold.                       *)
(***************************************************************************)
EXTENDS Settlement, FiniteSetTheorems, TLAPS

(* A percentage of an amount is a part of it.                              *)
LEMMA PercentPart ==
    ASSUME NEW p \in 0..100, NEW x \in Nat
    PROVE  Percent(p, x) \in Nat /\ Percent(p, x) <= x
<1>1. p * x \in Nat /\ p * x <= 100 * x
  BY SMT
<1>2. \A y \in Nat : y <= 100 * x => y \div 100 \in Nat /\ y \div 100 <= x
  BY SMT
<1>. QED
  BY <1>1, <1>2 DEF Percent

(* A percentage of an amount, a hundred times, is at most the product.     *)
LEMMA PercentFloor ==
    ASSUME NEW p \in Nat, NEW x \in Nat
    PROVE  Percent(p, x) \in Nat /\ 100 * Percent(p, x) <= p * x
<1>1. p * x \in Nat
  BY SMT
<1>2. \A y \in Nat : y \div 100 \in Nat /\ 100 * (y \div 100) <= y
  BY SMT
<1>. QED
  BY <1>1, <1>2 DEF Percent

-----------------------------------------------------------------------------
(* The inductive invariant: the types, and the conservation of money with   *)
(* its second conjunct, without which a settlement, which computes the PnL  *)
(* from the position's cost and then overwrites the stack, conserves        *)
(* nothing.                                                                 *)
IInv == TypeOK /\ Conservation

(* A new base stake is an amount.                                           *)
LEMMA CompoundedType ==
    ASSUME TypeOK, NEW outcome \in Outcomes, NEW proceeds \in Nat
    PROVE  /\ Compounded(outcome, proceeds) \in Nat
           /\ ~Wiped(outcome, proceeds) => Compounded(outcome, proceeds) = proceeds
<1>1. WalletEstimate(realized_pnl + proceeds - pos.cost) \in Nat
  BY SettlementAssumption DEF TypeOK, Positions, WalletEstimate, PaperWallet, Greater
<1>2. ASSUME NEW e \in Nat PROVE WipeBase(e) \in Nat
  <2>1. Percent(15, e) \in Nat
    BY PercentPart
  <2>. QED
    BY <2>1, SettlementAssumption DEF WipeBase, Greater, Lesser
<1>. QED
  BY <1>1, <1>2 DEF Compounded

(* What leaves the table at a win is a part of the proceeds.                *)
LEMMA SkimPart ==
    ASSUME NEW outcome \in Outcomes, NEW proceeds \in Nat, NEW cost \in Nat
    PROVE  /\ Skim(outcome, proceeds - cost) \in Nat
           /\ Skim(outcome, proceeds - cost) <= proceeds
           /\ outcome # "win" => Skim(outcome, proceeds - cost) = 0
<1>1. CASE outcome = "win" /\ proceeds - cost > 0
  <2>1. proceeds - cost \in Nat
    BY <1>1
  <2>2. Percent(SkimPct, proceeds - cost) \in Nat
        /\ Percent(SkimPct, proceeds - cost) <= proceeds - cost
    BY <2>1, PercentPart, SettlementAssumption
  <2>. QED
    BY <1>1, <2>2 DEF Skim
<1>2. CASE ~(outcome = "win" /\ proceeds - cost > 0)
  BY <1>2 DEF Skim
<1>. QED
  BY <1>1, <1>2

(* The cap takes off a part of the stack, and leaves at most the share of   *)
(* a wallet that is not empty.                                              *)
LEMMA CapPart ==
    ASSUME NEW x \in Nat, NEW wallet \in Int
    PROVE  /\ CapExcess(x, wallet) \in Nat
           /\ CapExcess(x, wallet) <= x
           /\ CapPct > 0 /\ wallet > 0
                => 100 * (x - CapExcess(x, wallet)) <= CapPct * wallet
<1>1. CASE CapPct > 0 /\ wallet > 0
  <2>1. Percent(CapPct, wallet) \in Nat
        /\ 100 * Percent(CapPct, wallet) <= CapPct * wallet
    BY <1>1, PercentFloor, SettlementAssumption
  <2>2. CapPct * wallet \in Int
    BY SettlementAssumption
  <2>. QED
    BY <1>1, <2>1, <2>2 DEF CapExcess, Greater
<1>2. CASE ~(CapPct > 0 /\ wallet > 0)
  BY <1>2 DEF CapExcess
<1>. QED
  BY <1>1, <1>2

-----------------------------------------------------------------------------
(* A settlement keeps the types of everything it writes.                    *)
SettledTypes ==
    /\ stack' \in Nat /\ best_stack' \in Nat
    /\ streak' \in Nat /\ best_streak' \in Nat
    /\ run_id' \in Nat /\ windows_played' \in Nat
    /\ realized_pnl' \in Int /\ banked' \in Nat
    /\ halted' \in BOOLEAN
    /\ reset_ts' \subseteq Nat
    /\ phase' = "scanning" /\ pos' \in Positions
    /\ wallet_live' \in Nat
    /\ ledger' \in Seq(Rows)
    /\ clock' \in Nat /\ injected' \in Int /\ trimmed' \in Nat
    /\ rearmed' \in BOOLEAN

(* The facts about one settlement that the theorems rest on.                *)
LEMMA SettleOnFacts ==
    ASSUME TypeOK, Conservation, phase = "in_position",
           NEW outcome \in Outcomes, NEW proceeds \in Nat, NEW fees \in Nat,
           NEW t \in Nat, NEW wallet \in Int,
           SettleOn(outcome, proceeds, fees, t, wallet)
    PROVE  /\ SettledTypes
           /\ Conservation'
           /\ banked' >= banked
           /\ realized_pnl' = realized_pnl + proceeds - pos.cost
           /\ CapPct > 0 /\ wallet > 0 => 100 * stack' <= CapPct * wallet
<1>. DEFINE table  == Compounded(outcome, proceeds)
            gain   == Skim(outcome, proceeds - pos.cost)
            excess == CapExcess(table - gain, wallet)
<1>1. pos.cost \in Nat /\ pos.cost = stack /\ pos.fees \in Nat /\ pos.notional \in Nat
  BY DEF TypeOK, Positions, Conservation
<1>2. /\ table \in Nat
      /\ ~Wiped(outcome, proceeds) => table = proceeds
      /\ outcome = "win" => ~Wiped(outcome, proceeds)
  BY CompoundedType DEF Wiped
<1>3. gain \in Nat /\ gain <= table
  BY <1>1, <1>2, SkimPart
<1>4. /\ excess \in Nat /\ excess <= table - gain
      /\ CapPct > 0 /\ wallet > 0
            => 100 * (table - gain - excess) <= CapPct * wallet
  <2>1. table - gain \in Nat
    BY <1>2, <1>3
  <2>. QED
    BY <2>1, CapPart
<1>5. /\ stack' = table - gain - excess
      /\ best_stack' = Greater(best_stack, table)
      /\ banked' = banked + gain + excess
      /\ realized_pnl' = realized_pnl + (proceeds - pos.cost)
      /\ injected' = IF Wiped(outcome, proceeds) THEN injected + table - proceeds
                     ELSE injected
      /\ trimmed' = trimmed
      /\ phase' = "scanning" /\ pos' = NoPos
      /\ wallet_live' = wallet_live
      /\ clock' = t
  BY DEF SettleOn
<1>. HIDE DEF table, gain, excess
<1>6. stack' \in Nat /\ banked' \in Nat /\ banked' >= banked
  BY <1>2, <1>3, <1>4, <1>5 DEF TypeOK
<1>7. realized_pnl' \in Int /\ injected' \in Int /\ trimmed' \in Nat
  BY <1>1, <1>2, <1>5 DEF TypeOK
<1>8. Conservation'
  <2>1. stack' + banked' + trimmed' = GrindBase + realized_pnl' + injected'
    <3>1. GrindBase \in Nat
      BY SettlementAssumption
    <3>2. stack + banked + trimmed = GrindBase + realized_pnl + injected
      BY DEF Conservation
    <3>3. /\ stack \in Nat /\ banked \in Nat /\ trimmed \in Nat
          /\ realized_pnl \in Int /\ injected \in Int
      BY DEF TypeOK
    <3>. QED
      BY <1>1, <1>2, <1>3, <1>4, <1>5, <3>1, <3>2, <3>3
  <2>. QED
    BY <1>5, <2>1 DEF Conservation
<1>9. SettledTypes
  <2>1. /\ streak' \in Nat /\ best_streak' \in Nat
        /\ run_id' \in Nat /\ windows_played' \in Nat
    BY DEF TypeOK, SettleOn, Streak, Greater
  <2>2. best_stack' \in Nat
    BY <1>2, <1>5 DEF TypeOK, Greater
  <2>3. halted' \in BOOLEAN /\ rearmed' \in BOOLEAN
    BY DEF TypeOK, SettleOn
  <2>4. reset_ts' \subseteq Nat
    BY DEF TypeOK, SettleOn, Resets
  <2>5. pos' \in Positions
    BY <1>5 DEF NoPos, Positions
  <2>6. ledger' \in Seq(Rows)
    <3>1. Row(outcome, proceeds, fees, t) \in Rows
      BY <1>1, <1>6, <2>1 DEF Row, Rows
    <3>. QED
      BY <3>1 DEF TypeOK, SettleOn
  <2>. QED
    BY <1>5, <1>6, <1>7, <2>1, <2>2, <2>3, <2>4, <2>5, <2>6 DEF SettledTypes, TypeOK
<1>. QED
  BY <1>1, <1>4, <1>5, <1>6, <1>8, <1>9 DEF TypeOK

-----------------------------------------------------------------------------
(* The evaluations stay three numbers at most.                              *)
LEMMA PushedType ==
    ASSUME NEW evals \in Seq(Nat), Len(evals) <= 3, NEW e \in Nat
    PROVE  Pushed(evals, e) \in Seq(Nat) /\ Len(Pushed(evals, e)) <= 3
<1>1. Len(evals) \in Nat
  OBVIOUS
<1>2. CASE Len(evals) < 3
  <2>1. Append(evals, e) \in Seq(Nat) /\ Len(Append(evals, e)) = Len(evals) + 1
    OBVIOUS
  <2>. QED
    BY <1>1, <1>2, <2>1 DEF Pushed
<1>3. CASE ~(Len(evals) < 3)
  <2>0. \A n \in Nat : n <= 3 /\ ~(n < 3) => n = 3
    OBVIOUS
  <2>1. Len(evals) = 3
    BY <1>1, <1>3, <2>0
  <2>2. evals # <<>>
    <3>1. Len(<<>>) = 0 /\ 3 # 0
      OBVIOUS
    <3>. QED
      BY <2>1, <3>1, Zenon
  <2>3. Tail(evals) \in Seq(Nat) /\ Len(Tail(evals)) = 2
    BY <2>1, <2>2
  <2>4. /\ Append(Tail(evals), e) \in Seq(Nat)
        /\ Len(Append(Tail(evals), e)) = Len(Tail(evals)) + 1
    BY <2>3
  <2>. QED
    BY <1>3, <2>3, <2>4 DEF Pushed
<1>. QED
  BY <1>2, <1>3

(* What every way of closing a position keeps: it is one settlement on a    *)
(* wallet that, in paper, is the virtual one.                               *)
SettledWell ==
    /\ SettledTypes
    /\ wallet_evals' \in Seq(Nat) /\ Len(wallet_evals') <= 3
    /\ Conservation'
    /\ banked' >= banked
    /\ ~Live /\ CapPct > 0 /\ PaperWallet0 + realized_pnl' > 0
         => 100 * stack' <= CapPct * (PaperWallet0 + realized_pnl')

(* What settle() leaves, whatever the outcome.                              *)
LEMMA SettleFacts ==
    ASSUME TypeOK, Conservation, phase = "in_position",
           NEW outcome \in Outcomes, NEW proceeds \in Nat, NEW fees \in Nat,
           Settle(outcome, proceeds, fees)
    PROVE  SettledWell
<1>1. PICK t \in clock + 1 .. clock + MaxGap :
         SettlePaper(outcome, proceeds, fees, t) \/ SettleLive(outcome, proceeds, fees, t)
  BY DEF Settle
<1>2. t \in Nat
  BY <1>1, SettlementAssumption DEF TypeOK
<1>3. CASE SettlePaper(outcome, proceeds, fees, t)
  <2>. DEFINE wallet == PaperWallet(realized_pnl + proceeds - pos.cost)
  <2>1. /\ SettleOn(outcome, proceeds, fees, t, wallet)
        /\ wallet_evals' = wallet_evals
    BY <1>3 DEF SettlePaper
  <2>2. /\ wallet \in Int
        /\ wallet = PaperWallet0 + (realized_pnl + proceeds - pos.cost)
    BY SettlementAssumption DEF TypeOK, Positions, PaperWallet
  <2>. HIDE DEF wallet
  <2>3. /\ SettledTypes /\ Conservation' /\ banked' >= banked
        /\ realized_pnl' = realized_pnl + proceeds - pos.cost
        /\ CapPct > 0 /\ wallet > 0 => 100 * stack' <= CapPct * wallet
    BY <1>2, <2>1, <2>2, SettleOnFacts
  <2>4. wallet = PaperWallet0 + realized_pnl'
    BY <2>2, <2>3
  <2>. QED
    BY <2>1, <2>3, <2>4 DEF SettledWell, TypeOK
<1>4. CASE SettleLive(outcome, proceeds, fees, t)
  <2>1. PICK c \in WalletReads :
          IF CapPct > 0 /\ c > 0
          THEN /\ wallet_evals' = Pushed(wallet_evals, c + proceeds)
               /\ SettleOn(outcome, proceeds, fees, t, LargestWallet(wallet_evals'))
          ELSE /\ SettleOn(outcome, proceeds, fees, t, 0)
               /\ UNCHANGED wallet_evals
    BY <1>4 DEF SettleLive
  <2>2. c \in Nat
    BY <2>1, SettlementAssumption
  <2>3. Live
    BY <1>4 DEF SettleLive
  <2>4. CASE CapPct > 0 /\ c > 0
    <3>1. wallet_evals' \in Seq(Nat) /\ Len(wallet_evals') <= 3
      <4>1. wallet_evals \in Seq(Nat) /\ Len(wallet_evals) <= 3
        BY DEF TypeOK
      <4>2. c + proceeds \in Nat /\ wallet_evals' = Pushed(wallet_evals, c + proceeds)
        BY <2>1, <2>2, <2>4
      <4>. QED
        BY <4>1, <4>2, PushedType
    <3>2. LargestWallet(wallet_evals') \in Nat
      BY <3>1 DEF LargestWallet, Greater, TypeOK
    <3>3. SettleOn(outcome, proceeds, fees, t, LargestWallet(wallet_evals'))
      BY <2>1, <2>4
    <3>4. SettledTypes /\ Conservation' /\ banked' >= banked
      BY <1>2, <3>2, <3>3, SettleOnFacts
    <3>. QED
      BY <2>3, <3>1, <3>4 DEF SettledWell
  <2>5. CASE ~(CapPct > 0 /\ c > 0)
    <3>1. SettleOn(outcome, proceeds, fees, t, 0) /\ wallet_evals' = wallet_evals
      BY <2>1, <2>5
    <3>2. SettledTypes /\ Conservation' /\ banked' >= banked
      BY <1>2, <3>1, SettleOnFacts
    <3>. QED
      BY <2>3, <3>1, <3>2 DEF SettledWell, TypeOK
  <2>. QED
    BY <2>4, <2>5
<1>. QED
  BY <1>1, <1>3, <1>4

-----------------------------------------------------------------------------
(* An entry opens a position typed as one, for the whole stack.             *)
LEMMA OpenedType ==
    ASSUME TypeOK, NEW f \in BuyFills
    PROVE  Opened(f) \in Positions /\ Opened(f).cost = stack
<1>1. stack \in Nat /\ MaxStake \in Nat /\ MaxShort \in Nat
      /\ MaxFee \in Nat /\ MaxPremium \in Nat
  BY SettlementAssumption DEF TypeOK
<1>2. Engage \in Nat
  BY <1>1 DEF Engage, Lesser
<1>3. f.notional \in Nat /\ f.fees \in Nat /\ f.premium \in Nat
  BY <1>1, <1>2 DEF BuyFills
<1>4. CashLeft(f) \in Nat
  BY <1>1, <1>3 DEF CashLeft, Greater
<1>. QED
  BY <1>1, <1>3, <1>4 DEF Opened, Positions

(* What a sale brings is an amount, whatever was sold and paid in fees.     *)
LEMMA SaleType ==
    ASSUME NEW sold \in Int, NEW fees \in ExitFees, NEW cash \in Nat
    PROVE  fees \in Nat /\ Greater(sold - fees, 0) + cash \in Nat
<1>1. fees \in Nat
  BY SettlementAssumption DEF ExitFees
<1>. QED
  BY <1>1 DEF Greater

(* Every way of closing a position is a settlement; what the counters count *)
(* stays a number.                                                          *)
Closing == Win \/ Loss \/ PanicExit \/ SecureExit

(* The counters of the four closings, by their outcome.                     *)
Counted(outcome) ==
    /\ wins' = IF outcome = "win" THEN wins + 1 ELSE wins
    /\ losses' = IF outcome = "loss" THEN losses + 1 ELSE losses
    /\ panic_exits' = IF outcome = "panic" THEN panic_exits + 1 ELSE panic_exits

(* Each of the four closings is a settlement of an amount.                  *)
LEMMA ClosingSettles ==
    ASSUME IInv, Closing
    PROVE  /\ phase = "in_position"
           /\ \E outcome \in Outcomes, proceeds \in Nat, fees \in Nat :
                 Settle(outcome, proceeds, fees) /\ Counted(outcome)
<1>1. /\ TypeOK
      /\ pos.shares \in Nat /\ pos.cash_left \in Nat
      /\ pos.shares + pos.cash_left \in Nat
  BY DEF IInv, TypeOK, Positions
<1>2. CASE Win
  <2>1. Settle("win", pos.shares + pos.cash_left, 0) /\ Counted("win")
    BY <1>2 DEF Win, Counted
  <2>. QED
    BY <1>1, <1>2, <2>1 DEF Win, Outcomes
<1>3. CASE Loss
  <2>1. Settle("loss", pos.cash_left, 0) /\ Counted("loss")
    BY <1>3 DEF Loss, Counted
  <2>. QED
    BY <1>1, <1>3, <2>1 DEF Loss, Outcomes
<1>4. CASE PanicExit
  <2>1. PICK sold \in 0 .. pos.shares - 1, fees \in ExitFees :
          Settle("panic", Greater(sold - fees, 0) + pos.cash_left, fees)
    BY <1>4 DEF PanicExit
  <2>2. sold \in Int
    BY <1>1, <2>1
  <2>3. fees \in Nat /\ Greater(sold - fees, 0) + pos.cash_left \in Nat
    BY <1>1, <2>1, <2>2, SaleType
  <2>4. Counted("panic")
    BY <1>4 DEF PanicExit, Counted
  <2>. QED
    BY <1>4, <2>1, <2>3, <2>4 DEF PanicExit, Outcomes
<1>5. CASE SecureExit
  <2>1. PICK sold \in Percent(SecurePct, pos.shares) .. pos.shares - 1,
             fees \in ExitFees :
          Settle("secure", Greater(sold - fees, 0) + pos.cash_left, fees)
    BY <1>5 DEF SecureExit
  <2>2. sold \in Int
    <3>1. Percent(SecurePct, pos.shares) \in Nat
      BY <1>1, SettlementAssumption, PercentPart
    <3>. QED
      BY <1>1, <2>1, <3>1
  <2>3. fees \in Nat /\ Greater(sold - fees, 0) + pos.cash_left \in Nat
    BY <1>1, <2>1, <2>2, SaleType
  <2>4. Counted("secure")
    BY <1>5 DEF SecureExit, Counted
  <2>. QED
    BY <1>5, <2>1, <2>3, <2>4 DEF SecureExit, Outcomes
<1>. QED
  BY <1>2, <1>3, <1>4, <1>5 DEF Closing

(* Each of the four closings settles well.                                  *)
LEMMA ClosingFacts ==
    ASSUME IInv, Closing
    PROVE  /\ SettledWell
           /\ wins' \in Nat /\ losses' \in Nat /\ panic_exits' \in Nat
<1>1. TypeOK /\ Conservation /\ phase = "in_position"
  BY ClosingSettles DEF IInv
<1>2. PICK outcome \in Outcomes, proceeds \in Nat, fees \in Nat :
         Settle(outcome, proceeds, fees) /\ Counted(outcome)
  BY ClosingSettles
<1>3. SettledWell
  BY <1>1, <1>2, SettleFacts
<1>. QED
  BY <1>1, <1>2, <1>3 DEF Counted, TypeOK

(* Every step of the accounting keeps the invariant.                        *)
LEMMA IInvStep ==
    ASSUME IInv, [Next]_vars
    PROVE  IInv'
<1>1. TypeOK /\ Conservation
  BY DEF IInv
<1>2. CASE Enter
  <2>1. PICK f \in BuyFills : pos' = Opened(f)
    BY <1>2 DEF Enter
  <2>2. pos' \in Positions /\ pos'.cost = stack
    BY <1>1, <2>1, OpenedType
  <2>3. TypeOK'
    BY <1>1, <1>2, <2>2 DEF Enter, TypeOK, state, history
  <2>4. Conservation'
    BY <1>1, <1>2, <2>2 DEF Enter, Conservation, state, history
  <2>. QED
    BY <2>3, <2>4 DEF IInv
<1>3. CASE Closing
  <2>1. /\ SettledWell
        /\ wins' \in Nat /\ losses' \in Nat /\ panic_exits' \in Nat
    BY <1>3, ClosingFacts
  <2>. QED
    BY <2>1 DEF SettledWell, SettledTypes, TypeOK, IInv
<1>4. CASE ReconcileHalt
  BY <1>1, <1>4 DEF ReconcileHalt, IInv, TypeOK, Conservation, history
<1>5. CASE Resume
  BY <1>1, <1>5 DEF Resume, IInv, TypeOK, Conservation
<1>6. CASE PollWallet
  BY <1>1, <1>6, SettlementAssumption
     DEF PollWallet, IInv, TypeOK, Conservation, state, history
<1>7. CASE Reboot
  <2>1. /\ stack' \in Nat /\ trimmed' \in Nat
        /\ stack' + trimmed' = stack + trimmed
    <3>1. CASE Live
      <4>1. PICK c \in WalletReads : /\ stack' \in {stack, Lesser(stack, c)}
                                     /\ trimmed' = trimmed + stack - stack'
        BY <1>7, <3>1 DEF Reboot
      <4>2. c \in Nat /\ stack \in Nat /\ trimmed \in Nat
        BY <1>1, <4>1, SettlementAssumption DEF TypeOK
      <4>3. stack' \in Nat /\ stack' <= stack
        BY <4>1, <4>2 DEF Lesser
      <4>4. \A s, u, s1 \in Nat : s1 <= s =>
              u + s - s1 \in Nat /\ s1 + (u + s - s1) = s + u
        OBVIOUS
      <4>. QED
        BY <4>1, <4>2, <4>3, <4>4
    <3>2. CASE ~Live
      BY <1>1, <1>7, <3>2 DEF Reboot, TypeOK
    <3>. QED
      BY <3>1, <3>2
  <2>2. /\ phase = "scanning" /\ phase' = phase
        /\ wallet_live' = 0 /\ wallet_evals' = <<>>
        /\ streak' = streak /\ run_id' = run_id
        /\ best_streak' = best_streak /\ best_stack' = best_stack
        /\ windows_played' = windows_played /\ wins' = wins /\ losses' = losses
        /\ panic_exits' = panic_exits /\ realized_pnl' = realized_pnl
        /\ halted' = halted /\ banked' = banked /\ reset_ts' = reset_ts
        /\ pos' = pos /\ ledger' = ledger /\ clock' = clock
        /\ injected' = injected /\ rearmed' = rearmed
    BY <1>7 DEF Reboot
  <2>3. TypeOK'
    BY <1>1, <2>1, <2>2 DEF TypeOK
  <2>4. Conservation'
    <3>1. /\ stack \in Nat /\ banked \in Nat /\ trimmed \in Nat
          /\ realized_pnl \in Int /\ injected \in Int /\ GrindBase \in Nat
      BY <1>1, SettlementAssumption DEF TypeOK
    <3>2. \A s, b, u, s1, u1 \in Nat : s1 + u1 = s + u => s1 + b + u1 = s + b + u
      OBVIOUS
    <3>3. PICK s1 \in Nat, u1 \in Nat : s1 = stack' /\ u1 = trimmed'
      BY <2>1
    <3>4. s1 + u1 = stack + trimmed
      BY <2>1, <3>3
    <3>5. s1 + banked + u1 = stack + banked + trimmed
      BY <3>1, <3>2, <3>4
    <3>. QED
      BY <1>1, <2>2, <3>3, <3>5 DEF Conservation
  <2>. QED
    BY <2>3, <2>4 DEF IInv
<1>8. CASE UNCHANGED vars
  BY <1>1, <1>8 DEF IInv, TypeOK, Conservation, vars, state, history
<1>. QED
  BY <1>2, <1>3, <1>4, <1>5, <1>6, <1>7, <1>8 DEF Next, Closing

(* The invariant holds in a fresh state ...                                 *)
LEMMA IInvInit == Init => IInv
<1>. SUFFICES ASSUME Init PROVE IInv
  OBVIOUS
<1>1. NoPos \in Positions
  BY DEF NoPos, Positions
<1>2. /\ wallet_evals \in Seq(Nat) /\ Len(wallet_evals) <= 3
      /\ ledger \in Seq(Rows)
  BY DEF Init
<1>3. TypeOK
  <2>1. halted \in BOOLEAN /\ rearmed \in BOOLEAN /\ pos \in Positions
        /\ reset_ts \subseteq Nat /\ phase \in {"scanning", "in_position"}
    BY <1>1 DEF Init
  <2>2. /\ stack \in Nat /\ best_stack \in Nat
        /\ streak \in Nat /\ best_streak \in Nat
        /\ run_id \in Nat /\ windows_played \in Nat
        /\ wins \in Nat /\ losses \in Nat /\ panic_exits \in Nat
        /\ realized_pnl \in Int /\ banked \in Nat /\ wallet_live \in Nat
        /\ clock \in Nat /\ injected \in Int /\ trimmed \in Nat
    BY SettlementAssumption DEF Init
  <2>. QED
    BY <1>2, <2>1, <2>2 DEF TypeOK
<1>4. Conservation
  BY SettlementAssumption DEF Init, Conservation
<1>. QED
  BY <1>3, <1>4 DEF IInv

(* ... and in every reachable one: the accounting is right however the      *)
(* windows end.                                                             *)
THEOREM Invariance == Spec => []IInv
<1>1. Init => IInv
  BY IInvInit
<1>2. IInv /\ [Next]_vars => IInv'
  BY IInvStep
<1>. QED
  BY <1>1, <1>2, PTL DEF Spec

-----------------------------------------------------------------------------
(* The state of the accounting is always well typed: no skim, no cap, no    *)
(* fee of settle() ever drives the stack or the reserve below zero.         *)
THEOREM TypeCorrect == Spec => []TypeOK
<1>1. IInv => TypeOK
  BY DEF IInv
<1>. QED
  BY <1>1, Invariance, PTL

(* Money is conserved over any sequence of windows, wipes, halts and boots, *)
(* whatever the fills, the fees, the ceilings and the wallet.               *)
THEOREM MoneyConserved == Spec => []Conservation
<1>1. IInv => Conservation
  BY DEF IInv
<1>. QED
  BY <1>1, Invariance, PTL

(* In paper trading the stack left by any settlement is within its Kelly    *)
(* share of the virtual wallet, for every fraction and every wallet.        *)
THEOREM PaperKellyCapHolds == Spec => []PaperKellyCap
<1>1. Init => PaperKellyCap
  BY DEF Init, PaperKellyCap
<1>2. IInv /\ PaperKellyCap /\ [Next]_vars => PaperKellyCap'
  <2>. SUFFICES ASSUME IInv, PaperKellyCap, [Next]_vars
                PROVE  PaperKellyCap'
    OBVIOUS
  <2>1. CASE Closing
    BY <2>1, ClosingFacts DEF SettledWell, PaperKellyCap
  <2>2. CASE ~Closing
    <3>1. CASE Live
      BY <3>1 DEF PaperKellyCap
    <3>2. CASE ~Live
      <4>1. /\ stack' = stack /\ realized_pnl' = realized_pnl
            /\ windows_played' = windows_played
        BY <2>2, <3>2
           DEF Next, Closing, Enter, ReconcileHalt, Resume, PollWallet, Reboot,
               vars, state, history
      <4>. QED
        BY <4>1 DEF PaperKellyCap
    <3>. QED
      BY <3>1, <3>2
  <2>. QED
    BY <2>1, <2>2
<1>. QED
  BY <1>1, <1>2, Invariance, PTL DEF Spec

(* No step takes from the reserve: what the skim and the Kelly cap have set *)
(* aside survives every wipe, halt and boot.                                *)
THEOREM ReserveIsSafe == Spec => BankedNeverShrinks
<1>1. IInv /\ [Next]_vars => [banked' >= banked]_banked
  <2>. SUFFICES ASSUME IInv, [Next]_vars, banked' # banked
                PROVE  banked' >= banked
    OBVIOUS
  <2>1. CASE Closing
    BY <2>1, ClosingFacts DEF SettledWell
  <2>2. CASE ~Closing
    <3>1. banked' = banked
      BY <2>2
         DEF Next, Closing, Enter, ReconcileHalt, Resume, PollWallet, Reboot,
             vars, state, history
    <3>. QED
      BY <3>1
  <2>. QED
    BY <2>1, <2>2
<1>. QED
  BY <1>1, Invariance, PTL DEF Spec, BankedNeverShrinks

-----------------------------------------------------------------------------
(* The settlements as the ledger books them: row is the one appended, and   *)
(* what the state keeps besides is computed from it.                        *)
BookedAs(row) ==
    /\ ledger' = Append(ledger, row)
    /\ clock < row.ts /\ clock' = row.ts
    /\ row.cost = stack /\ row.stack_after = stack' /\ row.streak_after = streak'
    /\ windows_played' = windows_played + 1
    /\ streak' = Streak(row.outcome)
    /\ best_streak' = Greater(best_streak, Streak(row.outcome))
    /\ run_id' = IF Wiped(row.outcome, row.proceeds) THEN run_id + 1 ELSE run_id
    /\ reset_ts' = Resets(row.ts, row.outcome, row.proceeds)
    /\ halted' = (halted \/ Halting(row.ts, row.outcome, row.proceeds))
    /\ rearmed' = (rearmed /\ ~Wiped(row.outcome, row.proceeds))

(* A settlement books one row of the ledger.                                *)
LEMMA SettleOnBooks ==
    ASSUME TypeOK, Conservation, phase = "in_position",
           NEW outcome \in Outcomes, NEW proceeds \in Nat, NEW fees \in Nat,
           NEW t \in Nat, clock < t, NEW wallet \in Int,
           SettleOn(outcome, proceeds, fees, t, wallet)
    PROVE  \E row \in Rows : row.outcome = outcome /\ BookedAs(row)
<1>. DEFINE row == Row(outcome, proceeds, fees, t)
<1>1. SettledTypes
  BY SettleOnFacts
<1>2. pos.cost = stack /\ pos \in Positions
  BY DEF Conservation, TypeOK
<1>3. row \in Rows
  <2>1. /\ pos.cost \in Nat /\ pos.fees \in Nat /\ pos.notional \in Nat
        /\ pos.fees + fees \in Nat /\ proceeds - pos.cost \in Int
    BY <1>2 DEF Positions
  <2>2. stack' \in Nat /\ streak' \in Nat /\ run_id' \in Nat
    BY <1>1 DEF SettledTypes
  <2>. QED
    BY <2>1, <2>2 DEF Row, Rows
<1>4. /\ row.outcome = outcome /\ row.proceeds = proceeds /\ row.ts = t
      /\ row.cost = stack /\ row.stack_after = stack' /\ row.streak_after = streak'
  BY <1>2 DEF Row
<1>5. /\ ledger' = Append(ledger, row)
      /\ clock' = t
      /\ windows_played' = windows_played + 1
      /\ streak' = Streak(outcome)
      /\ best_streak' = Greater(best_streak, Streak(outcome))
      /\ run_id' = IF Wiped(outcome, proceeds) THEN run_id + 1 ELSE run_id
      /\ reset_ts' = Resets(t, outcome, proceeds)
      /\ halted' = (halted \/ Halting(t, outcome, proceeds))
      /\ rearmed' = (rearmed /\ ~Wiped(outcome, proceeds))
  BY DEF SettleOn
<1>. HIDE DEF row
<1>6. BookedAs(row)
  BY <1>4, <1>5 DEF BookedAs
<1>. QED
  BY <1>3, <1>4, <1>6

(* So does every way of closing a position, on either kind of wallet.       *)
LEMMA SettleBooks ==
    ASSUME TypeOK, Conservation, phase = "in_position",
           NEW outcome \in Outcomes, NEW proceeds \in Nat, NEW fees \in Nat,
           Settle(outcome, proceeds, fees)
    PROVE  \E row \in Rows : row.outcome = outcome /\ BookedAs(row)
<1>1. PICK t \in clock + 1 .. clock + MaxGap :
         SettlePaper(outcome, proceeds, fees, t) \/ SettleLive(outcome, proceeds, fees, t)
  BY DEF Settle
<1>2. t \in Nat /\ clock < t
  BY <1>1, SettlementAssumption DEF TypeOK
<1>3. \E wallet \in Int : SettleOn(outcome, proceeds, fees, t, wallet)
  <2>1. CASE SettlePaper(outcome, proceeds, fees, t)
    <3>1. PaperWallet(realized_pnl + proceeds - pos.cost) \in Int
      BY SettlementAssumption DEF TypeOK, Positions, PaperWallet
    <3>. QED
      BY <2>1, <3>1 DEF SettlePaper
  <2>2. CASE SettleLive(outcome, proceeds, fees, t)
    <3>1. PICK c \in WalletReads :
            IF CapPct > 0 /\ c > 0
            THEN /\ wallet_evals' = Pushed(wallet_evals, c + proceeds)
                 /\ SettleOn(outcome, proceeds, fees, t, LargestWallet(wallet_evals'))
            ELSE /\ SettleOn(outcome, proceeds, fees, t, 0)
                 /\ UNCHANGED wallet_evals
      BY <2>2 DEF SettleLive
    <3>2. CASE CapPct > 0 /\ c > 0
      <4>1. wallet_evals' \in Seq(Nat)
        BY SettleFacts DEF SettledWell
      <4>2. LargestWallet(wallet_evals') \in Int
        BY <4>1 DEF LargestWallet, Greater, TypeOK
      <4>. QED
        BY <3>1, <3>2, <4>2
    <3>3. CASE ~(CapPct > 0 /\ c > 0)
      BY <3>1, <3>3
    <3>. QED
      BY <3>2, <3>3
  <2>. QED
    BY <1>1, <2>1, <2>2
<1>. QED
  BY <1>2, <1>3, SettleOnBooks

(* A window that closes books a row and counts it.                          *)
LEMMA ClosingBooks ==
    ASSUME IInv, Closing
    PROVE  \E row \in Rows : BookedAs(row) /\ Counted(row.outcome)
<1>1. TypeOK /\ Conservation /\ phase = "in_position"
  BY ClosingSettles DEF IInv
<1>2. PICK outcome \in Outcomes, proceeds \in Nat, fees \in Nat :
         Settle(outcome, proceeds, fees) /\ Counted(outcome)
  BY ClosingSettles
<1>3. \E row \in Rows : row.outcome = outcome /\ BookedAs(row)
  BY <1>1, <1>2, SettleBooks
<1>. QED
  BY <1>2, <1>3

-----------------------------------------------------------------------------
(* One more element, past the others, is one more.                          *)
LEMMA OneMore ==
    ASSUME NEW n \in Nat, NEW A \in SUBSET (1 .. n)
    PROVE  /\ IsFiniteSet(A) /\ Cardinality(A) \in Nat
           /\ Cardinality(A \cup {n + 1}) = Cardinality(A) + 1
<1>1. IsFiniteSet(A)
  BY FS_Interval, FS_Subset, 1 \in Int, n \in Int
<1>2. n + 1 \notin A
  OBVIOUS
<1>. QED
  BY <1>1, <1>2, FS_CardinalityType, FS_AddElement

(* What the appended row changes of the ledger.                             *)
LEMMA Appended ==
    ASSUME TypeOK, NEW row \in Rows, ledger' = Append(ledger, row)
    PROVE  /\ Len(ledger) \in Nat /\ DOMAIN ledger = 1 .. Len(ledger)
           /\ Len(ledger') = Len(ledger) + 1
           /\ DOMAIN ledger' = 1 .. Len(ledger) + 1
           /\ \A i \in 1 .. Len(ledger) : ledger'[i] = ledger[i] /\ ledger[i] \in Rows
           /\ ledger'[Len(ledger) + 1] = row
BY DEF TypeOK

(* The rows of one outcome, one more if the new row has it.                 *)
LEMMA BookedStep ==
    ASSUME TypeOK, NEW row \in Rows, ledger' = Append(ledger, row), NEW o
    PROVE  /\ Booked(o)' = IF row.outcome = o THEN Booked(o) \cup {Len(ledger) + 1}
                           ELSE Booked(o)
           /\ Cardinality(Booked(o)') = IF row.outcome = o
                                        THEN Cardinality(Booked(o)) + 1
                                        ELSE Cardinality(Booked(o))
<1>1. Booked(o) \in SUBSET (1 .. Len(ledger)) /\ Len(ledger) \in Nat
  BY Appended DEF Booked
<1>2. CASE row.outcome = o
  <2>1. Booked(o)' = Booked(o) \cup {Len(ledger) + 1}
    BY <1>2, Appended DEF Booked
  <2>. QED
    BY <1>1, <1>2, <2>1, OneMore
<1>3. CASE row.outcome # o
  <2>1. Booked(o)' = Booked(o)
    BY <1>3, Appended DEF Booked
  <2>. QED
    BY <1>3, <2>1
<1>. QED
  BY <1>2, <1>3

(* The wipes, one more if the new row is one.                               *)
LEMMA WipesStep ==
    ASSUME TypeOK, NEW row \in Rows, ledger' = Append(ledger, row)
    PROVE  /\ Wipes \in SUBSET (1 .. Len(ledger))
           /\ Wipes' = IF Wiped(row.outcome, row.proceeds)
                       THEN Wipes \cup {Len(ledger) + 1} ELSE Wipes
           /\ Cardinality(Wipes') = IF Wiped(row.outcome, row.proceeds)
                                    THEN Cardinality(Wipes) + 1
                                    ELSE Cardinality(Wipes)
<1>1. Wipes \in SUBSET (1 .. Len(ledger)) /\ Len(ledger) \in Nat
  BY Appended DEF Wipes
<1>2. Wiped(row.outcome, row.proceeds)
        <=> row.outcome \in {"loss", "panic"} /\ row.proceeds < GrindBase
  BY DEF Wiped, Rows, Outcomes
<1>3. CASE Wiped(row.outcome, row.proceeds)
  <2>1. Wipes' = Wipes \cup {Len(ledger) + 1}
    BY <1>2, <1>3, Appended DEF Wipes
  <2>. QED
    BY <1>1, <1>3, <2>1, OneMore
<1>4. CASE ~Wiped(row.outcome, row.proceeds)
  <2>1. Wipes' = Wipes
    BY <1>2, <1>4, Appended DEF Wipes
  <2>. QED
    BY <1>1, <1>4, <2>1
<1>. QED
  BY <1>3, <1>4

(* The unbroken wins: one more at a win, as many at a secured exit, none    *)
(* after anything else.                                                     *)
LEMMA UnbrokenStep ==
    ASSUME TypeOK, NEW row \in Rows, ledger' = Append(ledger, row),
           streak = Cardinality(Unbroken)
    PROVE  Streak(row.outcome) = Cardinality(Unbroken')
<1>1. Unbroken \in SUBSET (1 .. Len(ledger)) /\ Len(ledger) \in Nat
  BY Appended DEF Unbroken, Booked
<1>2. \A i \in 1 .. Len(ledger) + 1 :
         i \in Unbroken' <=>
            /\ ledger'[i].outcome = "win"
            /\ row.outcome \in {"win", "secure"}
            /\ \A j \in i .. Len(ledger) : ledger[j].outcome \in {"win", "secure"}
  BY Appended DEF Unbroken, Booked
<1>3. \A i \in 1 .. Len(ledger) :
         i \in Unbroken' <=> i \in Unbroken /\ row.outcome \in {"win", "secure"}
  BY <1>2, Appended DEF Unbroken, Booked
<1>4. \A i : i \in Unbroken' => i \in 1 .. Len(ledger) \/ i = Len(ledger) + 1
  BY <1>1, Appended DEF Unbroken, Booked
<1>5. Len(ledger) + 1 \in Unbroken' <=> row.outcome = "win"
  BY <1>1, <1>2, Appended
<1>6. CASE row.outcome = "win"
  <2>1. Unbroken' = Unbroken \cup {Len(ledger) + 1}
    BY <1>1, <1>3, <1>4, <1>5, <1>6
  <2>. QED
    BY <1>1, <1>6, <2>1, OneMore DEF Streak
<1>7. CASE row.outcome = "secure"
  <2>1. Unbroken' = Unbroken
    BY <1>1, <1>3, <1>4, <1>5, <1>7
  <2>. QED
    BY <1>7, <2>1 DEF Streak
<1>8. CASE row.outcome \notin {"win", "secure"}
  <2>1. Unbroken' = {}
    BY <1>1, <1>3, <1>4, <1>5, <1>8
  <2>. QED
    BY <1>8, <2>1, FS_EmptySet DEF Streak
<1>. QED
  BY <1>6, <1>7, <1>8

(* A new row keeps the story of the ledger and that of the state the same.  *)
LEMMA ClosingAgrees ==
    ASSUME IInv, LedgerAgrees, NEW row \in Rows, BookedAs(row), Counted(row.outcome)
    PROVE  LedgerAgrees'
<1>1. TypeOK /\ ledger' = Append(ledger, row)
  BY DEF IInv, BookedAs
<1>2. windows_played' = Len(ledger')
  BY <1>1, Appended DEF LedgerAgrees, BookedAs
<1>3. /\ wins' = Cardinality(Booked("win")')
      /\ losses' = Cardinality(Booked("loss")')
      /\ panic_exits' = Cardinality(Booked("panic")')
  BY <1>1, BookedStep DEF LedgerAgrees, Counted
<1>4. streak' = Cardinality(Unbroken')
  BY <1>1, UnbrokenStep DEF LedgerAgrees, BookedAs
<1>5. \A i \in DOMAIN ledger' : ledger'[i].streak_after <= best_streak'
  <2>1. /\ best_streak \in Nat /\ streak' \in Nat
        /\ best_streak' = Greater(best_streak, streak')
        /\ row.streak_after = streak'
    BY <1>1 DEF TypeOK, BookedAs, Streak
  <2>2. \A i \in 1 .. Len(ledger) :
           ledger[i].streak_after \in Nat /\ ledger[i].streak_after <= best_streak
    BY <1>1, Appended DEF LedgerAgrees, Rows
  <2>3. /\ best_streak' >= best_streak /\ best_streak' >= streak'
        /\ best_streak' \in Nat
    BY <2>1 DEF Greater
  <2>. QED
    BY <1>1, <2>1, <2>2, <2>3, Appended
<1>6. run_id' = 1 + Cardinality(Wipes')
  <2>1. Cardinality(Wipes) \in Nat
    BY <1>1, WipesStep, Appended, OneMore
  <2>2. run_id = 1 + Cardinality(Wipes)
    BY DEF LedgerAgrees
  <2>. QED
    BY <1>1, <2>1, <2>2, WipesStep DEF BookedAs
<1>7. \A i \in 2 .. Len(ledger') : ledger'[i].cost <= ledger'[i - 1].stack_after
  <2>1. ASSUME NEW i \in 2 .. Len(ledger)
        PROVE  ledger'[i].cost <= ledger'[i - 1].stack_after
    <3>1. i \in 1 .. Len(ledger) /\ i - 1 \in 1 .. Len(ledger)
      BY <1>1, <2>1, Appended
    <3>. QED
      BY <1>1, <3>1, <2>1, Appended DEF LedgerAgrees
  <2>2. ASSUME Len(ledger) + 1 >= 2
        PROVE  ledger'[Len(ledger) + 1].cost <= ledger'[Len(ledger)].stack_after
    <3>1. ledger # <<>> /\ Len(ledger) \in 1 .. Len(ledger)
      BY <1>1, <2>2, Appended
    <3>2. stack <= ledger[Len(ledger)].stack_after
      BY <3>1 DEF LedgerAgrees, Last
    <3>. QED
      BY <1>1, <3>1, <3>2, Appended DEF BookedAs
  <2>3. \A i \in 2 .. Len(ledger') :
           i \in 2 .. Len(ledger) \/ (i = Len(ledger) + 1 /\ Len(ledger) + 1 >= 2)
    BY <1>1, Appended
  <2>4. \A i \in 2 .. Len(ledger') : i = Len(ledger) + 1 => i - 1 = Len(ledger)
    BY <1>1, Appended
  <2>. QED
    BY <2>1, <2>2, <2>3, <2>4
<1>8. stack' <= Last(ledger').stack_after
  <2>1. Last(ledger') = row
    BY <1>1, Appended DEF Last
  <2>. QED
    BY <2>1 DEF BookedAs, Rows
<1>. QED
  BY <1>2, <1>3, <1>4, <1>5, <1>6, <1>7, <1>8 DEF LedgerAgrees

(* The steps that close nothing leave the ledger and its counters alone;    *)
(* a boot may only trim the stack.                                          *)
LEMMA OtherSteps ==
    ASSUME IInv, [Next]_vars, ~Closing
    PROVE  /\ ledger' = ledger /\ clock' = clock /\ reset_ts' = reset_ts
           /\ windows_played' = windows_played
           /\ wins' = wins /\ losses' = losses /\ panic_exits' = panic_exits
           /\ streak' = streak /\ best_streak' = best_streak /\ run_id' = run_id
           /\ stack' \in Nat /\ stack' <= stack
           /\ ~halted' /\ ~rearmed' => ~halted /\ ~rearmed
<1>1. /\ ledger' = ledger /\ clock' = clock /\ reset_ts' = reset_ts
      /\ windows_played' = windows_played
      /\ wins' = wins /\ losses' = losses /\ panic_exits' = panic_exits
      /\ streak' = streak /\ best_streak' = best_streak /\ run_id' = run_id
  BY DEF Next, Closing, Enter, ReconcileHalt, Resume, PollWallet, Reboot, vars, state, history
<1>2. stack' \in Nat /\ stack' <= stack
  <2>1. stack \in Nat
    BY DEF IInv, TypeOK
  <2>2. CASE Reboot
    <3>1. stack' = stack \/ \E c \in WalletReads : stack' = Lesser(stack, c)
      BY <2>2 DEF Reboot
    <3>. QED
      BY <2>1, <3>1, SettlementAssumption DEF Lesser
  <2>3. CASE ~Reboot
    <3>1. stack' = stack
      BY <2>3 DEF Next, Closing, Enter, ReconcileHalt, Resume, PollWallet, vars, state
    <3>. QED
      BY <2>1, <3>1
  <2>. QED
    BY <2>2, <2>3
<1>3. ~halted' /\ ~rearmed' => ~halted /\ ~rearmed
  BY DEF Next, Closing, Enter, ReconcileHalt, Resume, PollWallet, Reboot, vars, state, history
<1>. QED
  BY <1>1, <1>2, <1>3

(* The ledger and the state always tell the same story: over any sequence   *)
(* of windows, wipes, halts and boots the counters, the streak and the run  *)
(* are those the rows add up to, and no row costs more than the one before  *)
(* it left on the table.                                                    *)
THEOREM LedgerAgreesHolds == Spec => []LedgerAgrees
<1>1. Init => LedgerAgrees
  <2>. SUFFICES ASSUME Init PROVE LedgerAgrees
    OBVIOUS
  <2>1. /\ ledger = <<>> /\ Len(ledger) = 0 /\ DOMAIN ledger = {}
        /\ 2 .. Len(ledger) = {}
    BY DEF Init
  <2>2. Booked("win") = {} /\ Booked("loss") = {} /\ Booked("panic") = {}
    BY <2>1 DEF Booked
  <2>3. Unbroken = {} /\ Wipes = {}
    BY <2>1, <2>2 DEF Unbroken, Wipes
  <2>4. Cardinality({}) = 0
    BY FS_EmptySet
  <2>5. /\ windows_played = 0 /\ wins = 0 /\ losses = 0 /\ panic_exits = 0
        /\ streak = 0 /\ run_id = 1
    BY DEF Init
  <2>6. /\ \A i \in DOMAIN ledger : ledger[i].streak_after <= best_streak
        /\ \A i \in 2 .. Len(ledger) : ledger[i].cost <= ledger[i - 1].stack_after
        /\ ledger # <<>> => stack <= Last(ledger).stack_after
    BY <2>1
  <2>7. /\ Cardinality(Booked("win")) = 0 /\ Cardinality(Booked("loss")) = 0
        /\ Cardinality(Booked("panic")) = 0
        /\ Cardinality(Unbroken) = 0 /\ Cardinality(Wipes) = 0
    BY <2>2, <2>3, <2>4, Zenon
  <2>. QED
    BY <2>1, <2>5, <2>6, <2>7 DEF LedgerAgrees
<1>2. IInv /\ LedgerAgrees /\ [Next]_vars => LedgerAgrees'
  <2>. SUFFICES ASSUME IInv, LedgerAgrees, [Next]_vars
                PROVE  LedgerAgrees'
    OBVIOUS
  <2>1. CASE Closing
    BY <2>1, ClosingBooks, ClosingAgrees
  <2>2. CASE ~Closing
    <3>1. /\ ledger' = ledger /\ Wipes' = Wipes /\ Unbroken' = Unbroken
          /\ \A o : Booked(o)' = Booked(o)
      BY <2>2, OtherSteps DEF Wipes, Unbroken, Booked
    <3>2. ledger # <<>> => Last(ledger) \in Rows
      <4>1. ledger \in Seq(Rows)
        BY DEF IInv, TypeOK
      <4>. QED
        BY <4>1 DEF Last
    <3>3. ledger' # <<>> => stack' <= Last(ledger').stack_after
      <4>1. stack \in Nat /\ stack' \in Nat /\ stack' <= stack
        BY <2>2, OtherSteps DEF IInv, TypeOK
      <4>. QED
        BY <3>1, <3>2, <4>1 DEF LedgerAgrees, Rows
    <3>4. /\ windows_played' = windows_played
          /\ wins' = wins /\ losses' = losses /\ panic_exits' = panic_exits
          /\ streak' = streak /\ best_streak' = best_streak /\ run_id' = run_id
      BY <2>2, OtherSteps
    <3>. QED
      BY <3>1, <3>3, <3>4 DEF LedgerAgrees
  <2>. QED
    BY <2>1, <2>2
<1>. QED
  BY <1>1, <1>2, Invariance, PTL DEF Spec

-----------------------------------------------------------------------------
(* Why the halts hold.  The rows are in the order of their times; the times *)
(* settle() keeps in reset_ts are those of the wipes within the window of   *)
(* the last one, so what the circuit breaker counts is what the ledger      *)
(* shows; and whatever stops the bot has halted it, unless a human has      *)
(* lifted that halt since.                                                  *)
TimesGrow ==
    /\ \A i \in DOMAIN ledger : ledger[i].ts <= clock
    /\ \A i, j \in DOMAIN ledger : i < j => ledger[i].ts < ledger[j].ts

Recent == {i \in Wipes : \A l \in Wipes : ledger[l].ts - ledger[i].ts < ResetWindow}

ResetsAreWipes == reset_ts = {ledger[i].ts : i \in Recent}

Stopped == ~halted /\ ~rearmed => Untripped

HInv == TimesGrow /\ ResetsAreWipes /\ Stopped

(* A new row is later than the others.                                      *)
LEMMA TimesStep ==
    ASSUME IInv, TimesGrow, NEW row \in Rows, BookedAs(row)
    PROVE  /\ TimesGrow'
           /\ \A i \in DOMAIN ledger : ledger[i].ts \in Nat /\ ledger[i].ts < row.ts
<1>1. TypeOK /\ ledger' = Append(ledger, row)
  BY DEF IInv, BookedAs
<1>2. /\ clock \in Nat /\ row.ts \in Nat /\ clock < row.ts /\ clock' = row.ts
  BY <1>1 DEF TypeOK, BookedAs, Rows
<1>3. ASSUME NEW i \in DOMAIN ledger
      PROVE  ledger[i].ts \in Nat /\ ledger[i].ts < row.ts
  <2>1. ledger[i] \in Rows
    BY <1>1, Appended
  <2>2. ledger[i].ts \in Nat /\ ledger[i].ts <= clock
    BY <2>1 DEF TimesGrow, Rows
  <2>. QED
    BY <1>2, <2>2
<1>4. \A i \in DOMAIN ledger' : ledger'[i].ts <= clock'
  BY <1>1, <1>2, <1>3, Appended
<1>5. ASSUME NEW i \in DOMAIN ledger', NEW j \in DOMAIN ledger', i < j
      PROVE  ledger'[i].ts < ledger'[j].ts
  <2>1. i \in DOMAIN ledger
    BY <1>1, <1>5, Appended
  <2>2. CASE j \in DOMAIN ledger
    BY <1>1, <1>5, <2>1, <2>2, Appended DEF TimesGrow
  <2>3. CASE j \notin DOMAIN ledger
    <3>1. j = Len(ledger) + 1
      BY <1>1, <2>3, Appended
    <3>. QED
      BY <1>1, <1>3, <2>1, <3>1, Appended
  <2>. QED
    BY <2>2, <2>3
<1>. QED
  BY <1>3, <1>4, <1>5 DEF TimesGrow

(* Rows of different times are as many as their times.                      *)
LEMMA AsManyTimes ==
    ASSUME NEW n \in Nat, NEW A \in SUBSET (1 .. n), NEW time,
           \A i \in A : time[i] \in Nat,
           \A i, j \in A : i < j => time[i] < time[j]
    PROVE  Cardinality({time[i] : i \in A}) = Cardinality(A)
<1>. DEFINE T == {time[i] : i \in A}
            f == [i \in A |-> time[i]]
<1>1. IsFiniteSet(A)
  BY OneMore
<1>2. f \in Surjection(A, T)
  BY DEF Surjection
<1>3. f \in Injection(A, T)
  <2>1. ASSUME NEW i \in A, NEW j \in A, time[i] = time[j]
        PROVE  i = j
    <3>1. i \in Int /\ j \in Int
      OBVIOUS
    <3>2. ~(i < j) /\ ~(j < i)
      BY <2>1
    <3>. QED
      BY <3>1, <3>2
  <2>. QED
    BY <2>1 DEF Injection, IsInjective
<1>. HIDE DEF f
<1>. QED
  BY <1>1, <1>2, <1>3, FS_Surjection

(* After a wipe, the recent wipes are those within its window.              *)
LEMMA RecentStep ==
    ASSUME IInv, TimesGrow, ResetsAreWipes, NEW row \in Rows, BookedAs(row),
           Wiped(row.outcome, row.proceeds)
    PROVE  /\ Recent' = {i \in Wipes' : row.ts - ledger'[i].ts < ResetWindow}
           /\ reset_ts' = {ledger'[i].ts : i \in Recent'}
           /\ Cardinality(reset_ts') = Cardinality(Recent')
<1>1. TypeOK /\ ledger' = Append(ledger, row)
  BY DEF IInv, BookedAs
<1>2. /\ row.ts \in Nat /\ ResetWindow \in Nat
      /\ \A i \in Wipes : /\ i \in DOMAIN ledger /\ ledger'[i] = ledger[i]
                          /\ ledger[i].ts \in Nat /\ ledger[i].ts < row.ts
      /\ ledger'[Len(ledger) + 1] = row
  BY <1>1, Appended, TimesStep, SettlementAssumption DEF Rows, Wipes
<1>3. Wipes' = Wipes \cup {Len(ledger) + 1}
  BY <1>1, WipesStep
<1>4. \A l \in Wipes' : ledger'[l].ts \in Nat /\ ledger'[l].ts <= row.ts
  BY <1>2, <1>3
<1>5. Recent' = {i \in Wipes' : row.ts - ledger'[i].ts < ResetWindow}
  <2>1. ASSUME NEW i \in Wipes', i \in Recent'
        PROVE  row.ts - ledger'[i].ts < ResetWindow
    BY <1>2, <1>3, <2>1 DEF Recent
  <2>2. ASSUME NEW i \in Wipes', row.ts - ledger'[i].ts < ResetWindow
        PROVE  i \in Recent'
    <3>1. ASSUME NEW l \in Wipes'
          PROVE  ledger'[l].ts - ledger'[i].ts < ResetWindow
      BY <1>2, <1>4, <2>2
    <3>. QED
      BY <3>1 DEF Recent
  <2>3. \A i \in Recent' : i \in Wipes'
    BY DEF Recent
  <2>. QED
    BY <2>1, <2>2, <2>3
<1>6. reset_ts' = {r \in reset_ts \cup {row.ts} : row.ts - r < ResetWindow}
  BY DEF BookedAs, Resets
<1>7. reset_ts' = {ledger'[i].ts : i \in Recent'}
  <2>1. ASSUME NEW r \in reset_ts'
        PROVE  \E i \in Recent' : r = ledger'[i].ts
    <3>1. CASE r = row.ts
      BY <1>2, <1>3, <1>5, <1>6, <2>1, <3>1
    <3>2. CASE r \in reset_ts
      <4>1. PICK i \in Recent : r = ledger[i].ts
        BY <3>2 DEF ResetsAreWipes
      <4>2. i \in Wipes
        BY <4>1 DEF Recent
      <4>. QED
        BY <1>2, <1>3, <1>5, <1>6, <2>1, <4>1, <4>2
    <3>. QED
      BY <1>6, <2>1, <3>1, <3>2
  <2>2. ASSUME NEW i \in Recent'
        PROVE  ledger'[i].ts \in reset_ts'
    <3>1. i \in Wipes' /\ row.ts - ledger'[i].ts < ResetWindow
      BY <1>5, <2>2
    <3>2. CASE i = Len(ledger) + 1
      BY <1>2, <1>6, <3>1, <3>2
    <3>3. CASE i \in Wipes
      <4>1. ASSUME NEW l \in Wipes
            PROVE  ledger[l].ts - ledger[i].ts < ResetWindow
        BY <1>2, <3>1, <3>3
      <4>2. ledger[i].ts \in reset_ts
        BY <3>3, <4>1 DEF ResetsAreWipes, Recent
      <4>. QED
        BY <1>2, <1>6, <3>1, <3>3, <4>2
    <3>. QED
      BY <1>3, <3>1, <3>2, <3>3
  <2>. QED
    BY <2>1, <2>2
<1>8. Cardinality(reset_ts') = Cardinality(Recent')
  <2>. DEFINE time == [i \in DOMAIN ledger' |-> ledger'[i].ts]
  <2>1. Recent' \in SUBSET (1 .. Len(ledger) + 1) /\ Len(ledger) + 1 \in Nat
    BY <1>1, Appended DEF Recent, Wipes
  <2>2. Recent' \subseteq DOMAIN ledger' /\ Recent' \subseteq Wipes'
    BY DEF Recent, Wipes
  <2>3. TimesGrow'
    BY TimesStep
  <2>4. /\ \A i \in Recent' : time[i] = ledger'[i].ts /\ time[i] \in Nat
        /\ \A i, j \in Recent' : i < j => time[i] < time[j]
    BY <1>4, <2>2, <2>3 DEF TimesGrow
  <2>5. reset_ts' = {time[i] : i \in Recent'}
    BY <1>7, <2>4
  <2>. HIDE DEF time
  <2>6. Cardinality({time[i] : i \in Recent'}) = Cardinality(Recent')
    BY <2>1, <2>4, AsManyTimes
  <2>. QED
    BY <2>5, <2>6, Zenon
<1>. QED
  BY <1>5, <1>7, <1>8

(* A settlement that does not halt has not tripped anything.                *)
LEMMA ClosingStops ==
    ASSUME IInv, HInv, NEW row \in Rows, BookedAs(row)
    PROVE  HInv'
<1>1. TypeOK /\ ledger' = Append(ledger, row) /\ TimesGrow /\ ResetsAreWipes /\ Stopped
  BY DEF IInv, HInv, BookedAs
<1>2. TimesGrow'
  BY <1>1, TimesStep
<1>3. CASE Wiped(row.outcome, row.proceeds)
  <2>1. ResetsAreWipes'
    BY <1>1, <1>3, RecentStep DEF ResetsAreWipes
  <2>2. ASSUME ~halted'
        PROVE  Untripped'
    <3>1. ~Halting(row.ts, row.outcome, row.proceeds)
      BY <2>2 DEF BookedAs
    <3>2. HaltOnWipe => row.outcome # "loss" /\ row.proceeds >= Dollar
      BY <1>3, <3>1, SettlementAssumption DEF Halting, TotalLoss, Rows
    <3>3. Live /\ MaxResets > 0 => Cardinality(Recent') < MaxResets
      <4>1. reset_ts' = Resets(row.ts, row.outcome, row.proceeds)
        BY DEF BookedAs
      <4>2. Cardinality(reset_ts') = Cardinality(Recent')
        BY <1>1, <1>3, RecentStep
      <4>3. Cardinality(Recent') \in Nat
        <5>1. Recent' \in SUBSET (1 .. Len(ledger) + 1) /\ Len(ledger) + 1 \in Nat
          BY <1>1, Appended DEF Recent, Wipes
        <5>. QED
          BY <5>1, OneMore
      <4>4. Live /\ MaxResets > 0
              => ~(Cardinality(Resets(row.ts, row.outcome, row.proceeds)) >= MaxResets)
        BY <1>3, <3>1 DEF Halting
      <4>. QED
        BY <4>1, <4>2, <4>3, <4>4, SettlementAssumption
    <3>4. ASSUME NEW last \in Wipes', \A i \in Wipes' : i <= last
          PROVE  last = Len(ledger) + 1
      BY <1>1, <1>3, <3>4, WipesStep, Appended
    <3>5. ledger'[Len(ledger) + 1] = row
      BY <1>1, Appended
    <3>6. Recent' = {i \in Wipes' : row.ts - ledger'[i].ts < ResetWindow}
      BY <1>1, <1>3, RecentStep
    <3>. QED
      BY <3>2, <3>3, <3>4, <3>5, <3>6 DEF Untripped
  <2>. QED
    BY <1>2, <2>1, <2>2 DEF HInv, Stopped
<1>4. CASE ~Wiped(row.outcome, row.proceeds)
  <2>1. /\ Wipes' = Wipes /\ reset_ts' = reset_ts
        /\ \A i \in Wipes : ledger'[i] = ledger[i]
    BY <1>1, <1>4, WipesStep, Appended DEF BookedAs, Resets
  <2>2. Recent' = Recent
    BY <2>1 DEF Recent
  <2>3. ResetsAreWipes'
    BY <1>1, <2>1, <2>2 DEF ResetsAreWipes, Recent
  <2>4. ~halted' /\ ~rearmed' => ~halted /\ ~rearmed
    BY <1>4 DEF BookedAs
  <2>5. Untripped => Untripped'
    BY <2>1 DEF Untripped
  <2>. QED
    BY <1>1, <1>2, <2>3, <2>4, <2>5 DEF HInv, Stopped
<1>. QED
  BY <1>3, <1>4

(* The halts hold: after a total loss (HALT_ON_WIPE) or a wipe that makes   *)
(* MaxResets of them within ResetWindow seconds (live), no window is        *)
(* entered before a human lifts the halt, boots in between or not.          *)
THEOREM HaltsHoldAlways == Spec => HaltsHold
<1>1. Init => HInv
  <2>. SUFFICES ASSUME Init PROVE HInv
    OBVIOUS
  <2>1. DOMAIN ledger = {} /\ reset_ts = {}
    BY DEF Init
  <2>2. Wipes = {}
    BY <2>1 DEF Wipes
  <2>. QED
    BY <2>1, <2>2 DEF HInv, TimesGrow, ResetsAreWipes, Recent, Stopped, Untripped
<1>2. IInv /\ HInv /\ [Next]_vars => HInv'
  <2>. SUFFICES ASSUME IInv, HInv, [Next]_vars
                PROVE  HInv'
    OBVIOUS
  <2>1. CASE Closing
    BY <2>1, ClosingBooks, ClosingStops
  <2>2. CASE ~Closing
    <3>1. /\ ledger' = ledger /\ clock' = clock /\ reset_ts' = reset_ts
          /\ ~halted' /\ ~rearmed' => ~halted /\ ~rearmed
      BY <2>2, OtherSteps
    <3>. QED
      BY <3>1 DEF HInv, TimesGrow, ResetsAreWipes, Recent, Stopped, Untripped, Wipes
  <2>. QED
    BY <2>1, <2>2
<1>3. IInv /\ HInv /\ [Next]_vars => [Entered /\ ~rearmed => Untripped]_vars
  <2>. SUFFICES ASSUME IInv, HInv, Next, Entered, ~rearmed
                PROVE  Untripped
    BY DEF Entered, vars
  <2>1. Enter
    BY ClosingSettles DEF Next, Closing, Entered, ReconcileHalt, Resume, PollWallet, Reboot
  <2>. QED
    BY <2>1 DEF Enter, HInv, Stopped
<1>. QED
  BY <1>1, <1>2, <1>3, Invariance, PTL DEF Spec, HaltsHold

-----------------------------------------------------------------------------
(* LargestWallet() is the greatest of the poller's value and the            *)
(* evaluations, and one of them unless there is none.                       *)
LEMMA LargestIsGreatest ==
    ASSUME wallet_live \in Nat, NEW evals \in Seq(Nat), Len(evals) <= 3
    PROVE  LET seen == {wallet_live} \cup {evals[i] : i \in DOMAIN evals}
           IN  /\ LargestWallet(evals) \in Nat
               /\ \A w \in seen : w \in Nat /\ w <= LargestWallet(evals)
               /\ LargestWallet(evals) > 0 => LargestWallet(evals) \in seen
<1>. DEFINE eval(i) == IF i <= Len(evals) THEN evals[i] ELSE 0
            largest == Greater(wallet_live, Greater(eval(1), Greater(eval(2), eval(3))))
<1>1. /\ Len(evals) \in Nat /\ DOMAIN evals = 1 .. Len(evals)
      /\ \A i \in DOMAIN evals : evals[i] \in Nat
  OBVIOUS
<1>2. \A i \in 1 .. 3 :
         /\ eval(i) \in Nat
         /\ eval(i) = 0 \/ (i \in DOMAIN evals /\ eval(i) = evals[i])
  BY <1>1
<1>3. \A i \in DOMAIN evals : i \in 1 .. 3 /\ eval(i) = evals[i]
  BY <1>1
<1>4. 1 \in 1 .. 3 /\ 2 \in 1 .. 3 /\ 3 \in 1 .. 3
      /\ \A i \in 1 .. 3 : i = 1 \/ i = 2 \/ i = 3
  OBVIOUS
<1>5. LargestWallet(evals) = largest
  BY DEF LargestWallet
<1>. HIDE DEF eval
<1>6. largest \in Nat
  BY <1>2, <1>4 DEF Greater
<1>7. /\ wallet_live <= largest
      /\ eval(1) <= largest /\ eval(2) <= largest /\ eval(3) <= largest
  BY <1>2, <1>4 DEF Greater
<1>8. largest \in {wallet_live, eval(1), eval(2), eval(3)}
  BY DEF Greater
<1>. HIDE DEF largest
<1>9. largest > 0 => largest \in {wallet_live} \cup {evals[i] : i \in DOMAIN evals}
  BY <1>2, <1>4, <1>6, <1>8
<1>10. \A w \in {wallet_live} \cup {evals[i] : i \in DOMAIN evals} : w \in Nat /\ w <= largest
  BY <1>1, <1>3, <1>4, <1>7
<1>. QED
  BY <1>5, <1>6, <1>9, <1>10

(* The last evaluation pushed is there to be seen.                          *)
LEMMA PushedIsSeen ==
    ASSUME NEW evals \in Seq(Nat), NEW e \in Nat
    PROVE  \E i \in DOMAIN Pushed(evals, e) : Pushed(evals, e)[i] = e
<1>1. ASSUME NEW s \in Seq(Nat)
      PROVE  \E i \in DOMAIN Append(s, e) : Append(s, e)[i] = e
  <2>1. Len(s) + 1 \in DOMAIN Append(s, e) /\ Append(s, e)[Len(s) + 1] = e
    OBVIOUS
  <2>. QED
    BY <2>1
<1>2. CASE Len(evals) < 3
  BY <1>1, <1>2 DEF Pushed
<1>3. CASE ~(Len(evals) < 3)
  <2>1. Tail(evals) \in Seq(Nat)
    BY <1>3
  <2>. QED
    BY <1>1, <1>3, <2>1 DEF Pushed
<1>. QED
  BY <1>2, <1>3

(* A percentage of an amount that covers another is not below it.           *)
LEMMA PercentCovers ==
    ASSUME NEW p \in Nat, NEW v \in Nat, NEW w \in Nat, v <= w,
           NEW x \in Nat, 100 * x <= p * v
    PROVE  x <= Percent(p, w)
<1>1. p * v \in Nat /\ p * w \in Nat /\ p * v <= p * w
  <2>1. PICK d \in Nat : w = v + d
    <3>1. w - v \in Nat /\ w = v + (w - v)
      OBVIOUS
    <3>. QED
      BY <3>1
  <2>2. p * w = p * v + p * d /\ p * d \in Nat /\ p * v \in Nat
    BY <2>1, SMT
  <2>. QED
    BY <2>2
<1>2. \A y \in Nat : 100 * x <= y => x <= y \div 100
  BY SMT
<1>3. 100 * x <= p * w
  BY <1>1
<1>. QED
  BY <1>1, <1>2, <1>3 DEF Percent

(* A live settlement that reads a collateral leaves the stack in its share. *)
LEMMA SettleWithinShare ==
    ASSUME TypeOK, Conservation, phase = "in_position",
           NEW outcome \in Outcomes, NEW proceeds \in Nat, NEW fees \in Nat,
           Settle(outcome, proceeds, fees), wallet_evals' # wallet_evals
    PROVE  StackWithinShare
<1>1. PICK t \in clock + 1 .. clock + MaxGap :
         SettlePaper(outcome, proceeds, fees, t) \/ SettleLive(outcome, proceeds, fees, t)
  BY DEF Settle
<1>2. t \in Nat
  BY <1>1, SettlementAssumption DEF TypeOK
<1>. DEFINE largest == LargestWallet(wallet_evals')
<1>3. PICK c \in WalletReads :
         /\ CapPct > 0 /\ c > 0
         /\ wallet_evals' = Pushed(wallet_evals, c + proceeds)
         /\ SettleOn(outcome, proceeds, fees, t, largest)
  BY <1>1 DEF SettlePaper, SettleLive
<1>4. /\ c + proceeds \in Nat /\ c + proceeds > 0
      /\ wallet_evals \in Seq(Nat) /\ Len(wallet_evals) <= 3 /\ wallet_live \in Nat
  BY <1>3, SettlementAssumption DEF TypeOK
<1>5. wallet_evals' \in Seq(Nat) /\ Len(wallet_evals') <= 3
  BY <1>3, <1>4, PushedType
<1>6. /\ largest \in Nat
      /\ \A w \in WalletsSeen : w \in Nat /\ w <= largest
      /\ largest > 0 => largest \in WalletsSeen
  BY <1>4, <1>5, LargestIsGreatest DEF WalletsSeen
<1>7. largest > 0 /\ largest \in WalletsSeen
  <2>1. PICK i \in DOMAIN wallet_evals' : wallet_evals'[i] = c + proceeds
    BY <1>3, <1>4, PushedIsSeen
  <2>2. c + proceeds \in WalletsSeen
    BY <2>1 DEF WalletsSeen
  <2>. QED
    BY <1>4, <1>6, <2>2
<1>. HIDE DEF largest
<1>8. 100 * stack' <= CapPct * largest
  BY <1>2, <1>3, <1>6, <1>7, SettleOnFacts
<1>9. /\ ledger'[Len(ledger')].outcome = outcome
      /\ ledger'[Len(ledger')].proceeds = proceeds
  <2>1. /\ ledger' = Append(ledger, Row(outcome, proceeds, fees, t))
        /\ ledger \in Seq(Rows)
    BY <1>3 DEF SettleOn, TypeOK
  <2>2. Row(outcome, proceeds, fees, t) \in Rows
    <3>1. SettledTypes
      BY <1>2, <1>3, <1>6, SettleOnFacts
    <3>2. /\ pos.cost \in Nat /\ pos.fees + fees \in Nat /\ pos.notional \in Nat
          /\ proceeds - pos.cost \in Int
      BY DEF TypeOK, Positions
    <3>3. stack' \in Nat /\ streak' \in Nat /\ run_id' \in Nat
      BY <3>1 DEF SettledTypes
    <3>. QED
      BY <1>2, <3>2, <3>3 DEF Row, Rows
  <2>3. ledger'[Len(ledger')] = Row(outcome, proceeds, fees, t)
    BY <2>1, <2>2
  <2>. QED
    BY <2>3 DEF Row
<1>10. ASSUME outcome # "win", ~Wiped(outcome, proceeds),
              NEW w \in WalletsSeen, 100 * proceeds <= CapPct * w
       PROVE  stack' = proceeds
  <2>1. Compounded(outcome, proceeds) = proceeds
    BY <1>10 DEF Compounded
  <2>2. Skim(outcome, proceeds - pos.cost) = 0
    BY <1>10 DEF Skim
  <2>3. proceeds <= Percent(CapPct, largest) /\ Percent(CapPct, largest) \in Nat
    BY <1>6, <1>10, PercentCovers, PercentFloor, SettlementAssumption
  <2>4. CapExcess(proceeds, largest) = 0
    BY <1>3, <1>7, <2>3 DEF CapExcess, Greater
  <2>5. stack' = proceeds - 0 - CapExcess(proceeds - 0, largest)
    BY <1>3, <2>1, <2>2 DEF SettleOn
  <2>. QED
    BY <2>4, <2>5
<1>. QED
  BY <1>7, <1>8, <1>9, <1>10 DEF StackWithinShare

(* Live, no settlement that read the collateral leaves more on the table    *)
(* than the Kelly share of a wallet seen, nor takes anything from a stack   *)
(* that is within it, for every fraction, read and history of evaluations.  *)
THEOREM LiveKellyCapHolds == Spec => LiveKellyCap
<1>1. IInv /\ [Next]_vars
        => [wallet_evals' # wallet_evals /\ windows_played' > windows_played
              => StackWithinShare]_vars
  <2>. SUFFICES ASSUME IInv, [Next]_vars,
                       wallet_evals' # wallet_evals, windows_played' > windows_played
                PROVE  StackWithinShare
    OBVIOUS
  <2>1. Closing
    <3>1. windows_played \in Nat
      BY DEF IInv, TypeOK
    <3>. QED
      BY <3>1, OtherSteps
  <2>2. TypeOK /\ Conservation /\ phase = "in_position"
    BY <2>1, ClosingSettles DEF IInv
  <2>. QED
    BY <2>1, <2>2, ClosingSettles, SettleWithinShare
<1>. QED
  BY <1>1, Invariance, PTL DEF Spec, LiveKellyCap
=============================================================================
