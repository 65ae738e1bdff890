---------------------------- MODULE BrokerProofs ----------------------------
(***************************************************************************)
(* How much the execution of orders may put at risk in a window, for every *)
(* set of tokens, every stake and any number of lost answers.              *)
(***************************************************************************)
EXTENDS Broker, TLAPS

(* Entries so far: those the machine does not know of, and the one it does. *)
Known   == IF played THEN 1 ELSE 0
Entries == lost + Known

(* The inductive invariant.  Exposure alone is not: the next entry needs    *)
(* room, which there is only because played forbids a second known one.     *)
IInv ==
    /\ account \in [Tokens -> Nat] /\ lost \in Nat /\ played \in BOOLEAN
    /\ \A t \in Tokens : account[t] <= Entries * MaxStake

(* At most one entry is known.                                              *)
LEMMA KnownIs == Known \in {0, 1} /\ (played = TRUE => Known = 1)
                               /\ (played = FALSE => Known = 0)
BY DEF Known

(* The room for one more stake, in one more entry.                          *)
LEMMA OneMore ==
    ASSUME MaxStake \in Nat, NEW e \in Nat
    PROVE  /\ e * MaxStake \in Nat
           /\ (e + 1) * MaxStake = e * MaxStake + MaxStake
BY SMT

(* Every token has that room after an entry of t for n lots.                *)
LEMMA EntryFits ==
    ASSUME MaxStake \in Nat, IInv, NEW t \in Tokens, NEW n \in 1 .. MaxStake,
           account' = [account EXCEPT ![t] = @ + n],
           lost' \in Nat, played' \in BOOLEAN, Entries' = Entries + 1
    PROVE  IInv'
<1>1. Entries \in Nat
  BY KnownIs DEF IInv, Entries
<1>2. /\ Entries * MaxStake \in Nat
      /\ Entries' * MaxStake = Entries * MaxStake + MaxStake
  BY <1>1, OneMore
<1>3. account' \in [Tokens -> Nat]
  BY DEF IInv
<1>4. ASSUME NEW u \in Tokens PROVE account'[u] <= Entries' * MaxStake
  <2>1. account[u] \in Nat /\ account[u] <= Entries * MaxStake
    BY DEF IInv
  <2>2. account'[u] \in Nat /\ account'[u] <= account[u] + MaxStake
    BY <2>1 DEF IInv
  <2>. QED
    BY <1>2, <2>1, <2>2
<1>. QED
  BY <1>3, <1>4 DEF IInv

(* A sale, known or not, leaves no token with more.                         *)
LEMMA SaleFits ==
    ASSUME MaxStake \in Nat, IInv, account' \in [Tokens -> Nat],
           \A t \in Tokens : account'[t] <= account[t],
           lost' \in {lost, lost + 1}, Known' = Known, played' \in BOOLEAN
    PROVE  IInv'
<1>1. Entries \in Nat /\ Entries' \in {Entries, Entries + 1}
  <2>1. Known \in Nat /\ lost \in Nat
    BY KnownIs DEF IInv
  <2>2. CASE lost' = lost
    BY <2>1, <2>2 DEF Entries
  <2>3. CASE lost' = lost + 1
    BY <2>1, <2>3 DEF Entries
  <2>. QED
    BY <2>2, <2>3
<1>2. /\ Entries * MaxStake \in Nat
      /\ (Entries + 1) * MaxStake = Entries * MaxStake + MaxStake
  BY <1>1, OneMore
<1>3. Entries' * MaxStake \in {Entries * MaxStake, Entries * MaxStake + MaxStake}
  BY <1>1, <1>2
<1>4. ASSUME NEW t \in Tokens PROVE account'[t] <= Entries' * MaxStake
  <2>1. account[t] \in Nat /\ account[t] <= Entries * MaxStake
    BY DEF IInv
  <2>. QED
    BY <1>2, <1>3, <2>1
<1>. QED
  BY <1>4 DEF IInv

(* A window begins with nothing held and nothing lost.                      *)
LEMMA EmptyFits ==
    ASSUME MaxStake \in Nat,
           account \in [Tokens -> Nat], \A t \in Tokens : account[t] = 0,
           played \in BOOLEAN, lost = 0, Known = 0
    PROVE  IInv
<1>1. Entries = 0
  BY DEF Entries
<1>2. Entries * MaxStake = 0
  BY <1>1
<1>3. \A t \in Tokens : account[t] <= Entries * MaxStake
  <2>1. 0 <= 0
    OBVIOUS
  <2>. QED
    BY <1>2, <2>1, Zenon
<1>4. account \in [Tokens -> Nat] /\ lost \in Nat /\ played \in BOOLEAN
  OBVIOUS
<1>. QED
  BY <1>3, <1>4 DEF IInv

(* No order leaves the invariant.                                           *)
LEMMA NextIInv ==
    ASSUME MaxStake \in Nat, MaxLost \in Nat, IInv, [Next]_bvars
    PROVE  IInv'
<1>1. ASSUME NEW t \in Tokens, NEW n \in 1 .. MaxStake, Buy(t, n) PROVE IInv'
  <2>1. Known = 0 /\ Known' = 1
    BY <1>1 DEF Buy, Known
  <2>2. lost' = lost /\ lost \in Nat /\ played' \in BOOLEAN
    BY <1>1 DEF Buy, IInv
  <2>3. Entries' = Entries + 1
    BY <2>1, <2>2 DEF Entries
  <2>4. account' = [account EXCEPT ![t] = @ + n]
    BY <1>1 DEF Buy
  <2>. QED
    BY <2>2, <2>3, <2>4, EntryFits
<1>2. ASSUME NEW t \in Tokens, NEW n \in 1 .. MaxStake, BuyLost(t, n) PROVE IInv'
  <2>1. played' = played /\ lost' = lost + 1
        /\ account' = [account EXCEPT ![t] = @ + n]
    BY <1>2 DEF BuyLost
  <2>2. Known' = Known /\ Known \in {0, 1}
    BY <2>1, KnownIs DEF Known
  <2>3. lost \in Nat /\ played' \in BOOLEAN
    BY <2>1, Zenon DEF IInv
  <2>5. lost' \in Nat
    BY <2>1, <2>3
  <2>4. Entries' = Entries + 1
    BY <2>1, <2>2, <2>3 DEF Entries
  <2>. QED
    BY <2>1, <2>3, <2>4, <2>5, EntryFits, Zenon
<1>3. ASSUME NEW n \in 1 .. (1 + MaxLost) * MaxStake, Sell(n) \/ SellLost(n)
      PROVE  IInv'
  <2>1. (1 + MaxLost) * MaxStake \in Nat
    BY OneMore
  <2>2. n \in Nat
    BY <2>1
  <2>3. /\ n <= account[belief.token]
        /\ account' = [account EXCEPT ![belief.token] = @ - n]
        /\ lost' \in {lost, lost + 1} /\ played' = played
    BY <1>3 DEF Sell, SellLost
  <2>4. Known' = Known /\ played' \in BOOLEAN
    BY <2>3, Zenon DEF Known, IInv
  <2>5. /\ account' \in [Tokens -> Nat]
        /\ \A t \in Tokens : account'[t] <= account[t]
    <3>1. account \in [Tokens -> Nat]
      BY DEF IInv
    <3>2. ASSUME NEW t \in Tokens
          PROVE  account'[t] \in Nat /\ account'[t] <= account[t]
      <4>1. CASE t = belief.token
        BY <2>2, <2>3, <3>1, <4>1
      <4>2. CASE t # belief.token
        BY <2>3, <3>1, <4>2
      <4>. QED
        BY <4>1, <4>2
    <3>. QED
      BY <2>3, <3>1, <3>2
  <2>. QED
    BY <2>3, <2>4, <2>5, SaleFits, Zenon
<1>4. CASE Expire
  <2>1. /\ account' = [t \in Tokens |-> 0]
        /\ lost' = 0 /\ played' = FALSE
    BY <1>4 DEF Expire
  <2>2. Known' = 0
    BY <2>1 DEF Known
  <2>3. Entries' = 0
    BY <2>1, <2>2 DEF Entries
  <2>4. Entries' * MaxStake = 0
    BY <2>3
  <2>5. \A t \in Tokens : account'[t] <= Entries' * MaxStake
    BY <2>1, <2>4
  <2>. QED
    BY <2>1, <2>5 DEF IInv
<1>5. CASE UNCHANGED bvars
  BY <1>5 DEF bvars, IInv, Entries, Known
<1>. QED
  BY <1>1, <1>2, <1>3, <1>4, <1>5 DEF Next

(* What is at risk in a window, whatever orders are refused, sold in part,  *)
(* or answered by nobody: one stake, and one more for each lost answer.     *)
THEOREM ExposureHolds ==
    ASSUME MaxStake \in Nat, MaxLost \in Nat
    PROVE  Spec => []Exposure
<1>1. Init => IInv
  <2>1. Init => Known = 0 /\ played \in BOOLEAN
    BY DEF Init, Known
  <2>2. Init => /\ account \in [Tokens -> Nat]
                /\ \A t \in Tokens : account[t] = 0
    BY DEF Init
  <2>. QED
    BY <2>1, <2>2, EmptyFits, Zenon DEF Init
<1>2. IInv /\ [Next]_bvars => IInv'
  BY NextIInv
<1>3. IInv => Exposure
  <2>. SUFFICES ASSUME IInv, NEW t \in Tokens
                PROVE  account[t] <= (1 + lost) * MaxStake
    BY DEF Exposure
  <2>2. /\ lost * MaxStake \in Nat
        /\ (lost + 1) * MaxStake = lost * MaxStake + MaxStake
    BY OneMore DEF IInv
  <2>3. Entries \in {lost, lost + 1}
    BY KnownIs DEF Entries, IInv
  <2>4. 1 + lost = lost + 1 /\ account[t] \in Nat
    BY DEF IInv
  <2>5. account[t] <= Entries * MaxStake
    BY DEF IInv
  <2>. QED
    BY <2>2, <2>3, <2>4, <2>5
<1>. QED
  BY <1>1, <1>2, <1>3, PTL DEF Spec
=============================================================================
