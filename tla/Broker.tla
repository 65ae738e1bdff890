------------------------------- MODULE Broker -------------------------------
(***************************************************************************)
(* What the execution of orders (grinder.rs: exec_buy, exec_sell and their *)
(* callers) comes to, paper or live, when each order is taken for a single *)
(* step: what the wallet of one window holds, what the machine believes it *)
(* holds, and what it books.  The two part in three ways only, each with   *)
(* its name: an order whose answer is lost, a sale whose second half fails,*)
(* a residue.                                                              *)
(***************************************************************************)
EXTENDS Integers

CONSTANTS
    Tokens,
    None,          \* no token
    MaxStake,      \* the most lots an order buys
    MaxLost        \* answers lost in a window

VARIABLES
    account,       \* lots held, by token
    belief,        \* the machine's position: a token and lots
    played,        \* last_played_window is this window
    booked,        \* lots the machine booked as sold
    lost

bvars == <<account, belief, played, booked, lost>>

Flat == [token |-> None, n |-> 0]

Init ==
    /\ account = [t \in Tokens |-> 0] /\ belief = Flat
    /\ played = FALSE /\ booked = 0 /\ lost = 0

(* Bought, and known to be: once in a window.                               *)
Buy(t, n) ==
    /\ belief = Flat /\ ~played
    /\ account' = [account EXCEPT ![t] = @ + n]
    /\ belief' = [token |-> t, n |-> n]
    /\ played' = TRUE
    /\ UNCHANGED <<booked, lost>>

(* Bought, and not known to be.                                             *)
BuyLost(t, n) ==
    /\ belief = Flat /\ ~played
    /\ lost < MaxLost /\ lost' = lost + 1
    /\ account' = [account EXCEPT ![t] = @ + n]
    /\ UNCHANGED <<belief, played, booked>>

(* Sold, booked to the lot, and the position closed: what is left is a      *)
(* residue.                                                                 *)
Sell(n) ==
    /\ belief # Flat
    /\ n <= account[belief.token]
    /\ account' = [account EXCEPT ![belief.token] = @ - n]
    /\ belief' = Flat
    /\ booked' = booked + n
    /\ UNCHANGED <<played, lost>>

(* Sold, not booked, and the position open as before.                       *)
SellLost(n) ==
    /\ belief # Flat
    /\ n <= account[belief.token]
    /\ account' = [account EXCEPT ![belief.token] = @ - n]
    /\ lost' \in {lost, lost + 1} /\ lost' <= MaxLost
    /\ UNCHANGED <<belief, played, booked>>

(* The window's end pays and empties all; the next one begins.              *)
Expire ==
    /\ account' = [t \in Tokens |-> 0] /\ belief' = Flat
    /\ played' = FALSE /\ booked' = 0 /\ lost' = 0

Next ==
    \/ \E t \in Tokens, n \in 1 .. MaxStake : Buy(t, n) \/ BuyLost(t, n)
    \/ \E n \in 1 .. (1 + MaxLost) * MaxStake : Sell(n) \/ SellLost(n)
    \/ Expire

Spec == Init /\ [][Next]_bvars

(* The wallet never holds, of a token, more than one stake, plus one for    *)
(* each answer lost in the window: grinder.rs, one entry a window.          *)
Exposure == \A t \in Tokens : account[t] <= (1 + lost) * MaxStake
=============================================================================
