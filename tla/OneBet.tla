------------------------------- MODULE OneBet -------------------------------
(***************************************************************************)
(* What the state machine of Le Grinder promises (grinder.rs, its header): *)
(* one position at a time, one entry per window, windows played in order,  *)
(* every position settled once, and in the end.                            *)
(***************************************************************************)
EXTENDS Integers

CONSTANTS Windows,    \* the 5-minute windows, numbered in order
          Outcomes,   \* how a position ends
          None,       \* no window
          Unplayed    \* none yet

VARIABLES bet,        \* the window of the open position
          results     \* what the position of each window came to

bvars == <<bet, results>>

Init == bet = None /\ results = [w \in Windows |-> Unplayed]

(* No window is played after a later one, nor again.                        *)
Place(w) ==
    /\ bet = None
    /\ \A v \in Windows : v >= w => results[v] = Unplayed
    /\ bet' = w
    /\ UNCHANGED results

Collect(o) ==
    /\ bet # None
    /\ results[bet] = Unplayed
    /\ results' = [results EXCEPT ![bet] = o]
    /\ bet' = None

Next == \/ \E w \in Windows : Place(w)
        \/ \E o \in Outcomes : Collect(o)

Safe == Init /\ [][Next]_bvars
Spec == Safe /\ WF_bvars(\E o \in Outcomes : Collect(o))
=============================================================================
