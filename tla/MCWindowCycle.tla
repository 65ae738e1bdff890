--------------------------- MODULE MCWindowCycle ----------------------------
(* The instances of WindowCycle.tla: signals a configuration file cannot    *)
(* write.                                                                   *)
EXTENDS WindowCycle

(* The margin swings from one side to the other ...                         *)
Swings == {[z |-> 2, kill |-> FALSE], [z |-> -2, kill |-> FALSE]}

(* ... and the radar may kill a side the margin favours.                    *)
SwingsAndKills == Swings \cup {[z |-> 2, kill |-> TRUE]}

(* A margin that holds or fades, on one side only.                          *)
Fades == {[z |-> 2, kill |-> FALSE], [z |-> 0, kill |-> FALSE]}
=============================================================================
