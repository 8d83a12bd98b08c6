---------------------------- MODULE MCMowerCalendar ----------------------------
(* A small instance of MowerCalendar for TLC: days of two instants, and     *)
(* tasks in the morning, through the night, and of no duration.             *)
EXTENDS MowerCalendar

MCTasks == {[start |-> 0, duration |-> 1, days |-> {2}],
            [start |-> 1, duration |-> 2, days |-> {0, 3, 6}],
            [start |-> 1, duration |-> 0, days |-> {4}]}

\* From a Sunday to the Monday of the week after.
MCInstants == 12..29

RefreshSymmetry == Permutations(Refreshes)
================================================================================
