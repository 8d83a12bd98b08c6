----------------------------- MODULE MCIntegration ------------------------------
(* A small instance of Integration, and of LawnMower with it, for TLC.  The *)
(* services tell a paused mower from any other, which an unknown state      *)
(* stands for here, and one that is out from one in its station.            *)
EXTENDS Integration, TLC

MCValues == [state |-> {"paused"}, activity |-> {"mowing", "parked"}]
MCCommands == {{"state"}, {"activity"}}
MCEventFields == {"state", "activity"}

\* Sound for the safety runs: no definition tells the calls, or the clients, apart.
Symmetry == Permutations(Calls) \cup Permutations(Clients)
================================================================================
