----------------------------- MODULE MCStatusMonitor -----------------------------
(* A small instance of StatusMonitor for TLC.                               *)
EXTENDS StatusMonitor, TLC

ValueSymmetry == Permutations(Values)
================================================================================
