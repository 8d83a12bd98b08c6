---------------------------- MODULE MCMowerClient -----------------------------
(* Small instances of MowerClient for TLC.                                  *)
EXTENDS MowerClient, TLC

\* Sound for the safety runs: no definition tells the callers apart.
CallerSymmetry == Permutations(Callers)
================================================================================
