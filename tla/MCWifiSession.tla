---------------------------- MODULE MCWifiSession -----------------------------
(* Small instances of WifiSession for TLC.                                  *)
EXTENDS WifiSession, TLC

\* Sound for the safety runs: no definition tells the connections apart.
ConnSymmetry == Permutations(Conns)
================================================================================
