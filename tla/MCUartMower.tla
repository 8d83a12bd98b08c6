------------------------------ MODULE MCUartMower -------------------------------
(* A small instance of UartMower for TLC: two calls of two attempts, and    *)
(* three transports, so that connect() can be both hasty and late.          *)
EXTENDS UartMower, TLC

CONSTANTS c1, c2, t1, t2, t3

MCCalls == {c1, c2}
MCTransports == {t1, t2, t3}
Symmetry == Permutations(MCCalls) \cup Permutations(MCTransports)
================================================================================
