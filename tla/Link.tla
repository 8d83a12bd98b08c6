---------------------------------- MODULE Link ---------------------------------
(****************************************************************************)
(* What the calls of Mower (src/pyam3/client.py) see of a WiFi connection:  *)
(* _connected and _writer, as one state.  MowerClient is written against    *)
(* these three steps; WifiSession, where the tasks that make them are, is   *)
(* shown to take no others while closing and opening do not overlap.        *)
(****************************************************************************)
VARIABLE link   \* "up": _connected; "closing": lost, writer still set; "down": no writer

LinkInit == link = "down"

\* The loss is noticed: _connected is reset, with the writer still there to swallow
\* what is sent.
Lose == link = "up" /\ link' = "closing"

\* The transport of the writer is closed and the writer forgotten.
CloseWriter == link = "closing" /\ link' = "down"

\* A new connection sets writer and _connected in one step.
Reopen == link = "down" /\ link' = "up"

LinkNext == Lose \/ CloseWriter \/ Reopen
================================================================================
