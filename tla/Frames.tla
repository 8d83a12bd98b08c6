--------------------------------- MODULE Frames ---------------------------------
(****************************************************************************)
(* How a frame is told apart in a stream of bytes: _frame_length of         *)
(* src/pyam3/client.py and the tests its _extract loop makes on the bytes   *)
(* from a start-of-text byte on.                                            *)
(*                                                                          *)
(* The definition introduced as "Fault" is a plausible bug, stated before   *)
(* the definition it would replace; no specification uses it.               *)
(****************************************************************************)
EXTENDS Integers, Sequences

CONSTANTS STX,          \* the byte every frame starts with
          LongMarkers,  \* second bytes of extended and linked frames
          MaxFrame,     \* MAX_FRAME_SIZE
          Heartbeat     \* _HEARTBEAT_RESPONSE

Byte == 0..255

\* The number of bytes known to be needed before _frame_length answers.
LengthKnown(b) == Len(b) >= 3 /\ (b[2] \in LongMarkers => Len(b) >= 4)

FrameLength(b) ==
  IF b[2] \in LongMarkers THEN b[3] + 256 * b[4] + 4 ELSE b[3] + 5

\* b starts with a heartbeat.
IsHeartbeat(b) ==
  Len(b) >= Len(Heartbeat) /\ \A i \in 1..Len(Heartbeat) : b[i] = Heartbeat[i]

\* b starts with a length field no frame can have.
IsImplausible(b) == ~IsHeartbeat(b) /\ LengthKnown(b) /\ FrameLength(b) > MaxFrame

\* b starts with a frame, all of it.
IsWhole(b) ==
  ~IsHeartbeat(b) /\ LengthKnown(b) /\ FrameLength(b) <= MaxFrame /\ FrameLength(b) <= Len(b)

\* The heartbeat reads as the start of a plausible simple frame that is longer than
\* the heartbeat, so that part of a heartbeat is waited on like part of a frame.
ASSUME FramesAssumption ==
  /\ STX \in Byte /\ LongMarkers \subseteq Byte /\ STX \notin LongMarkers
  /\ MaxFrame \in Nat /\ MaxFrame >= 5
  /\ Heartbeat \in Seq(Byte) /\ Len(Heartbeat) >= 3 /\ Heartbeat[1] = STX
  /\ Heartbeat[2] \notin LongMarkers
  /\ Len(Heartbeat) < FrameLength(Heartbeat) /\ FrameLength(Heartbeat) <= MaxFrame
================================================================================
