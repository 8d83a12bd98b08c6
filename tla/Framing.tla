--------------------------------- MODULE Framing --------------------------------
(****************************************************************************)
(* What a frame extractor promises: a stream of bytes is read from one end  *)
(* to the other as if all of it were there from the start.  How the bytes   *)
(* were cut into segments on their way does not show.                       *)
(****************************************************************************)
EXTENDS Frames

VARIABLES stream,  \* the stream read
          pos,     \* how many of its bytes were taken
          frames,  \* the frames found
          beats    \* the number of heartbeats found

vars == <<stream, pos, frames, beats>>

\* The bytes that are left.
left == SubSeq(stream, pos + 1, Len(stream))

Start ==
  /\ stream = <<>>
  /\ pos = 0 /\ frames = <<>> /\ beats = 0

Skip ==
  /\ \E n \in 1..Len(left) : (\A i \in 1..n : left[i] # STX) /\ pos' = pos + n
  /\ UNCHANGED <<stream, frames, beats>>

AtStx == left # <<>> /\ left[1] = STX

ReadHeartbeat ==
  /\ AtStx /\ IsHeartbeat(left)
  /\ pos' = pos + Len(Heartbeat) /\ beats' = beats + 1
  /\ UNCHANGED <<stream, frames>>

SkipImplausible ==
  /\ AtStx /\ IsImplausible(left)
  /\ pos' = pos + 1
  /\ UNCHANGED <<stream, frames, beats>>

ReadFrame ==
  /\ AtStx /\ IsWhole(left)
  /\ pos' = pos + FrameLength(left)
  /\ frames' = Append(frames, SubSeq(stream, pos + 1, pos + FrameLength(left)))
  /\ UNCHANGED <<stream, beats>>

\* Another stream is read.
Restart ==
  /\ stream' \in Seq(Byte)
  /\ pos' = 0 /\ frames' = <<>> /\ beats' = 0

Next == Skip \/ ReadHeartbeat \/ SkipImplausible \/ ReadFrame \/ Restart

Spec == Start /\ [][Next]_vars

\* There is nothing to find in what is left, whatever follows it.
Finished == left # <<>> => AtStx /\ ~IsHeartbeat(left) /\ ~IsImplausible(left) /\ ~IsWhole(left)
================================================================================
