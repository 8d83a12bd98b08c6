---------------------------- MODULE FrameAccumulator ----------------------------
(****************************************************************************)
(* Class _FrameAccumulator of src/pyam3/client.py: the buffer of a          *)
(* connection and the loop that cuts frames from its head.                  *)
(*                                                                          *)
(* The stream of a connection is fixed when it opens and arrives in pieces  *)
(* of any size.  The buffer is the part of it that was fed and not taken.   *)
(* feed() extends the buffer and runs _extract to its end; an iteration of  *)
(* that loop is a step or two here, with "extracting" TRUE meanwhile.       *)
(*                                                                          *)
(* Definitions introduced as "Fault" are plausible bugs, each stated before *)
(* the definition it would replace; no specification uses them.             *)
(****************************************************************************)
EXTENDS Frames

CONSTANT Streams  \* what a connection may carry

ASSUME StreamsAssumption == Streams \subseteq Seq(Byte) /\ <<>> \in Streams

VARIABLES stream,      \* all the bytes of this connection
          fed,         \* how many of them were fed
          pos,         \* how many of them were deleted from the buffer
          extracting,  \* _extract runs
          frames,      \* the frames dispatched
          beats        \* the number of calls of _pong_cb

vars == <<stream, fed, pos, extracting, frames, beats>>

\* _buf
buf == SubSeq(stream, pos + 1, fed)

\* Every variable has its type: _extract never takes more bytes than it was fed.
TypeOK ==
  /\ stream \in Seq(Byte)
  /\ fed \in 0..Len(stream) /\ pos \in 0..fed
  /\ extracting \in BOOLEAN
  /\ frames \in Seq(Seq(Byte)) /\ beats \in Nat

Init ==
  /\ stream = <<>>
  /\ fed = 0 /\ pos = 0 /\ extracting = FALSE
  /\ frames = <<>> /\ beats = 0

\* The next n bytes arrive.
Feed(n) ==
  /\ ~extracting
  /\ fed' = fed + n /\ extracting' = TRUE
  /\ UNCHANGED <<stream, pos, frames, beats>>

\* The connection is closed, which resets the buffer.
Reset ==
  /\ ~extracting
  /\ stream' = <<>> /\ fed' = 0 /\ pos' = 0 /\ frames' = <<>> /\ beats' = 0
  /\ UNCHANGED extracting

\* The next connection is opened, with an accumulator of its own.
Open(bytes) ==
  /\ stream = <<>>
  /\ stream' = bytes
  /\ UNCHANGED <<fed, pos, extracting, frames, beats>>

--------------------------------------------------------------------------------
(* The loop of _extract.                                                    *)

Delete(n) == pos' = pos + n

NoStx == \A i \in 1..Len(buf) : buf[i] # STX

\* No start of a frame in the buffer.
ClearAll ==
  /\ extracting /\ NoStx
  /\ pos' = fed /\ extracting' = FALSE
  /\ UNCHANGED <<stream, fed, frames, beats>>

\* Fault: the search stops one byte late.
DiscardOneMore ==
  /\ extracting
  /\ \E start \in 2..Len(buf) :
       /\ buf[start] = STX /\ \A i \in 1..(start - 1) : buf[i] # STX
       /\ Delete(start)
  /\ UNCHANGED <<stream, fed, extracting, frames, beats>>

\* Bytes before the first start of a frame.
Discard ==
  /\ extracting
  /\ \E start \in 2..Len(buf) :
       /\ buf[start] = STX /\ \A i \in 1..(start - 1) : buf[i] # STX
       /\ Delete(start - 1)
  /\ UNCHANGED <<stream, fed, extracting, frames, beats>>

AtStx == extracting /\ buf # <<>> /\ buf[1] = STX

TakeHeartbeat ==
  /\ AtStx /\ IsHeartbeat(buf)
  /\ Delete(Len(Heartbeat)) /\ beats' = beats + 1
  /\ UNCHANGED <<stream, fed, extracting, frames>>

\* Fault: the start of the implausible frame is left in the buffer.
ResyncInPlace ==
  /\ AtStx /\ IsImplausible(buf)
  /\ UNCHANGED vars

Resync ==
  /\ AtStx /\ IsImplausible(buf)
  /\ Delete(1)
  /\ UNCHANGED <<stream, fed, extracting, frames, beats>>

\* Fault: the end of the frame stays in the buffer.
TakeFrameButLast ==
  /\ AtStx /\ IsWhole(buf)
  /\ frames' = Append(frames, SubSeq(buf, 1, FrameLength(buf) - 1))
  /\ Delete(FrameLength(buf) - 1)
  /\ UNCHANGED <<stream, fed, extracting, beats>>

TakeFrame ==
  /\ AtStx /\ IsWhole(buf)
  /\ frames' = Append(frames, SubSeq(buf, 1, FrameLength(buf)))
  /\ Delete(FrameLength(buf))
  /\ UNCHANGED <<stream, fed, extracting, beats>>

\* Fault: a length the buffer cannot hold is waited for.
WaitForAny ==
  /\ AtStx /\ ~IsHeartbeat(buf)
  /\ ~(LengthKnown(buf) /\ FrameLength(buf) <= Len(buf))
  /\ extracting' = FALSE
  /\ UNCHANGED <<stream, fed, pos, frames, beats>>

\* The length is unknown yet, or the frame is not complete.
Wait ==
  /\ AtStx /\ ~IsHeartbeat(buf) /\ ~IsImplausible(buf) /\ ~IsWhole(buf)
  /\ extracting' = FALSE
  /\ UNCHANGED <<stream, fed, pos, frames, beats>>

Extract == ClearAll \/ Discard \/ TakeHeartbeat \/ Resync \/ TakeFrame \/ Wait

Next == (\E n \in 1..(Len(stream) - fed) : Feed(n)) \/ Reset
        \/ (\E bytes \in Streams : Open(bytes)) \/ Extract

Spec == Init /\ [][Next]_vars

\* The loop runs to its end.
FairSpec == Spec /\ WF_vars(Extract)

--------------------------------------------------------------------------------
(* Properties.                                                              *)

\* Between two calls of feed() the buffer holds less than the longest frame,
\* whatever arrives: a corrupted length field cannot make it wait for data that
\* never comes (comment at MAX_FRAME_SIZE) nor grow without bound.
BufferBound == ~extracting => Len(buf) < MaxFrame

\* _dispatch_frame gets frames only: they start with STX, are as long as their own
\* length field says, and no heartbeat is among them.
FramesAreWhole ==
  \A i \in 1..Len(frames) :
    /\ frames[i][1] = STX /\ LengthKnown(frames[i])
    /\ Len(frames[i]) = FrameLength(frames[i]) /\ Len(frames[i]) <= MaxFrame
    /\ ~IsHeartbeat(frames[i])

\* The way the stream is cut into reads does not show: the accumulator finds what a
\* reader of the whole stream would find.
Abstract == INSTANCE Framing WITH stream <- stream, pos <- pos, frames <- frames, beats <- beats
ImplementsFraming == Abstract!Spec

\* Nor does it hold anything back: when all bytes are in and feed() has returned, a
\* reader of the whole stream would not find more.
NothingHeldBack == fed = Len(stream) /\ ~extracting => Abstract!Finished

\* What feed() leaves in the buffer is less than a frame, and is nothing that a reader of
\* all bytes would take.
RestIsPartial == BufferBound /\ NothingHeldBack

\* feed() returns: the loop of _extract ends on any bytes.
ExtractEnds == extracting ~> ~extracting
================================================================================
