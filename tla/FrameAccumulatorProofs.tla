------------------------- MODULE FrameAccumulatorProofs -------------------------
(****************************************************************************)
(* Theorems about FrameAccumulator, for every stream of bytes, every way it *)
(* is cut into reads, and every MaxFrame and heartbeat FramesAssumption     *)
(* allows.                                                                  *)
(****************************************************************************)
EXTENDS FrameAccumulator, SequenceTheorems, TLAPS

\* The buffer is a window on the stream.
LEMMA Window ==
  ASSUME NEW s \in Seq(Byte), NEW a \in Nat, NEW b \in Nat, a <= b, b <= Len(s)
  PROVE  /\ SubSeq(s, a + 1, b) \in Seq(Byte)
         /\ Len(SubSeq(s, a + 1, b)) = b - a
         /\ \A i \in 1..(b - a) : SubSeq(s, a + 1, b)[i] = s[a + i]
<1> DEFINE w == SubSeq(s, a + 1, b)
<1>1. w \in Seq(Byte) /\ Len(w) = b - a /\ \A i \in 1..(b - a) : w[i] = s[a + 1 + i - 1]
  BY SubSeqProperties
<1>2. \A i \in 1..(b - a) : w[i] = s[a + i]
  BY <1>1
<1> QED BY <1>1, <1>2

\* The two sums _frame_length returns.
LEMMA Sums ==
  ASSUME NEW x \in Byte, NEW y \in Byte
  PROVE  /\ x + 5 \in Nat /\ x + 5 >= 5
         /\ x + 256 * y + 4 \in Nat /\ x + 256 * y + 4 >= 4
BY DEF Byte

\* A frame that _frame_length can size has at least four bytes.
LEMMA LengthType ==
  ASSUME NEW b \in Seq(Byte), LengthKnown(b)
  PROVE  /\ FrameLength(b) \in Nat /\ FrameLength(b) >= 4
         /\ b[2] \notin LongMarkers => FrameLength(b) >= 5
<1>1. b[3] \in Byte /\ (b[2] \in LongMarkers => b[4] \in Byte)
  BY DEF LengthKnown
<1>2. CASE b[2] \in LongMarkers
  <2>1. FrameLength(b) = b[3] + 256 * b[4] + 4
    BY <1>2 DEF FrameLength
  <2>2. b[3] \in Byte /\ b[4] \in Byte
    BY <1>1, <1>2
  <2> DEFINE n == b[3] + 256 * b[4] + 4
  <2>3. n \in Nat /\ n >= 4
    BY <2>2, Sums, ZenonT(60)
  <2>4. FrameLength(b) = n
    BY <2>1
  <2> HIDE DEF n
  <2> QED BY <1>2, <2>3, <2>4
<1>3. CASE b[2] \notin LongMarkers
  <2>1. FrameLength(b) = b[3] + 5
    BY <1>3 DEF FrameLength
  <2>2. FrameLength(b) \in Nat /\ FrameLength(b) >= 5
    BY <1>1, <2>1, Sums
  <2> QED BY <1>3, <2>2
<1> QED BY <1>2, <1>3

\* What more bytes cannot change: c starts with the bytes of b.
Extends(c, b) == Len(b) <= Len(c) /\ \A i \in 1..Len(b) : b[i] = c[i]

\* The length field of b is also that of c.
LEMMA SameLength ==
  ASSUME NEW b \in Seq(Byte), NEW c \in Seq(Byte), Extends(c, b), LengthKnown(b)
  PROVE  LengthKnown(c) /\ FrameLength(c) = FrameLength(b)
<1>1. b[2] = c[2] /\ b[3] = c[3] /\ (b[2] \in LongMarkers => b[4] = c[4])
  BY DEF Extends, LengthKnown
<1>2. LengthKnown(c)
  BY <1>1 DEF Extends, LengthKnown
<1>3. FrameLength(c) = FrameLength(b)
  BY <1>1 DEF FrameLength
<1> QED BY <1>2, <1>3

\* Once a heartbeat, always a heartbeat.
LEMMA StillHeartbeat ==
  ASSUME NEW b \in Seq(Byte), NEW c \in Seq(Byte), Extends(c, b), IsHeartbeat(b)
  PROVE  IsHeartbeat(c)
BY DEF Extends, IsHeartbeat

\* Part of a heartbeat is neither a frame nor implausible.
LEMMA PartOfHeartbeat ==
  ASSUME NEW b \in Seq(Byte), NEW c \in Seq(Byte), Extends(c, b),
         IsHeartbeat(c), ~IsHeartbeat(b), LengthKnown(b)
  PROVE  FrameLength(b) <= MaxFrame /\ FrameLength(b) > Len(b)
<1>1. Len(b) < Len(Heartbeat)
  BY FramesAssumption DEF Extends, IsHeartbeat
<1>2. b[2] = Heartbeat[2] /\ b[3] = Heartbeat[3]
  <2>1. 2 \in 1..Len(b) /\ 3 \in 1..Len(b) /\ 2 \in 1..Len(Heartbeat) /\ 3 \in 1..Len(Heartbeat)
    BY <1>1, FramesAssumption DEF LengthKnown
  <2>2. b[2] = c[2] /\ b[3] = c[3] /\ c[2] = Heartbeat[2] /\ c[3] = Heartbeat[3]
    BY <2>1 DEF Extends, IsHeartbeat
  <2> QED BY <2>2
<1>3. FrameLength(b) = FrameLength(Heartbeat)
  BY <1>2, FramesAssumption DEF FrameLength
<1>4. FrameLength(Heartbeat) \in Nat
  BY <1>3, LengthType
<1> QED BY <1>1, <1>3, <1>4, FramesAssumption

\* Every decision _extract takes on the bytes it has, it would take with more of
\* them: only waiting depends on how the stream was cut.
LEMMA Stable ==
  ASSUME NEW b \in Seq(Byte), NEW c \in Seq(Byte), Extends(c, b)
  PROVE  /\ IsHeartbeat(b) => IsHeartbeat(c)
         /\ IsImplausible(b) => IsImplausible(c)
         /\ IsWhole(b) => IsWhole(c) /\ FrameLength(c) = FrameLength(b)
<1>1. IsHeartbeat(b) => IsHeartbeat(c)
  BY StillHeartbeat
<1>2. ASSUME IsImplausible(b) PROVE IsImplausible(c)
  <2>1. FrameLength(b) \in Nat
    BY <1>2, LengthType DEF IsImplausible
  <2>2. ~IsHeartbeat(c)
    BY <1>2, <2>1, PartOfHeartbeat, FramesAssumption DEF IsImplausible
  <2> QED BY <1>2, <2>2, SameLength DEF IsImplausible
<1>3. ASSUME IsWhole(b) PROVE IsWhole(c) /\ FrameLength(c) = FrameLength(b)
  <2>1. FrameLength(b) \in Nat
    BY <1>3, LengthType DEF IsWhole
  <2>2. ~IsHeartbeat(c)
    BY <1>3, <2>1, PartOfHeartbeat DEF IsWhole
  <2>3. LengthKnown(c) /\ FrameLength(c) = FrameLength(b)
    BY <1>3, SameLength DEF IsWhole
  <2> QED BY <1>3, <2>1, <2>2, <2>3 DEF IsWhole, Extends
<1> QED BY <1>1, <1>2, <1>3

--------------------------------------------------------------------------------
(* The inductive invariant.                                                 *)

\* What _extract leaves behind when it returns.
Idle ==
  ~extracting /\ buf # <<>> =>
    buf[1] = STX /\ ~IsHeartbeat(buf) /\ ~IsImplausible(buf) /\ ~IsWhole(buf)

\* An accumulator starts without frames.
Fresh == stream = <<>> => frames = <<>> /\ beats = 0

IInv == TypeOK /\ Idle /\ Fresh /\ FramesAreWhole

\* The buffer under the type invariant.
LEMMA BufType ==
  ASSUME TypeOK
  PROVE  /\ buf \in Seq(Byte) /\ Len(buf) = fed - pos
         /\ \A i \in 1..(fed - pos) : buf[i] = stream[pos + i]
BY Window DEF TypeOK, buf

\* The first n bytes of the buffer, as the stream has them.
LEMMA HeadOfBuf ==
  ASSUME TypeOK, NEW n \in 0..Len(buf)
  PROVE  /\ SubSeq(buf, 1, n) \in Seq(Byte) /\ Len(SubSeq(buf, 1, n)) = n
         /\ \A i \in 1..n : SubSeq(buf, 1, n)[i] = buf[i]
         /\ SubSeq(buf, 1, n) = SubSeq(stream, pos + 1, pos + n)
<1>1. buf \in Seq(Byte) /\ Len(buf) = fed - pos /\ \A i \in 1..(fed - pos) : buf[i] = stream[pos + i]
  BY BufType
<1>2. n \in Nat /\ n <= Len(buf) /\ pos \in Nat /\ fed \in Nat /\ fed <= Len(stream) /\ stream \in Seq(Byte)
  BY <1>1 DEF TypeOK
<1> DEFINE h == SubSeq(buf, 1, n)
           w == SubSeq(stream, pos + 1, pos + n)
<1>3. h \in Seq(Byte) /\ Len(h) = n /\ \A i \in 1..n : h[i] = buf[0 + i]
  <2>1. SubSeq(buf, 0 + 1, n) \in Seq(Byte) /\ Len(SubSeq(buf, 0 + 1, n)) = n - 0
        /\ \A i \in 1..(n - 0) : SubSeq(buf, 0 + 1, n)[i] = buf[0 + i]
    BY <1>1, <1>2, Window
  <2> QED BY <1>2, <2>1
<1>4. w \in Seq(Byte) /\ Len(w) = n /\ \A i \in 1..n : w[i] = stream[pos + i]
  <2>1. pos <= pos + n /\ pos + n <= Len(stream) /\ pos + n \in Nat /\ (pos + n) - pos = n
    BY <1>1, <1>2
  <2>2. w \in Seq(Byte) /\ Len(w) = (pos + n) - pos /\ \A i \in 1..((pos + n) - pos) : w[i] = stream[pos + i]
    BY <1>2, <2>1, Window
  <2> QED BY <2>1, <2>2
<1>5. \A i \in 1..n : h[i] = buf[i] /\ h[i] = w[i]
  BY <1>1, <1>2, <1>3, <1>4
<1>6. h = w
  BY <1>2, <1>3, <1>4, <1>5, SeqEqual
<1> QED BY <1>3, <1>5, <1>6, Zenon

\* Nothing is left of a buffer that was taken to its end.
LEMMA BufEmpty ==
  ASSUME NEW s \in Seq(Byte), NEW n \in 0..Len(s)
  PROVE  SubSeq(s, n + 1, n) = <<>>
<1>1. n \in Nat /\ n <= n /\ n <= Len(s) /\ n - n = 0
  OBVIOUS
<1>2. SubSeq(s, n + 1, n) \in Seq(Byte) /\ Len(SubSeq(s, n + 1, n)) = n - n
  BY <1>1, Window
<1> QED BY <1>1, <1>2, EmptySeq

\* A heartbeat or a frame taken from the buffer was in it.
LEMMA TakenIsThere ==
  ASSUME TypeOK
  PROVE  /\ IsHeartbeat(buf) => pos + Len(Heartbeat) \in 0..fed
         /\ IsWhole(buf) => FrameLength(buf) \in 0..Len(buf) /\ pos + FrameLength(buf) \in 0..fed
         /\ buf # <<>> => pos + 1 \in 0..fed
<1>1. buf \in Seq(Byte) /\ Len(buf) = fed - pos /\ pos \in Nat /\ fed \in Nat /\ pos <= fed
  BY BufType DEF TypeOK
<1>2. ASSUME IsHeartbeat(buf) PROVE pos + Len(Heartbeat) \in 0..fed
  BY <1>1, <1>2, FramesAssumption DEF IsHeartbeat
<1>3. ASSUME IsWhole(buf)
      PROVE  FrameLength(buf) \in 0..Len(buf) /\ pos + FrameLength(buf) \in 0..fed
  <2>1. FrameLength(buf) \in Nat /\ FrameLength(buf) <= Len(buf)
    BY <1>1, <1>3, LengthType DEF IsWhole
  <2> QED BY <1>1, <2>1
<1>4. ASSUME buf # <<>> PROVE pos + 1 \in 0..fed
  <2>1. Len(buf) # 0
    BY <1>1, <1>4, EmptySeq
  <2> QED BY <1>1, <2>1
<1> QED BY <1>2, <1>3, <1>4

\* A stream that is empty has no bytes to take.
LEMMA EmptyStream ==
  ASSUME TypeOK, stream = <<>>
  PROVE  fed = 0 /\ pos = 0
BY EmptySeq DEF TypeOK

\* The empty sequence is a stream and a list of frames.
LEMMA EmptyTypes == <<>> \in Seq(Byte) /\ <<>> \in Seq(Seq(Byte)) /\ Len(<<>>) = 0
BY EmptySeq

\* The invariant holds when the object is constructed.
LEMMA InitInv == Init => IInv
<1> SUFFICES ASSUME Init PROVE IInv
  OBVIOUS
<1>1. TypeOK
  <2>1. stream \in Seq(Byte) /\ fed \in 0..Len(stream) /\ pos \in 0..fed
    BY EmptyTypes DEF Init
  <2>2. extracting \in BOOLEAN /\ frames \in Seq(Seq(Byte)) /\ beats \in Nat
    BY EmptyTypes DEF Init
  <2> QED BY <2>1, <2>2 DEF TypeOK
<1>2. buf = <<>>
  BY <1>1, BufEmpty DEF Init, buf, TypeOK
<1> QED BY <1>1, <1>2 DEF Init, IInv, Idle, Fresh, FramesAreWhole

\* A step that leaves frames, beats and stream alone keeps what is said of them.
LEMMA SameFrames ==
  ASSUME IInv, UNCHANGED <<stream, frames, beats>>
  PROVE  Fresh' /\ FramesAreWhole'
BY DEF IInv, Fresh, FramesAreWhole

\* The bytes of a read are appended, and _extract runs.
LEMMA FeedStep ==
  ASSUME IInv, NEW n \in 1..(Len(stream) - fed), Feed(n)
  PROVE  IInv'
<1>1. TypeOK'
  BY DEF IInv, TypeOK, Feed
<1>2. Idle'
  BY DEF Feed, Idle
<1> QED BY <1>1, <1>2, SameFrames DEF IInv, Feed

\* The buffer of a closed connection is empty.
LEMMA ResetStep ==
  ASSUME IInv, Reset
  PROVE  IInv'
<1>1. TypeOK'
  BY EmptyTypes DEF IInv, TypeOK, Reset
<1>2. buf' = <<>>
  BY <1>1, BufEmpty DEF Reset, buf, TypeOK
<1> QED BY <1>1, <1>2, EmptyTypes DEF IInv, Idle, Fresh, FramesAreWhole, Reset

\* The accumulator of a new connection is empty.
LEMMA OpenStep ==
  ASSUME IInv, NEW bytes \in Streams, Open(bytes)
  PROVE  IInv'
<1>1. fed' = 0 /\ pos' = 0 /\ frames' = <<>> /\ beats' = 0 /\ stream' \in Seq(Byte)
  BY EmptyStream, StreamsAssumption DEF Open, IInv, Fresh
<1>2. TypeOK'
  BY <1>1, EmptyTypes DEF IInv, TypeOK, Open
<1>3. buf' = <<>>
  BY <1>1, BufEmpty DEF buf
<1> QED BY <1>1, <1>2, <1>3, EmptyTypes DEF IInv, Idle, Fresh, FramesAreWhole

\* Noise is cleared.
LEMMA ClearAllStep ==
  ASSUME IInv, ClearAll
  PROVE  IInv'
<1>1. TypeOK'
  <2>1. fed \in Nat /\ pos' = fed /\ fed' = fed /\ extracting' = FALSE
    BY DEF IInv, TypeOK, ClearAll
  <2>2. pos' \in 0..fed'
    BY <2>1
  <2> QED BY <2>1, <2>2 DEF IInv, TypeOK, ClearAll
<1>2. buf' = <<>>
  <2>1. buf' = SubSeq(stream, fed + 1, fed)
    BY DEF ClearAll, buf
  <2> QED BY <2>1, BufEmpty DEF IInv, TypeOK
<1> QED BY <1>1, <1>2, SameFrames DEF IInv, Idle, ClearAll

\* Noise before the start of a frame is deleted.
LEMMA DiscardStep ==
  ASSUME IInv, Discard
  PROVE  IInv'
<1>1. PICK start \in 2..Len(buf) : pos' = pos + (start - 1)
  BY DEF Discard, Delete
<1>2. TypeOK'
  BY <1>1, BufType DEF IInv, TypeOK, Discard
<1> QED BY <1>2, SameFrames DEF IInv, Idle, Discard

\* A heartbeat is deleted.
LEMMA TakeHeartbeatStep ==
  ASSUME IInv, TakeHeartbeat
  PROVE  IInv'
<1>1. pos' \in 0..fed
  BY TakenIsThere DEF IInv, TakeHeartbeat, Delete
<1>2. stream # <<>>
  <2>1. pos + Len(Heartbeat) \in 0..fed /\ pos \in Nat
    BY TakenIsThere DEF IInv, TakeHeartbeat, TypeOK
  <2> QED BY <2>1, EmptyStream, FramesAssumption DEF IInv
<1>3. TypeOK' /\ Fresh' /\ FramesAreWhole'
  BY <1>1, <1>2 DEF IInv, TypeOK, Fresh, FramesAreWhole, TakeHeartbeat
<1> QED BY <1>3 DEF IInv, Idle, TakeHeartbeat, AtStx

\* The start of an implausible frame is deleted.
LEMMA ResyncStep ==
  ASSUME IInv, Resync
  PROVE  IInv'
<1>1. pos' \in 0..fed
  BY TakenIsThere DEF IInv, Resync, AtStx, Delete
<1>2. TypeOK'
  BY <1>1 DEF IInv, TypeOK, Resync
<1> QED BY <1>2, SameFrames DEF IInv, Idle, Resync, AtStx

\* What is cut from the buffer is a frame.
LEMMA CutIsWhole ==
  ASSUME TypeOK, AtStx, IsWhole(buf), NEW f, f = SubSeq(buf, 1, FrameLength(buf))
  PROVE  /\ f \in Seq(Byte) /\ f[1] = STX /\ LengthKnown(f)
         /\ Len(f) = FrameLength(f) /\ Len(f) <= MaxFrame /\ ~IsHeartbeat(f)
<1>1. buf \in Seq(Byte) /\ FrameLength(buf) \in 0..Len(buf)
  BY BufType, TakenIsThere
<1>2. f \in Seq(Byte) /\ Len(f) = FrameLength(buf) /\ \A i \in 1..Len(f) : f[i] = buf[i]
  BY <1>1, HeadOfBuf
<1>3. Extends(buf, f)
  BY <1>1, <1>2 DEF Extends
<1>4. LengthKnown(f)
  <2>1. Len(f) >= 4 /\ (buf[2] \notin LongMarkers => Len(f) >= 5)
    BY <1>1, <1>2, LengthType DEF IsWhole
  <2> QED BY <1>1, <1>2, <2>1 DEF LengthKnown
<1>5. FrameLength(f) = FrameLength(buf)
  BY <1>1, <1>2, <1>3, <1>4, SameLength
<1>6. ~IsHeartbeat(f)
  BY <1>1, <1>2, <1>3, StillHeartbeat DEF IsWhole
<1>7. f[1] = STX
  BY <1>2, <1>4 DEF AtStx, LengthKnown
<1> QED BY <1>2, <1>4, <1>5, <1>6, <1>7 DEF IsWhole

\* A frame is deleted and dispatched.
LEMMA TakeFrameStep ==
  ASSUME IInv, TakeFrame
  PROVE  IInv'
<1> DEFINE f == SubSeq(buf, 1, FrameLength(buf))
<1>1. /\ f \in Seq(Byte) /\ f[1] = STX /\ LengthKnown(f)
      /\ Len(f) = FrameLength(f) /\ Len(f) <= MaxFrame /\ ~IsHeartbeat(f)
  BY CutIsWhole DEF IInv, TakeFrame
<1>2. pos' \in 0..fed
  BY TakenIsThere DEF IInv, TakeFrame, Delete
<1>3. frames' = Append(frames, f) /\ frames \in Seq(Seq(Byte))
  BY DEF IInv, TakeFrame, TypeOK
<1> HIDE DEF f
<1>4. /\ frames' \in Seq(Seq(Byte)) /\ Len(frames') = Len(frames) + 1
      /\ \A i \in 1..Len(frames) : frames'[i] = frames[i]
      /\ frames'[Len(frames) + 1] = f
  BY <1>1, <1>3, AppendProperties
<1>5. TypeOK'
  BY <1>2, <1>4 DEF IInv, TypeOK, TakeFrame
<1>6. FramesAreWhole'
  <2>1. \A i \in 1..Len(frames') : i \in 1..Len(frames) \/ i = Len(frames) + 1
    BY <1>3, <1>4
  <2> QED BY <1>1, <1>4, <2>1 DEF IInv, FramesAreWhole
<1>7. stream' # <<>>
  <2>1. FrameLength(buf) >= 4 /\ pos + FrameLength(buf) \in 0..fed /\ pos \in Nat /\ FrameLength(buf) \in Nat
    BY TakenIsThere, BufType, LengthType DEF IInv, TakeFrame, TypeOK, IsWhole
  <2> QED BY <2>1, EmptyStream DEF IInv, TakeFrame
<1> QED BY <1>5, <1>6, <1>7 DEF IInv, Idle, Fresh, TakeFrame, AtStx

\* The loop ends on an incomplete frame.
LEMMA WaitStep ==
  ASSUME IInv, Wait
  PROVE  IInv'
<1>1. buf' = buf
  BY DEF Wait, buf
<1>2. TypeOK'
  BY DEF IInv, TypeOK, Wait
<1>3. Idle'
  BY <1>1 DEF Wait, AtStx, Idle
<1> QED BY <1>2, <1>3, SameFrames DEF IInv, Wait

\* Every step preserves the invariant.
LEMMA NextInv == IInv /\ [Next]_vars => IInv'
<1> SUFFICES ASSUME IInv, [Next]_vars PROVE IInv'
  OBVIOUS
<1>1. CASE \E n \in 1..(Len(stream) - fed) : Feed(n)
  BY <1>1, FeedStep
<1>2. CASE Reset
  BY <1>2, ResetStep
<1>3. ASSUME NEW bytes \in Streams, Open(bytes)
      PROVE  IInv'
  BY <1>3, OpenStep
<1>4. CASE ClearAll
  BY <1>4, ClearAllStep
<1>5. CASE Discard
  BY <1>5, DiscardStep
<1>6. CASE TakeHeartbeat
  BY <1>6, TakeHeartbeatStep
<1>7. CASE Resync
  BY <1>7, ResyncStep
<1>8. CASE TakeFrame
  BY <1>8, TakeFrameStep
<1>9. CASE Wait
  BY <1>9, WaitStep
<1>10. CASE UNCHANGED vars
  BY <1>10 DEF vars, IInv, TypeOK, Idle, Fresh, FramesAreWhole, buf
<1> QED BY <1>1, <1>2, <1>3, <1>4, <1>5, <1>6, <1>7, <1>8, <1>9, <1>10 DEF Next, Extract

\* The buffer, the frames dispatched and what _extract left behind satisfy the
\* inductive invariant at all times.
THEOREM Invariance == Spec => []IInv
BY InitInv, NextInv, PTL DEF Spec

--------------------------------------------------------------------------------
(* The properties of the run.                                               *)

\* The buffer stays a window on the bytes that were fed.
THEOREM TypeCorrect == Spec => []TypeOK
<1>1. IInv => TypeOK
  BY DEF IInv
<1> QED BY <1>1, Invariance, PTL

\* Whatever bytes arrive and however they are cut, _dispatch_frame gets whole frames
\* whose length field fits them, and no heartbeat.
THEOREM DispatchesFrames == Spec => []FramesAreWhole
<1>1. IInv => FramesAreWhole
  BY DEF IInv
<1> QED BY <1>1, Invariance, PTL

\* What _extract leaves behind is shorter than a frame.
LEMMA BoundFromInv == IInv => BufferBound
<1> SUFFICES ASSUME IInv, ~extracting PROVE Len(buf) < MaxFrame
  BY DEF BufferBound
<1>1. buf \in Seq(Byte) /\ MaxFrame \in Nat /\ MaxFrame >= 5
  BY BufType, FramesAssumption DEF IInv
<1>2. CASE buf = <<>>
  BY <1>1, <1>2, EmptyTypes
<1>3. CASE buf # <<>> /\ ~LengthKnown(buf)
  BY <1>1, <1>3 DEF LengthKnown
<1>4. CASE buf # <<>> /\ LengthKnown(buf)
  <2>1. ~IsHeartbeat(buf) /\ ~IsImplausible(buf) /\ ~IsWhole(buf)
    BY <1>4 DEF IInv, Idle
  <2>2. FrameLength(buf) \in Nat
    BY <1>1, <1>4, LengthType
  <2> QED BY <1>1, <1>4, <2>1, <2>2 DEF IsImplausible, IsWhole
<1> QED BY <1>2, <1>3, <1>4

\* What feed() leaves in the buffer is shorter than MAX_FRAME_SIZE: a corrupted
\* length field makes the accumulator neither wait for ever nor grow.
THEOREM BufferIsBounded == Spec => []BufferBound
BY BoundFromInv, Invariance, PTL


--------------------------------------------------------------------------------
(* The accumulator implements Framing.                                      *)

\* The abstract specification makes the same tests on bytes.
LEMMA SameTests ==
  ASSUME NEW b
  PROVE  /\ Abstract!IsHeartbeat(b) <=> IsHeartbeat(b)
         /\ Abstract!IsImplausible(b) <=> IsImplausible(b)
         /\ Abstract!IsWhole(b) <=> IsWhole(b)
         /\ Abstract!FrameLength(b) = FrameLength(b)
BY DEF Abstract!IsHeartbeat, IsHeartbeat, Abstract!IsImplausible, IsImplausible,
       Abstract!IsWhole, IsWhole, Abstract!LengthKnown, LengthKnown,
       Abstract!FrameLength, FrameLength

\* What the reader of the whole stream sees starts with the buffer.
LEMMA LeftExtendsBuf ==
  ASSUME TypeOK
  PROVE  /\ Abstract!left \in Seq(Byte) /\ Len(Abstract!left) = Len(stream) - pos
         /\ \A i \in 1..(Len(stream) - pos) : Abstract!left[i] = stream[pos + i]
         /\ Extends(Abstract!left, buf)
<1>1. stream \in Seq(Byte) /\ pos \in Nat /\ Len(stream) \in Nat /\ fed \in Nat /\ pos <= fed /\ fed <= Len(stream)
  BY DEF TypeOK
<1>2. /\ Abstract!left \in Seq(Byte) /\ Len(Abstract!left) = Len(stream) - pos
      /\ \A i \in 1..(Len(stream) - pos) : Abstract!left[i] = stream[pos + i]
  BY <1>1, Window DEF Abstract!left
<1>3. Extends(Abstract!left, buf)
  BY <1>1, <1>2, BufType DEF Extends
<1> QED BY <1>2, <1>3

\* Both see the start of a frame.
LEMMA SameStart ==
  ASSUME TypeOK, AtStx
  PROVE  Abstract!AtStx
<1>1. buf \in Seq(Byte) /\ 1 \in 1..Len(buf)
  BY BufType, EmptySeq DEF AtStx
<1>2. Abstract!left[1] = STX /\ Len(Abstract!left) # 0
  BY <1>1, LeftExtendsBuf DEF Extends, AtStx
<1> QED BY <1>2, EmptySeq DEF Abstract!AtStx

\* The bytes cleared are skipped; an empty buffer clears nothing.
LEMMA ClearAllSkips ==
  ASSUME IInv, ClearAll
  PROVE  Abstract!Skip \/ UNCHANGED Abstract!vars
<1>1. /\ buf \in Seq(Byte) /\ Len(buf) = fed - pos /\ fed \in Nat /\ pos \in Nat
      /\ Len(stream) \in Nat /\ fed <= Len(stream) /\ pos <= fed
  BY BufType DEF IInv, TypeOK
<1>2. CASE fed = pos
  BY <1>2 DEF ClearAll, Abstract!vars
<1>3. CASE fed # pos
  <2> DEFINE n == fed - pos
  <2>1. n \in 1..Len(Abstract!left) /\ pos' = pos + n
    BY <1>1, <1>3, LeftExtendsBuf DEF IInv, ClearAll
  <2>2. \A i \in 1..n : Abstract!left[i] # STX
    BY <1>1, LeftExtendsBuf DEF IInv, ClearAll, NoStx, Extends
  <2> HIDE DEF n
  <2> QED BY <2>1, <2>2 DEF Abstract!Skip, ClearAll
<1> QED BY <1>2, <1>3

\* The bytes before the first STX are skipped.
LEMMA DiscardSkips ==
  ASSUME IInv, Discard
  PROVE  Abstract!Skip
<1>1. PICK start \in 2..Len(buf) :
        pos' = pos + (start - 1) /\ \A i \in 1..(start - 1) : buf[i] # STX
  BY DEF Discard, Delete
<1> DEFINE n == start - 1
<1>2. n \in 1..Len(buf) /\ Len(buf) \in Nat /\ Len(buf) <= Len(Abstract!left)
  BY BufType, LeftExtendsBuf DEF IInv, Extends
<1>3. \A i \in 1..n : Abstract!left[i] # STX
  BY <1>1, <1>2, LeftExtendsBuf DEF IInv, Extends
<1>4. n \in 1..Len(Abstract!left)
  BY <1>2, LeftExtendsBuf DEF IInv
<1>5. pos' = pos + n
  BY <1>1
<1> HIDE DEF n
<1> QED BY <1>3, <1>4, <1>5 DEF Abstract!Skip, Discard

\* A heartbeat found in the buffer is one in the stream.
LEMMA HeartbeatIsRead ==
  ASSUME IInv, TakeHeartbeat
  PROVE  Abstract!ReadHeartbeat
<1>1. Abstract!AtStx
  BY SameStart DEF IInv, TakeHeartbeat
<1>2. Abstract!IsHeartbeat(Abstract!left)
  BY Stable, BufType, LeftExtendsBuf, SameTests DEF IInv, TakeHeartbeat
<1> QED BY <1>1, <1>2 DEF Abstract!ReadHeartbeat, TakeHeartbeat, Delete

\* A length field implausible in the buffer is so in the stream.
LEMMA ResyncSkips ==
  ASSUME IInv, Resync
  PROVE  Abstract!SkipImplausible
<1>1. Abstract!AtStx
  BY SameStart DEF IInv, Resync
<1>2. Abstract!IsImplausible(Abstract!left)
  BY Stable, BufType, LeftExtendsBuf, SameTests DEF IInv, Resync
<1> QED BY <1>1, <1>2 DEF Abstract!SkipImplausible, Resync, Delete

\* A frame complete in the buffer is one in the stream.
LEMMA FrameIsRead ==
  ASSUME IInv, TakeFrame
  PROVE  Abstract!ReadFrame
<1>1. Abstract!AtStx
  BY SameStart DEF IInv, TakeFrame
<1>2. IsWhole(Abstract!left) /\ FrameLength(Abstract!left) = FrameLength(buf)
  BY Stable, BufType, LeftExtendsBuf DEF IInv, TakeFrame
<1>3. Abstract!IsWhole(Abstract!left) /\ Abstract!FrameLength(Abstract!left) = FrameLength(buf)
  BY <1>2, SameTests
<1>4. SubSeq(buf, 1, FrameLength(buf)) = SubSeq(stream, pos + 1, pos + FrameLength(buf))
  BY HeadOfBuf, TakenIsThere DEF IInv, TakeFrame
<1> QED BY <1>1, <1>3, <1>4 DEF Abstract!ReadFrame, TakeFrame, Delete

\* A step of the accumulator is a step of the reader, or none it would notice.
LEMMA StepRefines == IInv /\ [Next]_vars => [Abstract!Next]_Abstract!vars
<1> SUFFICES ASSUME IInv, [Next]_vars PROVE [Abstract!Next]_Abstract!vars
  OBVIOUS
<1>1. CASE \E n \in 1..(Len(stream) - fed) : Feed(n)
  BY <1>1 DEF Feed, Abstract!vars
<1>2. CASE Reset
  BY <1>2, EmptyTypes DEF Reset, Abstract!Next, Abstract!Restart, Abstract!Byte, Byte
<1>3. ASSUME NEW bytes \in Streams, Open(bytes)
      PROVE  [Abstract!Next]_Abstract!vars
  <2>1. pos' = 0 /\ frames' = <<>> /\ beats' = 0 /\ stream' \in Seq(Byte)
    BY <1>3, EmptyStream, StreamsAssumption DEF Open, IInv, Fresh
  <2> QED BY <2>1 DEF Abstract!Next, Abstract!Restart, Abstract!Byte, Byte
<1>4. CASE ClearAll
  BY <1>4, ClearAllSkips DEF Abstract!Next
<1>5. CASE Discard
  BY <1>5, DiscardSkips DEF Abstract!Next
<1>6. CASE TakeHeartbeat
  BY <1>6, HeartbeatIsRead DEF Abstract!Next
<1>7. CASE Resync
  BY <1>7, ResyncSkips DEF Abstract!Next
<1>8. CASE TakeFrame
  BY <1>8, FrameIsRead DEF Abstract!Next
<1>9. CASE Wait
  BY <1>9 DEF Wait, Abstract!vars
<1>10. CASE UNCHANGED vars
  BY <1>10 DEF vars, Abstract!vars
<1> QED BY <1>1, <1>2, <1>3, <1>4, <1>5, <1>6, <1>7, <1>8, <1>9, <1>10 DEF Next, Extract

\* However the bytes of a connection are cut into reads, the accumulator finds the
\* frames and heartbeats a reader of the whole stream finds, in the same order.
THEOREM Refinement == Spec => ImplementsFraming
<1>1. Init => Abstract!Start
  BY DEF Init, Abstract!Start
<1> QED BY <1>1, Invariance, StepRefines, PTL DEF Spec, ImplementsFraming, Abstract!Spec

\* When all bytes are in and feed() has returned, that reader would not find more.
THEOREM HoldsNothingBack == Spec => []NothingHeldBack
<1>1. ASSUME IInv PROVE NothingHeldBack
  <2>1. SUFFICES ASSUME fed = Len(stream), ~extracting PROVE Abstract!Finished
    BY DEF NothingHeldBack
  <2>2. Abstract!left = buf
    BY <2>1 DEF Abstract!left, buf
  <2> QED BY <1>1, <2>1, <2>2, SameTests DEF IInv, Idle, Abstract!Finished, Abstract!AtStx
<1> QED BY <1>1, Invariance, PTL

\* What is left between two reads is less than a frame, and nothing to be found in it.
THEOREM LeavesPartial == Spec => []RestIsPartial
<1>1. BufferBound /\ NothingHeldBack => RestIsPartial
  BY DEF RestIsPartial
<1> QED BY <1>1, BufferIsBounded, HoldsNothingBack, PTL
================================================================================
