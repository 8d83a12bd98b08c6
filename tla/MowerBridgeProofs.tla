---------------------------- MODULE MowerBridgeProofs ---------------------------
(****************************************************************************)
(* Theorems about MowerBridge, for all clients, streams and sizes that      *)
(* FramesAssumption and BridgeAssumption allow.  What the bridge does with  *)
(* tcp_buf_ is what _FrameAccumulator does with its buffer, so the lemmas   *)
(* of FrameAccumulatorProofs carry over.                                    *)
(****************************************************************************)
EXTENDS MowerBridge, SequenceTheorems, TLAPS

B == INSTANCE FrameAccumulatorProofs

--------------------------------------------------------------------------------
(* What is taken from FrameAccumulatorProofs.                               *)

\* The accumulator starts with its invariant.
LEMMA BufferInit == B!Init => B!IInv
BY B!InitInv, FramesAssumption, BridgeAssumption DEF B!Byte, Byte, B!FrameLength, FrameLength

\* The steps of the accumulator keep it.
LEMMA BufferNext == B!IInv /\ [B!Next]_B!vars => B!IInv'
BY B!NextInv, FramesAssumption, BridgeAssumption DEF B!Byte, Byte, B!FrameLength, FrameLength

\* Between two calls the buffer holds less than a frame.
LEMMA BufferShort == B!IInv => B!BufferBound
BY B!BoundFromInv, FramesAssumption, BridgeAssumption DEF B!Byte, Byte, B!FrameLength, FrameLength

\* The buffer is a sequence of bytes.
LEMMA BufferType == B!TypeOK => B!buf \in Seq(Byte) /\ Len(B!buf) = fed - pos
BY B!BufType, FramesAssumption, BridgeAssumption DEF B!Byte, Byte, B!FrameLength, FrameLength

\* Its steps are steps of a reader of the whole stream.
LEMMA BufferReads == B!IInv /\ [B!Next]_B!vars => [B!Abstract!Next]_B!Abstract!vars
BY B!StepRefines, FramesAssumption, BridgeAssumption DEF B!Byte, Byte, B!FrameLength, FrameLength

\* Both instances make the same tests on bytes.
LEMMA SameTests ==
  ASSUME NEW b
  PROVE  /\ Buffer!IsHeartbeat(b) <=> B!IsHeartbeat(b)
         /\ Buffer!IsImplausible(b) <=> B!IsImplausible(b)
         /\ Buffer!IsWhole(b) <=> B!IsWhole(b)
         /\ Buffer!LengthKnown(b) <=> B!LengthKnown(b)
         /\ Buffer!FrameLength(b) = B!FrameLength(b)
BY DEF Buffer!IsHeartbeat, B!IsHeartbeat, Buffer!IsImplausible, B!IsImplausible,
       Buffer!IsWhole, B!IsWhole, Buffer!LengthKnown, B!LengthKnown,
       Buffer!FrameLength, B!FrameLength

\* They read the same buffer.
LEMMA SameBuffer ==
  /\ Buffer!buf = B!buf
  /\ Buffer!AtStx <=> B!AtStx
BY DEF Buffer!buf, B!buf, Buffer!AtStx, B!AtStx

\* They have the same steps.
LEMMA SameSteps ==
  /\ Buffer!Init => B!Init
  /\ Buffer!Reset => B!Reset
  /\ \A bytes : Buffer!Open(bytes) => B!Open(bytes)
  /\ \A n : Buffer!Feed(n) => B!Feed(n)
  /\ Buffer!ClearAll => B!ClearAll
  /\ Buffer!Discard => B!Discard
  /\ Buffer!TakeHeartbeat => B!TakeHeartbeat
  /\ Buffer!Resync => B!Resync
  /\ Buffer!TakeFrame => B!TakeFrame
  /\ Buffer!Wait => B!Wait
<1>1. Buffer!Init => B!Init
  BY DEF Buffer!Init, B!Init
<1>2. Buffer!Reset => B!Reset
  BY DEF Buffer!Reset, B!Reset
<1>3. \A bytes : Buffer!Open(bytes) => B!Open(bytes)
  BY DEF Buffer!Open, B!Open
<1>4. \A n : Buffer!Feed(n) => B!Feed(n)
  BY DEF Buffer!Feed, B!Feed
<1>5. Buffer!ClearAll => B!ClearAll
  BY SameBuffer DEF Buffer!ClearAll, B!ClearAll, Buffer!NoStx, B!NoStx
<1>6. Buffer!Discard => B!Discard
  BY SameBuffer DEF Buffer!Discard, B!Discard, Buffer!Delete, B!Delete
<1>7. Buffer!TakeHeartbeat => B!TakeHeartbeat
  BY SameBuffer, SameTests DEF Buffer!TakeHeartbeat, B!TakeHeartbeat, Buffer!Delete, B!Delete
<1>8. Buffer!Resync => B!Resync
  BY SameBuffer, SameTests DEF Buffer!Resync, B!Resync, Buffer!Delete, B!Delete
<1>9. Buffer!TakeFrame => B!TakeFrame
  BY SameBuffer, SameTests DEF Buffer!TakeFrame, B!TakeFrame, Buffer!Delete, B!Delete
<1>10. Buffer!Wait => B!Wait
  BY SameBuffer, SameTests DEF Buffer!Wait, B!Wait
<1> QED BY <1>1, <1>2, <1>3, <1>4, <1>5, <1>6, <1>7, <1>8, <1>9, <1>10

--------------------------------------------------------------------------------
(* The inductive invariant.                                                 *)

\* Frames are cut between recv() and handle_uart_to_tcp_ only.
CutsInTurn == turn = "idle" => ~extracting

Links ==
  /\ server \in BOOLEAN
  /\ client \in Clients \cup {None}
  /\ backlog \in Seq(Clients) /\ Len(backlog) <= Backlog
  /\ net \in [Clients -> {"gone", "up", "silent", "fin", "reset"}]
  /\ turn \in {"idle", "uart"}
  /\ rx \in 0..RxCap

IInv == Links /\ CutsInTurn /\ B!IInv

\* There is room for what recv() may return.
LEMMA Room == B!IInv => NeverOverflows
<1> SUFFICES ASSUME B!IInv, ~extracting PROVE Len(Buffer!buf) + RecvSize <= BufSize
  BY DEF NeverOverflows
<1>1. Len(B!buf) < MaxFrame
  BY BufferShort DEF B!BufferBound
<1>2. B!buf \in Seq(Byte) /\ Len(B!buf) \in Nat
  BY BufferType DEF B!IInv
<1>3. Len(B!buf) + RecvSize <= MaxFrame * 2
  BY <1>1, <1>2, FramesAssumption, BridgeAssumption
<1> QED BY <1>3, SameBuffer DEF BufSize

\* What a step of the bridge does to the buffer is a step of the accumulator.
LEMMA BufferStep == IInv /\ [Next]_vars => [B!Next]_B!vars
<1> SUFFICES ASSUME IInv, [Next]_vars PROVE [B!Next]_B!vars
  OBVIOUS
<1>1. CASE SetupServer \/ RecvNothing \/ Drained \/ PassOn \/ MowerSends
  BY <1>1 DEF SetupServer, RecvNothing, Drained, PassOn, MowerSends, session, B!vars
<1>2. CASE TryAccept
  BY <1>2, SameSteps DEF TryAccept, B!Next
<1>3. CASE RecvEnd \/ RecvError \/ SendError \/ SendNowhere
  BY <1>3, SameSteps DEF RecvEnd, RecvError, SendError, SendNowhere, CloseClient, B!Next
<1>4. CASE Receive
  <2>1. PICK n \in 1..RecvSize : n <= Len(stream) - fed /\ RecvData(n)
    BY <1>4 DEF Receive
  <2>2. ~extracting
    BY <2>1 DEF RecvData, AtRecv, IInv, CutsInTurn
  <2>3. ~(Len(Buffer!buf) + n > BufSize)
    <3>1. Len(Buffer!buf) \in Nat /\ Len(Buffer!buf) + RecvSize <= BufSize
      BY <2>2, Room, BufferType, SameBuffer DEF IInv, NeverOverflows, B!IInv
    <3>2. BufSize \in Nat /\ RecvSize \in Nat /\ n \in Nat /\ n <= RecvSize
      BY FramesAssumption, BridgeAssumption DEF BufSize
    <3> QED BY <3>1, <3>2
  <2>4. Buffer!Feed(n)
    BY <2>1, <2>3 DEF RecvData
  <2>5. n \in 1..(Len(stream) - fed)
    <3>1. stream \in Seq(Byte) /\ fed \in Nat /\ Len(stream) \in Nat
      BY DEF IInv, B!IInv, B!TypeOK, B!Byte, Byte
    <3> QED BY <2>1, <3>1, BridgeAssumption
  <2> QED BY <2>4, <2>5, SameSteps DEF B!Next
<1>5. CASE CutFrames
  BY <1>5, SameSteps DEF CutFrames, SyncToStx, AnswerPing, DropStx, ForwardFrame, AwaitRest,
                         B!Next, B!Extract
<1>6. CASE \E c \in Clients : Connects(c) \/ Leaves(c) \/ Breaks(c)
  BY <1>6 DEF Connects, Leaves, Breaks, session, B!vars
<1>7. CASE UNCHANGED vars
  BY <1>7 DEF vars, session, B!vars
<1> QED BY <1>1, <1>2, <1>3, <1>4, <1>5, <1>6, <1>7 DEF Next, Loop, HandleTcp, HandleUart

\* Closing the connection leaves no client.
LEMMA CloseLinks ==
  ASSUME Links, CloseClient
  PROVE  client' \in Clients \cup {None} /\ net' \in [Clients -> {"gone", "up", "silent", "fin", "reset"}]
BY DEF Links, CloseClient

\* The bridge's own variables keep their types.
LEMMA LinksStep == IInv /\ [Next]_vars => Links'
<1> SUFFICES ASSUME IInv, [Next]_vars PROVE Links'
  OBVIOUS
<1> USE DEF IInv, Links
<1>1. CASE SetupServer
  BY <1>1 DEF SetupServer
<1>2. CASE TryAccept
  <2>1. Head(backlog) \in Clients /\ Tail(backlog) \in Seq(Clients) /\ Len(Tail(backlog)) = Len(backlog) - 1
    BY <1>2, HeadTailProperties DEF TryAccept
  <2>2. Len(Tail(backlog)) <= Backlog
    BY <2>1, BridgeAssumption
  <2> QED BY <1>2, <2>1, <2>2 DEF TryAccept
<1>3. CASE RecvNothing
  BY <1>3 DEF RecvNothing, link
<1>4. CASE RecvEnd \/ RecvError
  BY <1>4, CloseLinks DEF RecvEnd, RecvError
<1>5. CASE Receive
  BY <1>5 DEF Receive, RecvData, link
<1>6. CASE CutFrames
  BY <1>6 DEF CutFrames, SyncToStx, AnswerPing, DropStx, ForwardFrame, AwaitRest, link
<1>7. CASE Drained
  BY <1>7 DEF Drained, link
<1>8. CASE PassOn
  BY <1>8, BridgeAssumption DEF PassOn, link
<1>9. CASE SendError \/ SendNowhere
  <2>1. rx' \in 0..RxCap /\ turn' \in {"idle", "uart"}
    BY <1>9, BridgeAssumption DEF SendError, SendNowhere
  <2> QED BY <1>9, <2>1, CloseLinks DEF SendError, SendNowhere
<1>10. CASE MowerSends
  BY <1>10, BridgeAssumption DEF MowerSends, link
<1>11. ASSUME NEW c \in Clients, Connects(c) PROVE Links'
  <2>1. Append(backlog, c) \in Seq(Clients) /\ Len(Append(backlog, c)) = Len(backlog) + 1
    BY AppendProperties
  <2>2. Len(Append(backlog, c)) <= Backlog
    BY <1>11, <2>1, BridgeAssumption DEF Connects
  <2> QED BY <1>11, <2>1, <2>2 DEF Connects
<1>12. ASSUME NEW c \in Clients, Leaves(c) \/ Breaks(c) PROVE Links'
  BY <1>12 DEF Leaves, Breaks
<1>13. CASE UNCHANGED vars
  BY <1>13 DEF vars, link
<1> QED BY <1>1, <1>2, <1>3, <1>4, <1>5, <1>6, <1>7, <1>8, <1>9, <1>10, <1>11, <1>12, <1>13
        DEF Next, Loop, HandleTcp, HandleUart

\* loop() is back at its start only when no frame is being cut.
LEMMA TurnStep == IInv /\ [Next]_vars => CutsInTurn'
<1> SUFFICES ASSUME IInv, [Next]_vars PROVE CutsInTurn'
  OBVIOUS
<1> USE DEF IInv, CutsInTurn
<1>1. CASE SetupServer \/ MowerSends \/ \E c \in Clients : Connects(c) \/ Leaves(c) \/ Breaks(c)
  BY <1>1 DEF SetupServer, MowerSends, Connects, Leaves, Breaks, session
<1>2. CASE TryAccept
  BY <1>2 DEF TryAccept, Buffer!Open
<1>3. CASE RecvNothing \/ RecvEnd \/ RecvError \/ Receive
  BY <1>3 DEF RecvNothing, RecvEnd, RecvError, Receive, RecvData
<1>4. CASE CutFrames
  BY <1>4 DEF CutFrames, SyncToStx, AnswerPing, DropStx, ForwardFrame, AwaitRest, Buffer!ClearAll,
              Buffer!Discard, Buffer!TakeHeartbeat, Buffer!Resync, Buffer!TakeFrame, Buffer!Wait, Buffer!AtStx
<1>5. CASE Drained \/ PassOn
  BY <1>5 DEF Drained, PassOn, AtUart, session
<1>6. CASE SendError \/ SendNowhere
  BY <1>6 DEF SendError, SendNowhere, AtUart, CloseClient, Buffer!Reset
<1>7. CASE UNCHANGED vars
  BY <1>7 DEF vars, session
<1> QED BY <1>1, <1>2, <1>3, <1>4, <1>5, <1>6, <1>7 DEF Next, Loop, HandleTcp, HandleUart

\* The bridge starts without a client.
LEMMA InitInv == Init => IInv
<1> SUFFICES ASSUME Init PROVE IInv
  OBVIOUS
<1>1. B!IInv /\ ~extracting
  BY SameSteps, BufferInit DEF Init, B!Init
<1>2. <<>> \in Seq(Clients) /\ Len(<<>>) = 0
  BY EmptySeq
<1>3. Links
  BY <1>2, BridgeAssumption DEF Init, Links
<1> QED BY <1>1, <1>3 DEF IInv, CutsInTurn

\* The inductive invariant of the bridge holds at all times.
THEOREM Invariance == Spec => []IInv
<1>1. IInv /\ [Next]_vars => IInv'
  BY BufferStep, BufferNext, LinksStep, TurnStep DEF IInv
<1> QED BY <1>1, InitInv, PTL DEF Spec

--------------------------------------------------------------------------------
(* The properties of the run.                                               *)

\* The variables of the bridge keep their types, and the bytes cut from tcp_buf_ were in it.
THEOREM TypeCorrect == Spec => []TypeOK
<1>1. B!TypeOK => Buffer!TypeOK
  BY DEF B!TypeOK, Buffer!TypeOK, B!Byte, Buffer!Byte
<1>2. IInv => TypeOK
  BY <1>1 DEF IInv, Links, TypeOK, B!IInv
<1> QED BY <1>2, Invariance, PTL

\* For every client and every way its bytes arrive, tcp_buf_ has room for what recv()
\* may return: the guard against overflow never drops anything.
THEOREM RecvFits == Spec => []NeverOverflows
<1>1. IInv => NeverOverflows
  BY Room DEF IInv
<1> QED BY <1>1, Invariance, PTL

\* What is written to the UART is a whole frame and never the heartbeat.
THEOREM UartGetsFrames == Spec => []OnlyFramesToUart
<1>1. B!FramesAreWhole => OnlyFramesToUart
  BY SameTests DEF OnlyFramesToUart, B!FramesAreWhole, Buffer!FramesAreWhole
<1>2. IInv => OnlyFramesToUart
  BY <1>1 DEF IInv, B!IInv
<1> QED BY <1>2, Invariance, PTL

\* Both instances of the reader take the same steps.
LEMMA SameReader == B!Abstract!Next => Reader!Next
<1>1. Reader!left = B!Abstract!left /\ (Reader!AtStx <=> B!Abstract!AtStx)
  BY DEF Reader!left, B!Abstract!left, Reader!AtStx, B!Abstract!AtStx
<1>2. ASSUME NEW b
      PROVE  /\ Reader!IsHeartbeat(b) <=> B!Abstract!IsHeartbeat(b)
             /\ Reader!IsImplausible(b) <=> B!Abstract!IsImplausible(b)
             /\ Reader!IsWhole(b) <=> B!Abstract!IsWhole(b)
             /\ Reader!FrameLength(b) = B!Abstract!FrameLength(b)
  BY DEF Reader!IsHeartbeat, B!Abstract!IsHeartbeat, Reader!IsImplausible, B!Abstract!IsImplausible,
         Reader!IsWhole, B!Abstract!IsWhole, Reader!LengthKnown, B!Abstract!LengthKnown,
         Reader!FrameLength, B!Abstract!FrameLength
<1>3. B!Abstract!Skip => Reader!Skip
  BY <1>1 DEF B!Abstract!Skip, Reader!Skip
<1>4. B!Abstract!ReadHeartbeat => Reader!ReadHeartbeat
  BY <1>1, <1>2 DEF B!Abstract!ReadHeartbeat, Reader!ReadHeartbeat
<1>5. B!Abstract!SkipImplausible => Reader!SkipImplausible
  BY <1>1, <1>2 DEF B!Abstract!SkipImplausible, Reader!SkipImplausible
<1>6. B!Abstract!ReadFrame => Reader!ReadFrame
  BY <1>1, <1>2 DEF B!Abstract!ReadFrame, Reader!ReadFrame
<1>7. B!Abstract!Restart => Reader!Restart
  BY DEF B!Abstract!Restart, Reader!Restart, B!Abstract!Byte, Reader!Byte
<1> QED BY <1>3, <1>4, <1>5, <1>6, <1>7 DEF B!Abstract!Next, Reader!Next

\* In every session the bridge forwards and answers what a reader of all the bytes of
\* that client would, in the same order, across accepts, closes and failed sends.
THEOREM SessionsRefine == Spec => SessionIsFraming
<1>1. Init => Reader!Start
  BY DEF Init, Buffer!Init, Reader!Start
<1>2. ASSUME IInv, [Next]_vars PROVE [Reader!Next]_Reader!vars
  <2>1. [B!Abstract!Next]_B!Abstract!vars
    BY <1>2, BufferStep, BufferReads DEF IInv
  <2>2. CASE UNCHANGED B!Abstract!vars
    BY <2>2 DEF B!Abstract!vars, Reader!vars
  <2>3. CASE B!Abstract!Next
    BY <2>3, SameReader
  <2> QED BY <2>1, <2>2, <2>3
<1> QED BY <1>1, <1>2, Invariance, PTL DEF Spec, SessionIsFraming, Reader!Spec
================================================================================
