------------------------------- MODULE MowerBridge ------------------------------
(****************************************************************************)
(* The ESP32 bridge, src/esphome/components/mower_bridge/mower_bridge.cpp:  *)
(* loop() serves one TCP client at a time, forwards whole frames to the     *)
(* UART of the mower, answers heartbeats itself, and passes the bytes of    *)
(* the mower on as they come.                                               *)
(*                                                                          *)
(* loop() is called again and again by one thread.  A call is several steps *)
(* here; the network may act between them.  The loop that cuts frames from  *)
(* the head of tcp_buf_ makes the tests of _FrameAccumulator, with PING in  *)
(* the place of PONG, so its steps are taken from there: the bytes of the   *)
(* client are "stream", of which "fed" were received and "pos" deleted.     *)
(*                                                                          *)
(* Definitions introduced as "Fault" are plausible bugs, each stated before *)
(* the definition it would replace; no specification uses them.             *)
(****************************************************************************)
EXTENDS Frames

CONSTANTS Clients,  \* the TCP clients, each with at most one connection at a time
          None,
          Streams,  \* what a client may send over a connection
          RecvSize, \* sizeof(recv_buf)
          Backlog,  \* bound of the connections the TCP stack completes by itself
          RxCap     \* bound of the chunks of 64 bytes in the receive buffer of the UART

ASSUME BridgeAssumption ==
  /\ None \notin Clients
  /\ Streams \subseteq Seq(Byte) /\ <<>> \in Streams
  /\ RecvSize \in Nat /\ RecvSize <= MaxFrame + 1
  /\ Backlog \in Nat /\ RxCap \in Nat

VARIABLES
  server,      \* server_fd_ >= 0
  client,      \* client_fd_: whose connection it is
  backlog,     \* the connections that wait for accept()
  net,         \* what became of the connection of each client
  turn,        \* where loop() is: at its start, or at handle_uart_to_tcp_
  rx,          \* the chunks in the receive buffer of the UART
  stream, fed, pos, extracting, frames, beats  \* tcp_buf_, see FrameAccumulator

link    == <<server, client, backlog, net>>
session == <<stream, fed, pos, extracting, frames, beats>>
vars    == <<link, turn, rx, session>>

Buffer == INSTANCE FrameAccumulator

\* sizeof(tcp_buf_)
BufSize == MaxFrame * 2

\* Every variable has its type: the backlog and the receive buffer of the UART stay
\* within their sizes, and the position in the stream never passes what was received.
TypeOK ==
  /\ server \in BOOLEAN
  /\ client \in Clients \cup {None}
  /\ backlog \in Seq(Clients) /\ Len(backlog) <= Backlog
  /\ net \in [Clients -> {"gone", "up", "silent", "fin", "reset"}]
  /\ turn \in {"idle", "uart"}
  /\ rx \in 0..RxCap
  /\ Buffer!TypeOK

Waits(c) == \E i \in 1..Len(backlog) : backlog[i] = c

--------------------------------------------------------------------------------
(* loop(): server setup and accept.                                         *)

\* setup_server_ may fail, and is tried again at the next call.
SetupServer ==
  /\ turn = "idle" /\ ~server
  /\ server' = TRUE
  /\ UNCHANGED <<client, backlog, net, turn, rx, session>>

\* The connection is closed and the buffer emptied.
CloseClient ==
  /\ client' = None
  /\ net' = IF client = None THEN net ELSE [net EXCEPT ![client] = "gone"]
  /\ Buffer!Reset

\* A connection that waits is accepted when there is no client.  (try_accept_ would
\* close the client before, but loop() calls it only without one.)
TryAccept ==
  /\ turn = "idle" /\ server /\ client = None
  /\ backlog # <<>>
  /\ client' = Head(backlog) /\ backlog' = Tail(backlog)
  /\ \E bytes \in Streams : Buffer!Open(bytes)
  /\ UNCHANGED <<server, net, turn, rx>>

--------------------------------------------------------------------------------
(* handle_tcp_to_uart_.                                                     *)

AtRecv == turn = "idle" /\ server /\ client # None

\* Nothing to receive (EAGAIN).
RecvNothing ==
  /\ AtRecv /\ net[client] \in {"up", "silent"}
  /\ turn' = "uart"
  /\ UNCHANGED <<link, rx, session>>

\* Fault: no bytes means no bytes yet.
RecvEndIgnored ==
  /\ AtRecv /\ net[client] = "fin"
  /\ turn' = "uart"
  /\ UNCHANGED <<link, rx, session>>

\* The client closed: recv() returns 0.
RecvEnd ==
  /\ AtRecv /\ net[client] = "fin"
  /\ CloseClient
  /\ turn' = "uart"
  /\ UNCHANGED <<server, backlog, rx>>

RecvError ==
  /\ AtRecv /\ net[client] = "reset"
  /\ CloseClient
  /\ turn' = "uart"
  /\ UNCHANGED <<server, backlog, rx>>

\* Fault: the bytes of every recv() are read on their own.
RecvDataAfresh(n) ==
  /\ AtRecv /\ net[client] \in {"up", "fin"}
  /\ pos' = fed /\ fed' = fed + n /\ extracting' = TRUE /\ UNCHANGED <<stream, frames, beats>>
  /\ turn' = "uart"
  /\ UNCHANGED <<link, rx>>

\* Bytes are appended, to an empty buffer when they would not fit.
RecvData(n) ==
  /\ AtRecv /\ net[client] \in {"up", "fin"}
  /\ IF Len(Buffer!buf) + n > BufSize
     THEN pos' = fed /\ fed' = fed + n /\ extracting' = TRUE /\ UNCHANGED <<stream, frames, beats>>
     ELSE Buffer!Feed(n)
  /\ turn' = "uart"
  /\ UNCHANGED <<link, rx>>

\* Drop what precedes a start byte; without one the buffer is empty and the loop over.
SyncToStx == (Buffer!ClearAll \/ Buffer!Discard) /\ UNCHANGED <<link, turn, rx>>

\* Fault: the heartbeat is answered and forwarded.
ForwardPing ==
  /\ Buffer!AtStx /\ IsHeartbeat(Buffer!buf)
  /\ frames' = Append(frames, SubSeq(Buffer!buf, 1, Len(Heartbeat)))
  /\ Buffer!Delete(Len(Heartbeat)) /\ beats' = beats + 1
  /\ UNCHANGED <<link, turn, rx, stream, fed, extracting>>

\* A heartbeat is answered and not forwarded; whether send() succeeds is not looked at.
AnswerPing == Buffer!TakeHeartbeat /\ UNCHANGED <<link, turn, rx>>

DropStx == Buffer!Resync /\ UNCHANGED <<link, turn, rx>>

\* Fault: a frame is forwarded when its length is known.
ForwardEarly ==
  /\ Buffer!AtStx /\ LengthKnown(Buffer!buf)
  /\ ~IsHeartbeat(Buffer!buf) /\ ~IsImplausible(Buffer!buf)
  /\ frames' = Append(frames, Buffer!buf)
  /\ Buffer!Delete(FrameLength(Buffer!buf))
  /\ UNCHANGED <<link, turn, rx, stream, fed, extracting, beats>>

\* write_array() to the mower.
ForwardFrame == Buffer!TakeFrame /\ UNCHANGED <<link, turn, rx>>

\* Fault: no limit on the length of a frame.
AwaitRestUnlimited ==
  /\ Buffer!AtStx /\ ~IsHeartbeat(Buffer!buf)
  /\ ~(LengthKnown(Buffer!buf) /\ FrameLength(Buffer!buf) <= Len(Buffer!buf))
  /\ extracting' = FALSE
  /\ UNCHANGED <<link, turn, rx, stream, fed, pos, frames, beats>>

AwaitRest == Buffer!Wait /\ UNCHANGED <<link, turn, rx>>

CutFrames == SyncToStx \/ AnswerPing \/ DropStx \/ ForwardFrame \/ AwaitRest

--------------------------------------------------------------------------------
(* handle_uart_to_tcp_.                                                     *)

AtUart == turn = "uart" /\ ~extracting

\* The receive buffer is drained: loop() returns.
Drained ==
  /\ AtUart /\ rx = 0
  /\ turn' = "idle"
  /\ UNCHANGED <<link, rx, session>>

\* Fault: one chunk for each call.
PassOneOn ==
  /\ AtUart /\ rx > 0 /\ client # None /\ net[client] # "reset"
  /\ rx' = rx - 1 /\ turn' = "idle"
  /\ UNCHANGED <<link, session>>

\* A chunk goes to the client, or is lost when the send buffer is full.
PassOn ==
  /\ AtUart /\ rx > 0 /\ client # None /\ net[client] # "reset"
  /\ rx' = rx - 1
  /\ UNCHANGED <<link, turn, session>>

\* send() fails, the chunk is lost.
SendError ==
  /\ AtUart /\ rx > 0 /\ client # None /\ net[client] = "reset"
  /\ rx' = rx - 1 /\ turn' = "idle"
  /\ CloseClient
  /\ UNCHANGED <<server, backlog>>

\* The client was closed in this call of loop(): send() on no socket fails as well.
SendNowhere ==
  /\ AtUart /\ rx > 0 /\ client = None
  /\ rx' = rx - 1 /\ turn' = "idle"
  /\ CloseClient
  /\ UNCHANGED <<server, backlog>>

--------------------------------------------------------------------------------
(* The network and the mower.                                               *)

\* The TCP stack completes the handshake; the client is served when it is accepted.
Connects(c) ==
  /\ server /\ net[c] = "gone" /\ Len(backlog) < Backlog
  /\ net' = [net EXCEPT ![c] = "up"] /\ backlog' = Append(backlog, c)
  /\ UNCHANGED <<server, client, turn, rx, session>>

\* The client closes, or its host vanishes without a word.
Leaves(c) ==
  /\ net[c] = "up"
  /\ \E how \in {"fin", "silent"} : net' = [net EXCEPT ![c] = how]
  /\ UNCHANGED <<server, client, backlog, turn, rx, session>>

\* A reset by the client, or by the stack after unanswered probes.
Breaks(c) ==
  /\ net[c] \in {"up", "silent", "fin"}
  /\ net' = [net EXCEPT ![c] = "reset"]
  /\ UNCHANGED <<server, client, backlog, turn, rx, session>>

\* Bytes of the mower; what arrives at a full buffer is lost.  The UART is so slow that
\* nothing arrives while the buffer is drained.
MowerSends ==
  /\ turn = "idle" /\ rx < RxCap
  /\ rx' = rx + 1
  /\ UNCHANGED <<link, turn, session>>

--------------------------------------------------------------------------------

Init ==
  /\ server \in BOOLEAN /\ client = None /\ backlog = <<>>
  /\ net = [c \in Clients |-> "gone"]
  /\ turn = "idle" /\ rx = 0
  /\ Buffer!Init

Receive == \E n \in 1..RecvSize : n <= Len(stream) - fed /\ RecvData(n)

HandleTcp == RecvNothing \/ RecvEnd \/ RecvError \/ Receive \/ CutFrames
HandleUart == Drained \/ PassOn \/ SendError \/ SendNowhere

Loop == TryAccept \/ HandleTcp \/ HandleUart

Next ==
  \/ SetupServer \/ Loop \/ MowerSends
  \/ \E c \in Clients : Connects(c) \/ Leaves(c) \/ Breaks(c)

Spec == Init /\ [][Next]_vars

\* ESPHome calls loop() for ever, and every call returns.
FairSpec == Spec /\ WF_vars(Loop)

--------------------------------------------------------------------------------
(* Properties.                                                              *)

\* What recv() may return fits the buffer, whatever clients send: the overflow branch
\* is never taken, and no byte of a client is lost to it.
NeverOverflows == ~extracting => Len(Buffer!buf) + RecvSize <= BufSize

\* "Bridge-layer heartbeat frames - never forwarded to the mower UART", and nothing
\* goes to the mower that is not a whole frame (mower_bridge.h:9).
OnlyFramesToUart == Buffer!FramesAreWhole

\* In a session the bridge forwards and answers what a reader of all the bytes of that
\* client would: no partial frame of the client before it, none lost at a boundary.
Reader == INSTANCE Framing
SessionIsFraming == Reader!Spec

\* A client that waits is accepted, as long as the clients before it end: closing on
\* end of stream and on errors leaves nothing behind that keeps the bridge busy.
EachClientEnds == []<>(client = None \/ net[client] \in {"fin", "reset"})
WaitingIsServed == EachClientEnds => \A c \in Clients : Waits(c) ~> ~Waits(c)

\* What the mower sends does not stay in the bridge while there is a client.
UartIsDrained == rx > 0 /\ client # None ~> rx = 0 \/ client = None

\* "If a client is already connected, replace it with the new one so that a Python-side
\* reconnect is always accepted without restarting the bridge." (mower_bridge.cpp:95)
ReconnectAccepted == \A c \in Clients : Waits(c) ~> ~Waits(c)
================================================================================
