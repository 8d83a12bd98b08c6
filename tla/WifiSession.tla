------------------------------ MODULE WifiSession ------------------------------
(****************************************************************************)
(* Class WifiSerialMower of src/pyam3/client.py: the asyncio tasks that     *)
(* open, watch, lose, close and reopen the TCP connection to the bridge.    *)
(*                                                                          *)
(* The tasks are the caller of connect() and disconnect(), the heartbeat    *)
(* task, and one receive task per connection ever opened.  They share the   *)
(* attributes _connected, _writer, _reader, _recv_task, _stop_event and     *)
(* _reconnect, and run _close_connection and _open_connection each on its   *)
(* own account.                                                             *)
(*                                                                          *)
(* The event loop runs one task at a time, from one await to the next.      *)
(* The task that runs is in "running": it takes several small steps, and    *)
(* nothing else moves until it suspends (running = None) or ends.           *)
(*                                                                          *)
(* A connection number is used again once nothing refers to it, so the      *)
(* model bounds the connections that exist at once, not how many are made.  *)
(*                                                                          *)
(* Definitions introduced as "Fault" are plausible bugs, each stated before *)
(* the definition it would replace; no specification uses them.             *)
(****************************************************************************)
EXTENDS Naturals, FiniteSets

CONSTANTS Conns,      \* connections, each with its own receive task
          User,       \* the task that calls connect() and disconnect()
          Heartbeat,  \* the task of _heartbeat_loop
          None,
          AutoReconnect  \* the "reconnect" parameter of the constructor

ASSUME TasksAssumption == /\ User \notin Conns \cup {Heartbeat}
                          /\ Heartbeat \notin Conns
                          /\ None \notin Conns \cup {User, Heartbeat}
                          /\ AutoReconnect \in BOOLEAN

Tasks == Conns \cup {User, Heartbeat}

VARIABLES
  running,    \* the task that runs, or None
  pc,         \* where each task is
  arg,        \* what it waits for there: a connection or a receive task
  cancelled,  \* the tasks whose next resumption raises CancelledError
  connected,  \* _connected
  stop,       \* _stop_event
  reconnect,  \* _reconnect
  writer,     \* _writer: its connection
  reader,     \* _reader: its connection
  recvTask,   \* _recv_task
  sock,       \* the transport of each connection
  overlap     \* history: two tasks were closing or opening at the same time

flags == <<stop, reconnect>>
ends  == <<writer, reader>>
vars  == <<running, pc, arg, cancelled, connected, flags, ends, recvTask, sock, overlap>>

\* Awaits of a task that closes or opens the connection.
Closing == {"closeA", "joinRecv", "closeB", "joinWriter", "closeC"}
Opening == {"open", "connecting", "backoff", "opened"}

\* Every variable has its type: a task is suspended only where the code has an await,
\* and each attribute refers to one connection or to none.
TypeOK ==
  /\ running \in Tasks \cup {None}
  /\ pc \in [Tasks -> {"off", "on", "loop", "top", "sleep", "pong", "read", "lost", "stopHeartbeat",
                       "joinHeartbeat", "stopRecv", "joinLast", "done"}
                      \cup Closing \cup Opening]
  /\ arg \in [Tasks -> Conns \cup {None}]
  /\ cancelled \in SUBSET Tasks
  /\ connected \in BOOLEAN /\ stop \in BOOLEAN /\ reconnect \in BOOLEAN
  /\ writer \in Conns \cup {None} /\ reader \in Conns \cup {None}
  /\ recvTask \in Conns \cup {None}
  /\ sock \in [Conns -> {"none", "open", "eof", "closing", "closed"}]
  /\ overlap \in BOOLEAN

--------------------------------------------------------------------------------
(* Tasks.                                                                   *)

Busy(t) == pc[t] \in Closing \cup Opening

\* Task t goes on to p without suspending.
Go(t, p) == pc' = [pc EXCEPT ![t] = p] /\ running' = t /\ UNCHANGED arg

\* Task t suspends at p, waiting for x.
Await(t, p, x) ==
  /\ pc' = [pc EXCEPT ![t] = p] /\ arg' = [arg EXCEPT ![t] = x] /\ running' = None

\* Task t goes on to p after an await.
Wake(t, p) ==
  /\ pc' = [pc EXCEPT ![t] = p] /\ arg' = [arg EXCEPT ![t] = None] /\ running' = t

\* Whom Task.cancel() reaches: a task that awaits another task passes it on, and is
\* not marked itself.  A task that awaits itself drops it (see JoinedRecv).
PassOn(t) == IF pc[t] = "joinRecv" /\ arg[t] # t /\ pc[arg[t]] # "done" THEN arg[t] ELSE t

Reached(t) == PassOn(PassOn(PassOn(t)))

CancelTask(t) ==
  cancelled' = IF pc[Reached(t)] = "joinRecv" THEN cancelled ELSE cancelled \cup {Reached(t)}

\* CancelledError leaves every coroutine of this class but _close_connection while
\* it joins the receive task.
Die(t) ==
  /\ running = None /\ t \in cancelled
  /\ pc' = [pc EXCEPT ![t] = "done"] /\ arg' = [arg EXCEPT ![t] = None]
  /\ cancelled' = cancelled \ {t}
  /\ UNCHANGED <<running, connected, flags, ends, recvTask, sock, overlap>>

\* What task t waits for has happened, or may happen at any time (a timer, the network).
Ready(t) ==
  CASE pc[t] = "joinRecv"      -> arg[t] = t \/ pc[arg[t]] = "done"
    [] pc[t] = "joinWriter"    -> sock[arg[t]] = "closed"
    [] pc[t] = "joinHeartbeat" -> pc[Heartbeat] = "done"
    [] pc[t] = "joinLast"      -> pc[arg[t]] = "done"
    [] pc[t] = "read"          -> sock[arg[t]] \in {"eof", "closed"}
    [] OTHER                   -> pc[t] \in {"connecting", "backoff", "top", "sleep", "pong"}

Resumes(t, p) == running = None /\ pc[t] = p /\ t \notin cancelled /\ Ready(t)
Runs(t, p)    == running = t /\ pc[t] = p

--------------------------------------------------------------------------------
(* _open_connection.                                                        *)

\* The head of its loop.
OpenTop(t) ==
  /\ Runs(t, "open")
  /\ IF stop THEN Go(t, "opened") ELSE Await(t, "connecting", None)
  /\ UNCHANGED <<cancelled, connected, flags, ends, recvTask, sock, overlap>>

\* asyncio.open_connection takes several turns of the event loop: what was due
\* when the handshake began, has run.
Settled == cancelled = {} /\ \A t \in Tasks : pc[t] \in Closing => ~Ready(t)

\* A connection number nothing refers to.
Free(k) ==
  /\ sock[k] \in {"none", "closed"} /\ pc[k] = "done"
  /\ k \notin {writer, reader, recvTask} /\ \A t \in Tasks : arg[t] # k

Opened(t) ==
  /\ Resumes(t, "connecting") /\ Settled
  /\ \E k \in Conns :
       /\ Free(k)
       /\ sock' = [sock EXCEPT ![k] = "open"]
       /\ writer' = k /\ reader' = k /\ recvTask' = k
       /\ pc' = [pc EXCEPT ![k] = "top", ![t] = "opened"]
  /\ connected' = TRUE
  /\ running' = t
  /\ UNCHANGED <<arg, cancelled, flags, overlap>>

Refused(t) ==
  /\ Resumes(t, "connecting")
  /\ Await(t, "backoff", None)
  /\ UNCHANGED <<cancelled, connected, flags, ends, recvTask, sock, overlap>>

BackedOff(t) ==
  /\ Resumes(t, "backoff")
  /\ Wake(t, "open")
  /\ UNCHANGED <<cancelled, connected, flags, ends, recvTask, sock, overlap>>

\* Back in connect(), which starts the heartbeat; in _heartbeat_loop, which goes
\* round; or in _recv_loop, which returns.
OpenReturns(t) ==
  /\ Runs(t, "opened")
  /\ CASE t = User      -> /\ pc' = [pc EXCEPT ![User] = "on", ![Heartbeat] = "loop"]
                           /\ running' = Heartbeat
       [] t = Heartbeat -> pc' = [pc EXCEPT ![t] = "loop"] /\ running' = t
       [] OTHER         -> pc' = [pc EXCEPT ![t] = "done"] /\ running' = None
  /\ UNCHANGED <<arg, cancelled, connected, flags, ends, recvTask, sock, overlap>>

--------------------------------------------------------------------------------
(* _close_connection.                                                       *)

\* Fault: the receive task is awaited and not cancelled.
CloseAOnlyAwaits(t) ==
  /\ Runs(t, "closeA")
  /\ connected' = FALSE
  /\ overlap' = (overlap \/ \E u \in Tasks \ {t} : Busy(u))
  /\ IF recvTask # None /\ pc[recvTask] # "done"
     THEN Await(t, "joinRecv", recvTask)
     ELSE Go(t, "closeB")
  /\ UNCHANGED <<cancelled, flags, ends, recvTask, sock>>

\* Fault: _connected is left to _on_connection_lost.
CloseAKeepsConnected(t) ==
  /\ Runs(t, "closeA")
  /\ overlap' = (overlap \/ \E u \in Tasks \ {t} : Busy(u))
  /\ IF recvTask # None /\ pc[recvTask] # "done"
     THEN /\ IF recvTask = t THEN UNCHANGED cancelled ELSE CancelTask(recvTask)
          /\ Await(t, "joinRecv", recvTask)
     ELSE Go(t, "closeB") /\ UNCHANGED cancelled
  /\ UNCHANGED <<connected, flags, ends, recvTask, sock>>

\* Cancel the receive task and wait for it; a task that awaits itself is given its
\* own CancelledError at the next turn.
CloseA(t) ==
  /\ Runs(t, "closeA")
  /\ connected' = FALSE
  /\ overlap' = (overlap \/ \E u \in Tasks \ {t} : Busy(u))
  /\ IF recvTask # None /\ pc[recvTask] # "done"
     THEN /\ IF recvTask = t THEN UNCHANGED cancelled ELSE CancelTask(recvTask)
          /\ Await(t, "joinRecv", recvTask)
     ELSE Go(t, "closeB") /\ UNCHANGED cancelled
  /\ UNCHANGED <<flags, ends, recvTask, sock>>

\* Whatever the await raises is swallowed.
JoinedRecv(t) ==
  /\ running = None /\ pc[t] = "joinRecv" /\ Ready(t)
  /\ recvTask' = None
  /\ Wake(t, "closeB")
  /\ UNCHANGED <<cancelled, connected, flags, ends, sock, overlap>>

\* wait_closed returns at once when the transport is closed already.
CloseB(t) ==
  /\ Runs(t, "closeB")
  /\ CASE writer = None           -> Go(t, "closeC") /\ UNCHANGED <<writer, sock>>
       [] writer # None /\ sock[writer] = "closed"
                                  -> Go(t, "closeC") /\ writer' = None /\ UNCHANGED sock
       [] OTHER                   -> /\ sock' = [sock EXCEPT ![writer] = "closing"]
                                     /\ Await(t, "joinWriter", writer)
                                     /\ UNCHANGED writer
  /\ UNCHANGED <<cancelled, connected, flags, reader, recvTask, overlap>>

\* Fault: the writer that was closed stays set.
JoinedWriterKept(t) ==
  /\ Resumes(t, "joinWriter")
  /\ Wake(t, "closeC")
  /\ UNCHANGED <<cancelled, connected, flags, ends, recvTask, sock, overlap>>

JoinedWriter(t) ==
  /\ Resumes(t, "joinWriter")
  /\ writer' = None
  /\ Wake(t, "closeC")
  /\ UNCHANGED <<cancelled, connected, flags, reader, recvTask, sock, overlap>>

\* The caller goes on: _on_connection_lost to open, disconnect() to stop the tasks.
CloseC(t) ==
  /\ Runs(t, "closeC")
  /\ reader' = None
  /\ Go(t, IF t = User THEN "stopHeartbeat" ELSE "open")
  /\ UNCHANGED <<cancelled, connected, flags, writer, recvTask, sock, overlap>>

--------------------------------------------------------------------------------
(* _on_connection_lost.                                                     *)

\* Fault: a receive task that saw the end of the stream does not reconnect.
LostOnly(t) ==
  /\ Runs(t, "lost")
  /\ connected' = FALSE
  /\ IF reconnect /\ ~stop /\ t = Heartbeat
     THEN Go(t, "closeA")
     ELSE IF t = Heartbeat THEN Go(t, "loop") ELSE Await(t, "done", None)
  /\ UNCHANGED <<cancelled, flags, ends, recvTask, sock, overlap>>

Lost(t) ==
  /\ Runs(t, "lost")
  /\ connected' = FALSE
  /\ IF reconnect /\ ~stop
     THEN Go(t, "closeA")
     ELSE IF t = Heartbeat THEN Go(t, "loop") ELSE Await(t, "done", None)
  /\ UNCHANGED <<cancelled, flags, ends, recvTask, sock, overlap>>

--------------------------------------------------------------------------------
(* _recv_loop.                                                              *)

\* It reads self._reader afresh each time round.  Without a reader (AttributeError)
\* or with a reader another task waits on (RuntimeError) the task dies.
ReadTop(r) ==
  /\ Resumes(r, "top")
  /\ IF reader = None \/ \E u \in Conns : pc[u] = "read" /\ arg[u] = reader
     THEN Await(r, "done", None)
     ELSE Await(r, "read", reader)
  /\ UNCHANGED <<cancelled, connected, flags, ends, recvTask, sock, overlap>>

\* Bytes arrive.  They hold the pong, or only frames of the mower.
Receive(r) ==
  /\ running = None /\ pc[r] = "read" /\ r \notin cancelled /\ sock[arg[r]] = "open"
  /\ \/ /\ pc[Heartbeat] = "pong" /\ arg[Heartbeat] = arg[r] /\ Heartbeat \notin cancelled
        /\ pc' = [pc EXCEPT ![r] = "top", ![Heartbeat] = "loop"]
        /\ arg' = [arg EXCEPT ![r] = None, ![Heartbeat] = None]
        /\ running' = Heartbeat
     \/ Await(r, "top", None)
  /\ UNCHANGED <<cancelled, connected, flags, ends, recvTask, sock, overlap>>

\* End of the stream: the peer closed, or the transport was closed on this side.
EndOfStream(r) ==
  /\ Resumes(r, "read")
  /\ Wake(r, "lost")
  /\ UNCHANGED <<cancelled, connected, flags, ends, recvTask, sock, overlap>>

--------------------------------------------------------------------------------
(* _heartbeat_loop.                                                         *)

Loop ==
  /\ Runs(Heartbeat, "loop")
  /\ IF stop THEN Await(Heartbeat, "done", None) ELSE Await(Heartbeat, "sleep", None)
  /\ UNCHANGED <<cancelled, connected, flags, ends, recvTask, sock, overlap>>

\* The interval is over: a ping goes out when there is a connection to send it on.
Ping ==
  /\ Resumes(Heartbeat, "sleep")
  /\ IF connected /\ writer # None
     THEN Await(Heartbeat, "pong", writer)
     ELSE Go(Heartbeat, "loop")
  /\ UNCHANGED <<cancelled, connected, flags, ends, recvTask, sock, overlap>>

\* No pong in time, whatever became of the connection the ping was sent on.
PongTimeout ==
  /\ Resumes(Heartbeat, "pong")
  /\ Wake(Heartbeat, "lost")
  /\ UNCHANGED <<cancelled, connected, flags, ends, recvTask, sock, overlap>>

--------------------------------------------------------------------------------
(* connect() and disconnect().                                              *)

Connect ==
  /\ running = None /\ pc[User] = "off"
  /\ stop' = FALSE
  /\ overlap' = (overlap \/ \E u \in Tasks \ {User} : Busy(u))
  /\ Go(User, "open")
  /\ UNCHANGED <<cancelled, connected, reconnect, ends, recvTask, sock>>

Disconnect ==
  /\ running = None /\ pc[User] = "on"
  /\ stop' = TRUE /\ reconnect' = FALSE
  /\ Go(User, "closeA")
  /\ UNCHANGED <<cancelled, connected, ends, recvTask, sock, overlap>>

\* Fault: the loop names the heartbeat twice.
StopHeartbeatTwice ==
  /\ Runs(User, "stopHeartbeat")
  /\ IF pc[Heartbeat] # "done"
     THEN CancelTask(Heartbeat) /\ Await(User, "joinHeartbeat", Heartbeat)
     ELSE Await(User, "off", None) /\ UNCHANGED cancelled
  /\ UNCHANGED <<connected, flags, ends, recvTask, sock, overlap>>

\* The loop over the two tasks; both are looked up before the first is awaited.
StopHeartbeat ==
  /\ Runs(User, "stopHeartbeat")
  /\ IF pc[Heartbeat] # "done"
     THEN CancelTask(Heartbeat) /\ Await(User, "joinHeartbeat", recvTask)
     ELSE /\ pc' = [pc EXCEPT ![User] = "stopRecv"] /\ running' = User
          /\ arg' = [arg EXCEPT ![User] = recvTask]
          /\ UNCHANGED cancelled
  /\ UNCHANGED <<connected, flags, ends, recvTask, sock, overlap>>

JoinedHeartbeat ==
  /\ Resumes(User, "joinHeartbeat")
  /\ Go(User, "stopRecv")
  /\ UNCHANGED <<cancelled, connected, flags, ends, recvTask, sock, overlap>>

StopRecv ==
  /\ Runs(User, "stopRecv")
  /\ IF arg[User] # None /\ pc[arg[User]] # "done"
     THEN CancelTask(arg[User]) /\ Await(User, "joinLast", arg[User]) /\ UNCHANGED recvTask
     ELSE Await(User, "off", None) /\ recvTask' = None /\ UNCHANGED cancelled
  /\ UNCHANGED <<connected, flags, ends, sock, overlap>>

JoinedLast ==
  /\ Resumes(User, "joinLast")
  /\ Await(User, "off", None)
  /\ recvTask' = None
  /\ UNCHANGED <<cancelled, connected, flags, ends, sock, overlap>>

--------------------------------------------------------------------------------
(* The transports.                                                          *)

\* The bridge closes, reboots, or the network breaks the connection.
PeerCloses(k) ==
  /\ running = None /\ sock[k] = "open"
  /\ sock' = [sock EXCEPT ![k] = "eof"]
  /\ UNCHANGED <<running, pc, arg, cancelled, connected, flags, ends, recvTask, overlap>>

\* connection_lost is called a turn after close(): it ends the stream of the reader
\* and wakes wait_closed.
TransportClosed(k) ==
  /\ running = None /\ sock[k] = "closing"
  /\ sock' = [sock EXCEPT ![k] = "closed"]
  /\ UNCHANGED <<running, pc, arg, cancelled, connected, flags, ends, recvTask, overlap>>

\* A writer nothing refers to any more is collected, which closes its transport
\* (StreamWriter.__del__, not in every version of Python the package allows).
Collected(k) ==
  /\ running = None /\ sock[k] \in {"open", "eof"} /\ writer # k
  /\ sock' = [sock EXCEPT ![k] = "closing"]
  /\ UNCHANGED <<running, pc, arg, cancelled, connected, flags, ends, recvTask, overlap>>

--------------------------------------------------------------------------------

Init ==
  /\ running = None
  /\ pc = [t \in Tasks |-> IF t = User THEN "off" ELSE "done"]
  /\ arg = [t \in Tasks |-> None]
  /\ cancelled = {}
  /\ connected = FALSE /\ stop = FALSE /\ reconnect = AutoReconnect
  /\ writer = None /\ reader = None /\ recvTask = None
  /\ sock = [k \in Conns |-> "none"]
  /\ overlap = FALSE

\* The steps of each task.
Step(t) ==
  \/ Die(t)
  \/ OpenTop(t) \/ Opened(t) \/ Refused(t) \/ BackedOff(t) \/ OpenReturns(t)
  \/ CloseA(t) \/ JoinedRecv(t) \/ CloseB(t) \/ JoinedWriter(t) \/ CloseC(t)
  \/ Lost(t)
  \/ t \in Conns /\ (ReadTop(t) \/ EndOfStream(t))
  \/ t = Heartbeat /\ (Loop \/ Ping \/ PongTimeout)
  \/ t = User /\ (StopHeartbeat \/ JoinedHeartbeat \/ StopRecv \/ JoinedLast)

Next ==
  \/ \E t \in Tasks : Step(t)
  \/ \E r \in Conns : Receive(r)
  \/ Connect \/ Disconnect
  \/ \E k \in Conns : PeerCloses(k) \/ TransportClosed(k) \/ Collected(k)

Spec == Init /\ [][Next]_vars

\* The event loop owes t a turn, whichever task runs at the moment.
Due(t) ==
  \/ t \in cancelled
  \/ Ready(t) /\ (pc[t] = "connecting" => Settled /\ \E k \in Conns : Free(k))

\* A task that runs gets to its next await; a task that is due gets a turn.  (Weak
\* fairness of Step(t) would not do: while another task runs, Step(t) is disabled.)
Fairness ==
  /\ WF_vars(\E t \in Tasks : running = t /\ Step(t))
  /\ \A t \in Tasks : []<>~Due(t) \/ []<><<Step(t)>>_vars
  /\ \A k \in Conns : []<>(sock[k] # "closing") \/ []<><<TransportClosed(k)>>_vars

FairSpec == Spec /\ Fairness

--------------------------------------------------------------------------------
(* Properties.                                                              *)

\* As long as no two tasks closed or opened the connection at the same time, the
\* object is coherent: connected means that writer, reader and receive task are of
\* one connection whose transport was not closed here, and no other is open.
CoherentUnlessOverlap ==
  ~overlap =>
    /\ connected => /\ writer # None /\ reader = writer /\ recvTask = writer
                    /\ sock[writer] \in {"open", "eof"}
    /\ Cardinality({k \in Conns : sock[k] \in {"open", "eof"}}) <= 1

\* What the calls of Mower see of the connection, and the steps they are promised.
LinkOf == IF connected THEN "up" ELSE IF writer # None THEN "closing" ELSE "down"

L == INSTANCE Link WITH link <- LinkOf

\* Under the same condition MowerClient's link is implemented: a connection is lost
\* before its writer is forgotten, and none is made while an old writer is set.
ImplementsLink == L!LinkInit /\ [][overlap' \/ L!LinkNext]_LinkOf

\* From some time on the bridge refuses no attempt, and the model does not run out
\* of connection numbers.
BridgeUp == <>[](\A t \in Tasks : pc[t] # "backoff") /\ []<>(\E k \in Conns : Free(k))

Usable == connected /\ writer # None /\ sock[writer] = "open"

\* A lost connection is reopened, as long as nobody disconnects: no order of
\* end-of-stream, missed pongs, concurrent reconnects and failed attempts leaves the
\* client without a connection it can write to, whatever _connected says meanwhile.
Recovers == BridgeUp => (pc[User] = "on" /\ reconnect /\ ~Usable ~> Usable \/ stop)

\* disconnect() returns: the tasks it waits for do not wait for it or for each other.
DisconnectReturns == stop ~> pc[User] = "off"

\* "Close the TCP connection and stop background tasks." (src/pyam3/client.py:420)
StoppedAfterDisconnect ==
  pc[User] = "off" => ~connected /\ \A k \in Conns : sock[k] # "open"
================================================================================
