-------------------------------- MODULE TransportProofs ------------------------
(****************************************************************************)
(* Machine-checked proofs about the two transports of Mower: WifiSession,   *)
(* for any number of connections, and after it the serial one of UartMower, *)
(* which has variables of its own.  Of each: the types and the coherence of *)
(* the attributes; of the first, that its tasks implement the link          *)
(* MowerClient is written against; of the second, that a loss takes its     *)
(* own calls.                                                               *)
(*                                                                          *)
(* Coherence is not inductive.  It rests on one task at a time being past   *)
(* the head of _close_connection, on that task having reset _connected and  *)
(* on the writer being forgotten before a new connection is opened, and on  *)
(* nobody reconnecting once disconnect() has begun.                         *)
(****************************************************************************)
EXTENDS WifiSession, UartMower, FiniteSetTheorems, TLAPS

\* Awaits of the second half of disconnect(), and what follows it.
StopPhase == {"stopHeartbeat", "joinHeartbeat", "stopRecv", "joinLast", "off"}

\* Task t is past the head of _close_connection or within _open_connection.
Active(t) == pc[t] \in (Closing \cup Opening) \ {"closeA"}

\* A task that waits for a connection or its task waits for one; only the task that
\* runs is at the head of _close_connection or at the end of _open_connection; the
\* caller of connect() runs neither of the loops.
Places ==
  /\ \A t \in Tasks : pc[t] \in {"joinRecv", "read", "joinWriter"} => arg[t] \in Conns
  /\ \A t \in Tasks : pc[t] \in {"closeA", "opened"} => running = t
  /\ pc[User] \notin {"lost", "loop", "top", "sleep", "pong", "read"}

Exclusive == \A t, u \in Tasks : Active(t) /\ Active(u) => t = u

\* The active task has reset _connected, and forgotten the writer when it opens.
Unconnected ==
  \A t \in Tasks :
    /\ Active(t) /\ pc[t] # "opened" => ~connected
    /\ pc[t] \in {"closeC", "open", "connecting", "backoff"} => writer = None
    /\ pc[t] = "joinWriter" => arg[t] = writer

OneOpen == \A k \in Conns : sock[k] \in {"open", "eof"} => writer = k

\* Once disconnect() has begun nobody else goes to close or open the connection.
Stopping ==
  /\ pc[User] \in StopPhase => ~connected /\ writer = None /\ \A t \in Tasks : ~Active(t)
  /\ pc[User] \in StopPhase \cup Closing
       => stop \/ \A t \in Tasks \ {User} : pc[t] = "done"
  /\ \A t \in Tasks \ {User} : pc[t] = "closeA" => ~stop

Connected == connected => /\ writer # None /\ reader = writer /\ recvTask = writer
                          /\ sock[writer] \in {"open", "eof"}

Alone == Exclusive /\ Unconnected /\ OneOpen /\ Stopping /\ Connected

IInv == TypeOK /\ Places /\ (~overlap => Alone)

--------------------------------------------------------------------------------
(* Types and places.                                                        *)

\* Initially no task runs and no connection is there.
LEMMA InitInv == Init => IInv
  BY TasksAssumption DEF Init, IInv, TypeOK, Places, Alone, Exclusive, Unconnected, OneOpen,
     Stopping, Connected, Active, StopPhase, Tasks, Closing, Opening, flags, ends

\* Whom a cancellation reaches is a task.
LEMMA ReachedIsTask ==
  ASSUME TypeOK, Places, NEW t \in Tasks PROVE Reached(t) \in Tasks
<1>1. ASSUME NEW u \in Tasks PROVE PassOn(u) \in Tasks
  BY <1>1 DEF PassOn, Places, Tasks
<1> QED
  BY <1>1 DEF Reached

USE DEF Closing, Opening

\* The steps of _open_connection.
LEMMA TypeOpen ==
  ASSUME TypeOK, Places, NEW t \in Tasks,
         OpenTop(t) \/ Opened(t) \/ Refused(t) \/ BackedOff(t) \/ OpenReturns(t)
  PROVE  TypeOK' /\ Places'
<1>1. CASE OpenTop(t)
  BY <1>1, TasksAssumption DEF OpenTop, Runs, Go, Await, flags, ends, TypeOK, Places, Tasks
<1>2. CASE Opened(t)
  BY <1>2, TasksAssumption DEF Opened, Resumes, Free, flags, TypeOK, Places, Tasks
<1>3. CASE Refused(t)
  BY <1>3, TasksAssumption DEF Refused, Resumes, Await, flags, ends, TypeOK, Places, Tasks
<1>4. CASE BackedOff(t)
  BY <1>4, TasksAssumption DEF BackedOff, Resumes, Wake, flags, ends, TypeOK, Places, Tasks
<1>5. CASE OpenReturns(t)
  BY <1>5, TasksAssumption DEF OpenReturns, Runs, flags, ends, TypeOK, Places, Tasks
<1> QED
  BY <1>1, <1>2, <1>3, <1>4, <1>5

\* The steps of _close_connection.
LEMMA TypeClose ==
  ASSUME TypeOK, Places, NEW t \in Tasks,
         CloseA(t) \/ JoinedRecv(t) \/ CloseB(t) \/ JoinedWriter(t) \/ CloseC(t)
  PROVE  TypeOK' /\ Places'
<1>1. CASE CloseA(t)
  <2>1. cancelled' \in SUBSET Tasks
    BY <1>1, ReachedIsTask DEF CloseA, CancelTask, TypeOK, Tasks
  <2>2. overlap' \in BOOLEAN
    BY <1>1 DEF CloseA
  <2>3. CASE recvTask # None /\ pc[recvTask] # "done"
    <3>1. Await(t, "joinRecv", recvTask) /\ recvTask \in Conns
      BY <1>1, <2>3 DEF CloseA, TypeOK
    <3> QED
      BY <1>1, <2>1, <2>2, <3>1, TasksAssumption DEF CloseA, Runs, Await, flags, ends, TypeOK,
         Places, Tasks
  <2>4. CASE ~(recvTask # None /\ pc[recvTask] # "done")
    <3>1. Go(t, "closeB")
      BY <1>1, <2>4 DEF CloseA
    <3> QED
      BY <1>1, <2>1, <2>2, <3>1, TasksAssumption DEF CloseA, Runs, Go, flags, ends, TypeOK,
         Places, Tasks
  <2> QED
    BY <2>3, <2>4
<1>2. CASE JoinedRecv(t)
  BY <1>2, TasksAssumption DEF JoinedRecv, Wake, flags, ends, TypeOK, Places, Tasks
<1>3. CASE CloseB(t)
  BY <1>3, TasksAssumption DEF CloseB, Runs, Go, Await, flags, TypeOK, Places, Tasks
<1>4. CASE JoinedWriter(t)
  BY <1>4, TasksAssumption DEF JoinedWriter, Resumes, Wake, flags, TypeOK, Places, Tasks
<1>5. CASE CloseC(t)
  BY <1>5, TasksAssumption DEF CloseC, Runs, Go, flags, TypeOK, Places, Tasks
<1> QED
  BY <1>1, <1>2, <1>3, <1>4, <1>5

\* The steps of the receive and the heartbeat loop, and what ends a task.
LEMMA TypeLoops ==
  ASSUME TypeOK, Places,
         \/ \E t \in Tasks : Die(t) \/ Lost(t)
         \/ \E r \in Conns : ReadTop(r) \/ Receive(r) \/ EndOfStream(r)
         \/ Loop \/ Ping \/ PongTimeout
  PROVE  TypeOK' /\ Places'
<1>1. ASSUME NEW t \in Tasks, Die(t) PROVE TypeOK' /\ Places'
  BY <1>1, TasksAssumption DEF Die, flags, ends, TypeOK, Places, Tasks
<1>2. ASSUME NEW t \in Tasks, Lost(t) PROVE TypeOK' /\ Places'
  <2>1. t # User
    BY <1>2 DEF Lost, Runs, Places
  <2>2. Go(t, "closeA") \/ Go(t, "loop") \/ Await(t, "done", None)
    BY <1>2 DEF Lost
  <2>3. CASE Go(t, "closeA") \/ Go(t, "loop")
    <3>1. TypeOK'
      BY <1>2, <2>1, <2>3 DEF Lost, Runs, Go, flags, ends, TypeOK
    <3>2. \A u \in Tasks : u # t => pc'[u] = pc[u] /\ pc[u] \notin {"closeA", "opened"}
      BY <1>2, <2>3 DEF Lost, Runs, Go, TypeOK, Places
    <3>3. pc'[t] \in {"closeA", "loop"} /\ running' = t /\ arg' = arg
      BY <1>2, <2>3 DEF Go, TypeOK
    <3> QED
      BY <2>1, <3>1, <3>2, <3>3 DEF Places, Tasks
  <2>4. CASE Await(t, "done", None)
    BY <1>2, <2>1, <2>4, TasksAssumption DEF Lost, Runs, Await, flags, ends, TypeOK, Places, Tasks
  <2> QED
    BY <2>2, <2>3, <2>4
<1>3. ASSUME NEW r \in Conns, ReadTop(r) PROVE TypeOK' /\ Places'
  BY <1>3, TasksAssumption DEF ReadTop, Resumes, Await, flags, ends, TypeOK, Places, Tasks
<1>4. ASSUME NEW r \in Conns, Receive(r) PROVE TypeOK' /\ Places'
  BY <1>4, TasksAssumption DEF Receive, Await, flags, ends, TypeOK, Places, Tasks
<1>5. ASSUME NEW r \in Conns, EndOfStream(r) PROVE TypeOK' /\ Places'
  BY <1>5, TasksAssumption DEF EndOfStream, Resumes, Wake, flags, ends, TypeOK, Places, Tasks
<1>6. CASE Loop \/ Ping \/ PongTimeout
  BY <1>6, TasksAssumption DEF Loop, Ping, PongTimeout, Runs, Resumes, Go, Await, Wake, flags,
     ends, TypeOK, Places, Tasks
<1> QED
  BY <1>1, <1>2, <1>3, <1>4, <1>5, <1>6

\* The steps of connect() and disconnect().
LEMMA TypeUser ==
  ASSUME TypeOK, Places,
         Connect \/ Disconnect \/ StopHeartbeat \/ JoinedHeartbeat \/ StopRecv \/ JoinedLast
  PROVE  TypeOK' /\ Places'
<1>1. CASE Disconnect \/ JoinedHeartbeat
  <2>1. TypeOK'
    BY <1>1 DEF Disconnect, JoinedHeartbeat, Resumes, Go, flags, ends, TypeOK, Tasks
  <2>2. \A u \in Tasks : u # User => pc'[u] = pc[u] /\ pc[u] \notin {"closeA", "opened"}
    BY <1>1, TasksAssumption DEF Disconnect, JoinedHeartbeat, Resumes, Go, TypeOK, Places, Tasks
  <2>3. pc'[User] \in {"closeA", "stopRecv"} /\ running' = User /\ arg' = arg
    BY <1>1 DEF Disconnect, JoinedHeartbeat, Go, TypeOK, Tasks
  <2> QED
    BY <2>1, <2>2, <2>3 DEF Places, Tasks
<1>5. CASE JoinedLast
  BY <1>5, TasksAssumption DEF JoinedLast, Resumes, Await, flags, ends, TypeOK, Places, Tasks
<1>4. CASE Connect
  <2>1. overlap' \in BOOLEAN
    BY <1>4 DEF Connect
  <2> QED
    BY <1>4, <2>1, TasksAssumption DEF Connect, Go, flags, ends, TypeOK, Places, Tasks
<1>2. CASE StopHeartbeat
  <2>1. cancelled' \in SUBSET Tasks
    BY <1>2, ReachedIsTask DEF StopHeartbeat, CancelTask, TypeOK, Tasks
  <2> QED
    BY <1>2, <2>1, TasksAssumption DEF StopHeartbeat, Runs, Go, Await, flags, ends, TypeOK,
       Places, Tasks
<1>3. CASE StopRecv
  <2>1. cancelled' \in SUBSET Tasks
    <3>1. arg[User] \in Conns \cup {None}
      BY DEF TypeOK, Tasks
    <3> QED
      BY <1>3, <3>1, ReachedIsTask DEF StopRecv, CancelTask, TypeOK, Tasks
  <2> QED
    BY <1>3, <2>1, TasksAssumption DEF StopRecv, Runs, Await, flags, ends, TypeOK, Places, Tasks
<1> QED
  BY <1>1, <1>2, <1>3, <1>4, <1>5

\* What happens to the transports.
LEMMA TypeSock ==
  ASSUME TypeOK, Places, NEW k \in Conns, PeerCloses(k) \/ TransportClosed(k) \/ Collected(k)
  PROVE  TypeOK' /\ Places'
  BY DEF PeerCloses, TransportClosed, Collected, flags, ends, TypeOK, Places, Tasks

\* Every step keeps types and places.
LEMMA TypeStep == TypeOK /\ Places /\ [Next]_vars => TypeOK' /\ Places'
<1>1. ASSUME TypeOK, Places, Next PROVE TypeOK' /\ Places'
  BY <1>1, TypeOpen, TypeClose, TypeLoops, TypeUser, TypeSock DEF Next, Step
<1>2. ASSUME TypeOK, Places, UNCHANGED vars PROVE TypeOK' /\ Places'
  BY <1>2 DEF vars, flags, ends, TypeOK, Places
<1> QED
  BY <1>1, <1>2

--------------------------------------------------------------------------------
(* Coherence, as long as closing and opening do not overlap.                *)

USE DEF Alone, Exclusive, Unconnected, OneOpen, Stopping, Connected, Active, StopPhase

\* A new connection is opened by the only active task, when no other is open.
LEMMA AloneOpen ==
  ASSUME TypeOK, Places, Alone, NEW t \in Tasks,
         OpenTop(t) \/ Opened(t) \/ Refused(t) \/ BackedOff(t) \/ OpenReturns(t)
  PROVE  Alone'
<1>1. CASE OpenTop(t)
  BY <1>1, TasksAssumption DEF OpenTop, Runs, Go, Await, flags, ends, TypeOK, Places, Tasks
<1>2. CASE Opened(t)
  BY <1>2, TasksAssumption DEF Opened, Resumes, Free, flags, TypeOK, Places, Tasks
<1>3. CASE Refused(t)
  BY <1>3, TasksAssumption DEF Refused, Resumes, Await, flags, ends, TypeOK, Places, Tasks
<1>4. CASE BackedOff(t)
  BY <1>4, TasksAssumption DEF BackedOff, Resumes, Wake, flags, ends, TypeOK, Places, Tasks
<1>5. CASE OpenReturns(t)
  BY <1>5, TasksAssumption DEF OpenReturns, Runs, flags, ends, TypeOK, Places, Tasks
<1> QED
  BY <1>1, <1>2, <1>3, <1>4, <1>5

\* A task that closes is alone when it begins, and closes the connection of the writer.
LEMMA AloneClose ==
  ASSUME TypeOK, Places, Alone, ~overlap', NEW t \in Tasks,
         CloseA(t) \/ JoinedRecv(t) \/ CloseB(t) \/ JoinedWriter(t) \/ CloseC(t)
  PROVE  Alone'
<1>1. CASE CloseA(t)
  <2>1. \A u \in Tasks \ {t} : ~Active(u) /\ pc'[u] = pc[u]
    BY <1>1 DEF CloseA, Busy, Go, Await, TypeOK
  <2>2. pc'[t] \in {"joinRecv", "closeB"} /\ ~connected'
    BY <1>1 DEF CloseA, Go, Await, TypeOK
  <2>3. UNCHANGED <<flags, ends, recvTask, sock>>
    BY <1>1 DEF CloseA
  <2>4. pc[User] \notin StopPhase
    BY <1>1, TasksAssumption DEF CloseA, Runs, Tasks
  <2> QED
    BY <1>1, <2>1, <2>2, <2>3, <2>4 DEF CloseA, Runs, flags, ends, TypeOK, Places, Tasks
<1>2. CASE JoinedRecv(t)
  BY <1>2, TasksAssumption DEF JoinedRecv, Wake, flags, ends, TypeOK, Places, Tasks
<1>3. CASE CloseB(t)
  BY <1>3, TasksAssumption DEF CloseB, Runs, Go, Await, flags, TypeOK, Places, Tasks
<1>4. CASE JoinedWriter(t)
  <2>1. arg[t] = writer /\ arg[t] \in Conns /\ sock[writer] = "closed"
    BY <1>4 DEF JoinedWriter, Resumes, Ready, Places
  <2> QED
    BY <1>4, <2>1, TasksAssumption DEF JoinedWriter, Resumes, Wake, flags, TypeOK, Places, Tasks
<1>5. CASE CloseC(t)
  BY <1>5, TasksAssumption DEF CloseC, Runs, Go, flags, TypeOK, Places, Tasks
<1> QED
  BY <1>1, <1>2, <1>3, <1>4, <1>5

\* The loops touch the connection only by _on_connection_lost, which resets _connected.
LEMMA AloneLoops ==
  ASSUME TypeOK, Places, Alone,
         \/ \E t \in Tasks : Die(t) \/ Lost(t)
         \/ \E r \in Conns : ReadTop(r) \/ Receive(r) \/ EndOfStream(r)
         \/ Loop \/ Ping \/ PongTimeout
  PROVE  Alone'
<1>1. ASSUME NEW t \in Tasks, Die(t) PROVE Alone'
  BY <1>1, TasksAssumption DEF Die, flags, ends, TypeOK, Places, Tasks
<1>2. ASSUME NEW t \in Tasks, Lost(t) PROVE Alone'
  BY <1>2, TasksAssumption DEF Lost, Runs, Go, Await, flags, ends, TypeOK, Places, Tasks
<1>3. ASSUME NEW r \in Conns, ReadTop(r) PROVE Alone'
  BY <1>3, TasksAssumption DEF ReadTop, Resumes, Await, flags, ends, TypeOK, Places, Tasks
<1>4. ASSUME NEW r \in Conns, Receive(r) PROVE Alone'
  BY <1>4, TasksAssumption DEF Receive, Await, flags, ends, TypeOK, Places, Tasks
<1>5. ASSUME NEW r \in Conns, EndOfStream(r) PROVE Alone'
  BY <1>5, TasksAssumption DEF EndOfStream, Resumes, Wake, flags, ends, TypeOK, Places, Tasks
<1>6. CASE Loop
  BY <1>6, TasksAssumption DEF Loop, Runs, Await, flags, ends, TypeOK, Places, Tasks
<1>7. CASE Ping
  BY <1>7, TasksAssumption DEF Ping, Resumes, Go, Await, flags, ends, TypeOK, Places, Tasks
<1>8. CASE PongTimeout
  BY <1>8, TasksAssumption DEF PongTimeout, Resumes, Wake, flags, ends, TypeOK, Places, Tasks
<1> QED
  BY <1>1, <1>2, <1>3, <1>4, <1>5, <1>6, <1>7, <1>8

\* connect() begins, and disconnect() ends, with no connection and nobody active.
LEMMA AloneUser ==
  ASSUME TypeOK, Places, Alone, ~overlap',
         Connect \/ Disconnect \/ StopHeartbeat \/ JoinedHeartbeat \/ StopRecv \/ JoinedLast
  PROVE  Alone'
<1>1. CASE Connect
  BY <1>1, TasksAssumption DEF Connect, Busy, Go, flags, ends, TypeOK, Places, Tasks
<1>2. CASE Disconnect
  BY <1>2, TasksAssumption DEF Disconnect, Go, flags, ends, TypeOK, Places, Tasks
<1>3. CASE StopHeartbeat
  BY <1>3, TasksAssumption DEF StopHeartbeat, Runs, Await, flags, ends, TypeOK, Places, Tasks
<1>4. CASE JoinedHeartbeat
  BY <1>4, TasksAssumption DEF JoinedHeartbeat, Resumes, Go, flags, ends, TypeOK, Places, Tasks
<1>5. CASE StopRecv
  BY <1>5, TasksAssumption DEF StopRecv, Runs, Await, flags, ends, TypeOK, Places, Tasks
<1>6. CASE JoinedLast
  BY <1>6, TasksAssumption DEF JoinedLast, Resumes, Await, flags, ends, TypeOK, Places, Tasks
<1> QED
  BY <1>1, <1>2, <1>3, <1>4, <1>5, <1>6

\* No transport opens by itself, and the one of the writer stays open or at its end.
LEMMA AloneSock ==
  ASSUME TypeOK, Places, Alone, NEW k \in Conns,
         PeerCloses(k) \/ TransportClosed(k) \/ Collected(k)
  PROVE  Alone'
<1>1. CASE PeerCloses(k)
  BY <1>1 DEF PeerCloses, flags, ends, TypeOK, Tasks
<1>2. CASE TransportClosed(k)
  BY <1>2 DEF TransportClosed, flags, ends, TypeOK, Tasks
<1>3. CASE Collected(k)
  BY <1>3 DEF Collected, flags, ends, TypeOK, Tasks
<1> QED
  BY <1>1, <1>2, <1>3

\* The history never forgets an overlap.
LEMMA OverlapStays == ASSUME Next, overlap PROVE overlap'
  BY DEF Next, Step, OpenTop, Opened, Refused, BackedOff, OpenReturns, CloseA, JoinedRecv, CloseB,
     JoinedWriter, CloseC, Die, Lost, ReadTop, Receive, EndOfStream, Loop, Ping, PongTimeout,
     Connect, Disconnect, StopHeartbeat, JoinedHeartbeat, StopRecv, JoinedLast, PeerCloses,
     TransportClosed, Collected

\* Every step keeps the inductive invariant.
LEMMA NextInv == IInv /\ [Next]_vars => IInv'
<1>1. ASSUME IInv, Next, ~overlap' PROVE Alone'
  <2>1. TypeOK /\ Places /\ Alone
    BY <1>1, OverlapStays DEF IInv
  <2> QED
    BY <1>1, <2>1, AloneOpen, AloneClose, AloneLoops, AloneUser, AloneSock DEF Next, Step
<1>2. ASSUME IInv, UNCHANGED vars, ~overlap' PROVE Alone'
  BY <1>2 DEF IInv, vars, flags, ends
<1> QED
  BY <1>1, <1>2, TypeStep DEF IInv

\* The inductive invariant holds in every reachable state.
THEOREM Invariance == Spec => []IInv
  BY InitInv, NextInv, PTL DEF Spec

\* Every attribute refers to one connection or to none, and a task is suspended only
\* where the code has an await.
THEOREM TypeCorrect == Spec => []TypeOK
<1>1. IInv => TypeOK
  BY DEF IInv
<1> QED
  BY <1>1, Invariance, PTL

\* While no two tasks close or open at the same time, connected means a writer, a reader
\* and a receive task of one connection that is open, and there is no other.
THEOREM Coherence == Spec => []CoherentUnlessOverlap
<1>1. ASSUME IInv, ~overlap PROVE Cardinality({k \in Conns : sock[k] \in {"open", "eof"}}) <= 1
  <2> DEFINE S == {k \in Conns : sock[k] \in {"open", "eof"}}
  <2>1. S = {} \/ S = {writer}
    BY <1>1 DEF IInv
  <2>2. Cardinality({}) = 0 /\ Cardinality({writer}) = 1
    BY FS_EmptySet, FS_Singleton
  <2> QED
    BY <2>1, <2>2
<1>2. IInv => CoherentUnlessOverlap
  BY <1>1 DEF IInv, CoherentUnlessOverlap
<1> QED
  BY <1>2, Invariance, PTL

--------------------------------------------------------------------------------
(* The link of MowerClient.                                                 *)

\* A step that sets or resets _connected or _writer is one of the link's three.
LEMMA LinkStep ==
  ASSUME IInv, Next, ~overlap' PROVE L!LinkNext \/ UNCHANGED LinkOf
<1>0. TypeOK /\ Places /\ Alone
  BY OverlapStays DEF IInv
<1>1. ASSUME NEW t \in Tasks, Opened(t) PROVE L!Reopen
  BY <1>0, <1>1, TasksAssumption DEF Opened, Resumes, Free, L!Reopen, LinkOf, TypeOK, Tasks
<1>2. ASSUME NEW t \in Tasks, CloseA(t) \/ Lost(t) PROVE L!Lose \/ UNCHANGED LinkOf
  BY <1>0, <1>2 DEF CloseA, Lost, ends, L!Lose, LinkOf
<1>3. ASSUME NEW t \in Tasks, CloseB(t) PROVE L!CloseWriter \/ UNCHANGED LinkOf
  BY <1>0, <1>3, TasksAssumption DEF CloseB, Runs, L!CloseWriter, LinkOf, TypeOK, Tasks
<1>4. ASSUME NEW t \in Tasks, JoinedWriter(t) PROVE L!CloseWriter \/ UNCHANGED LinkOf
  BY <1>0, <1>4, TasksAssumption DEF JoinedWriter, Resumes, L!CloseWriter, LinkOf, TypeOK, Tasks
<1>5. ASSUME NEW t \in Tasks, Step(t), ~Opened(t), ~CloseA(t), ~Lost(t), ~CloseB(t), ~JoinedWriter(t)
      PROVE  UNCHANGED LinkOf
  BY <1>5 DEF Step, OpenTop, Refused, BackedOff, OpenReturns, JoinedRecv, CloseC, Die, ReadTop,
     EndOfStream, Loop, Ping, PongTimeout, StopHeartbeat, JoinedHeartbeat, StopRecv, JoinedLast,
     ends, LinkOf
<1>6. ASSUME ~\E t \in Tasks : Step(t) PROVE UNCHANGED LinkOf
  BY <1>6 DEF Next, Receive, Connect, Disconnect, PeerCloses, TransportClosed, Collected, ends,
     LinkOf
<1> QED
  BY <1>1, <1>2, <1>3, <1>4, <1>5, <1>6 DEF L!LinkNext

\* WifiSession implements the link, while closing and opening do not overlap: a connection
\* is lost before its writer is forgotten, and none is made while an old writer is set.
THEOREM Refinement == Spec => ImplementsLink
<1>1. Init => L!LinkInit
  BY DEF Init, L!LinkInit, LinkOf, ends
<1>2. IInv /\ [Next]_vars => [overlap' \/ L!LinkNext]_LinkOf
  <2>1. ASSUME UNCHANGED vars PROVE UNCHANGED LinkOf
    BY <2>1 DEF vars, ends, LinkOf
  <2> QED
    BY <2>1, LinkStep
<1> QED
  BY <1>1, <1>2, Invariance, PTL DEF Spec, ImplementsLink

--------------------------------------------------------------------------------
(* The serial port.                                                         *)

\* Of the transports that were opened and are not lost, one that is open is the only one.
OneAtATime ==
  \A j, k \in Transports : state[j] = "open" /\ state[k] \in {"open", "due"} => j = k

\* The client writes to the transport that is open, and knows of it.
Known ==
  /\ uartConnected => transport # NoTransport /\ state[transport] \in {"open", "due"}
  /\ \A k \in Transports : state[k] = "open" => uartConnected /\ transport = k

UartCoherent == ~hasty => OneAtATime /\ Known

\* A call that is not under way has made no attempt.
Fresh == \A c \in Calls : at[c] = "idle" => tries[c] = 0

\* The inductive invariant.  Without OneAtATime the loss of a transport that is due
\* could take the flag of another that is open.
UartInv == UartTypeOK /\ Fresh /\ UartCoherent

LEMMA UartInitInv == UartInit => UartInv
<1>1. 0 \in 0..Retries
  BY UartAssumption
<1>2. UartInit => UartTypeOK /\ Fresh
  BY <1>1 DEF UartInit, UartTypeOK, Fresh
<1>3. UartInit => UartCoherent
  BY DEF UartInit, UartCoherent, OneAtATime, Known
<1> QED BY <1>2, <1>3 DEF UartInv

CallStep(c) ==
  Send(c) \/ Answered(c) \/ Timeout(c) \/ Retry(c) \/ Return(c)

\* A step of a call counts its attempts right and leaves the connection alone.
LEMMA CallSteps ==
  ASSUME UartTypeOK, Fresh, NEW c \in Calls, CallStep(c)
  PROVE  UartTypeOK' /\ Fresh' /\ UNCHANGED Link
<1>1. UNCHANGED Link
  BY DEF CallStep, Send, Answered, Timeout, Retry, Return
<1>2. ASSUME Attempt(c), tries[c] < Retries
      PROVE  UartTypeOK' /\ Fresh'
  <2>1. tries[c] + 1 \in 0..Retries
    BY <1>2, UartAssumption DEF UartTypeOK
  <2> QED BY <1>1, <1>2, <2>1 DEF UartTypeOK, Fresh, Attempt, Link
<1>3. CASE Send(c)
  <2>1. tries[c] < Retries
    BY <1>3, UartAssumption DEF Fresh, Send
  <2> QED BY <1>1, <1>2, <1>3, <2>1 DEF Send
<1>4. CASE Answered(c) \/ Timeout(c)
  BY <1>1, <1>4 DEF UartTypeOK, Fresh, Answered, Timeout, Link
<1>5. CASE Retry(c)
  BY <1>1, <1>2, <1>5 DEF Retry
<1>6. CASE Return(c)
  <2>1. 0 \in 0..Retries
    BY UartAssumption
  <2> QED BY <1>1, <1>6, <2>1 DEF UartTypeOK, Fresh, Return, End, Link
<1> QED BY <1>1, <1>3, <1>4, <1>5, <1>6 DEF CallStep

LEMMA UartNextInv ==
  UartInv /\ [UartNext]_uartVars => UartInv'
<1> SUFFICES ASSUME UartInv, [UartNext]_uartVars PROVE UartInv'
  OBVIOUS
<1> USE DEF UartInv
<1>1. CASE UartDisconnect
  <2>1. UartTypeOK' /\ Fresh'
    BY <1>1 DEF UartDisconnect, UartTypeOK, Fresh
  <2>2. UartCoherent'
    BY <1>1 DEF UartDisconnect, UartTypeOK, UartCoherent, OneAtATime, Known
  <2> QED BY <2>1, <2>2
<1>2. ASSUME NEW k \in Transports, UartConnect(k)
      PROVE  UartInv'
  <2>1. UartTypeOK' /\ Fresh'
    BY <1>2 DEF UartConnect, UartTypeOK, Fresh
  <2>2. UartCoherent'
    <3> SUFFICES ASSUME ~hasty' PROVE OneAtATime' /\ Known'
      BY DEF UartCoherent
    <3>1. \A j \in Transports : state[j] \notin {"open", "due"}
      BY <1>2 DEF UartConnect, UartCoherent, Known
    <3>2. \A j \in Transports : state'[j] \in {"open", "due"} <=> j = k
      BY <1>2, <3>1 DEF UartConnect, UartTypeOK
    <3>3. state'[k] = "open" /\ transport' = k /\ uartConnected'
      BY <1>2 DEF UartConnect, UartTypeOK
    <3> QED BY <3>2, <3>3, UartAssumption DEF OneAtATime, Known
  <2> QED BY <2>1, <2>2
<1>3. ASSUME NEW k \in Transports, Break(k)
      PROVE  UartInv'
  BY <1>3 DEF Break, UartTypeOK, Fresh, UartCoherent, OneAtATime, Known
<1>4. ASSUME NEW k \in Transports, TransportLost(k)
      PROVE  UartInv'
  <2>1. UartTypeOK' /\ Fresh'
    BY <1>4 DEF TransportLost, UartTypeOK, Fresh
  <2>2. UartCoherent'
    BY <1>4 DEF TransportLost, UartTypeOK, UartCoherent, OneAtATime, Known
  <2> QED BY <2>1, <2>2
<1>5. ASSUME NEW c \in Calls, CallStep(c)
      PROVE  UartInv'
  BY <1>5, CallSteps DEF Link, UartCoherent, OneAtATime, Known
<1>6. CASE UNCHANGED uartVars
  BY <1>6 DEF uartVars, UartTypeOK, Fresh, UartCoherent, OneAtATime, Known
<1> QED BY <1>1, <1>2, <1>3, <1>4, <1>5, <1>6 DEF UartNext, CallStep

\* The inductive invariant holds at all times.
THEOREM UartInvariance ==
  UartSpec => []UartInv
BY UartInitInv, UartNextInv, PTL DEF UartSpec

\* Every variable stays in its type: no call makes more attempts than it may.
THEOREM UartTypeCorrect ==
  UartSpec => []UartTypeOK
BY UartInvariance, PTL DEF UartInv

\* _connected, _transport and the port agree, unless connect() was hasty.
THEOREM UartCoherence ==
  UartSpec => []CoherentUnlessHasty
<1>1. UartInv => CoherentUnlessHasty
  BY DEF UartInv, UartCoherent, Known, CoherentUnlessHasty
<1> QED BY <1>1, UartInvariance, PTL

\* connection_lost cancels no call that can still be answered, unless connect() was hasty.
THEOREM OwnLoss ==
  UartSpec => LossTakesItsOwn
<1> DEFINE Own == ~hasty' => \A c \in Calls : at[c] = "waits" /\ at'[c] = "cancelled"
                                => \A k \in Transports : on[c] = k => state[k] # "open"
<1>1. UartInv /\ [UartNext]_uartVars => [Own]_uartVars
  <2> SUFFICES ASSUME UartInv, [UartNext]_uartVars, ~hasty',
                      NEW c \in Calls, at[c] = "waits", at'[c] = "cancelled",
                      NEW j \in Transports
               PROVE  state[j] # "open"
    OBVIOUS
  <2>1. PICK k \in Transports : TransportLost(k)
    BY DEF UartNext, uartVars, UartDisconnect, UartConnect, Break, Send, Answered, Timeout,
           Retry, Return, Attempt, End, UartInv, UartTypeOK
  <2> QED BY <2>1 DEF TransportLost, UartInv, UartCoherent, OneAtATime
<1> QED BY <1>1, UartInvariance, PTL DEF UartSpec, LossTakesItsOwn
================================================================================
