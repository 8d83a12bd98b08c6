------------------------------ MODULE MowerClient ------------------------------
(****************************************************************************)
(* Class Mower of src/pyam3/client.py: how concurrent send_command() calls  *)
(* share one connection, and how the answers find their way back.           *)
(*                                                                          *)
(* Extended calls are correlated by a transaction id taken from a cyclic    *)
(* counter; simple calls carry no id and are serialised by an asyncio.Lock. *)
(* A call sends its request up to Retries times, each attempt with a fresh  *)
(* future that ends by an answer, by its timer, by the loss of the          *)
(* connection, or by the cancellation of the calling task.                  *)
(*                                                                          *)
(* One step is what asyncio runs between two awaits.  What resolves a       *)
(* future, and the step in which the waiting task resumes, are therefore    *)
(* different steps, and everything else may run between them.               *)
(*                                                                          *)
(* The transport is the state of the link only (Link); WifiSession models   *)
(* what moves it.                                                           *)
(*                                                                          *)
(* A definition introduced as "Fault" is a plausible bug, stated before the *)
(* definition it would replace; no specification uses it.                   *)
(****************************************************************************)
EXTENDS Naturals, Sequences, FiniteSets, Link

CONSTANTS Callers,   \* the tasks that call send_command, each one call at a time
          MaxTid,    \* ids are 1..MaxTid (255 in the code)
          Retries,   \* attempts of one call (3 by default)
          MaxLate,   \* bound of the model: ids with late answers at a time
          NoCaller   \* "None": no future registered, lock free

ASSUME CallersAssumption == IsFiniteSet(Callers) /\ NoCaller \notin Callers
ASSUME RetriesAssumption == Retries \in Nat \ {0} /\ MaxLate \in Nat
\* The code has no limit on the calls in flight; with as many as ids the search
\* for a free id would not end.
ASSUME MaxTidAssumption  == MaxTid \in Nat /\ Cardinality(Callers) < MaxTid

Tids   == 1..MaxTid
Simple == 0          \* stands for the id of a simple call, which has none

VARIABLES
  next_tid,   \* _next_tid
  pending,    \* _pending: id -> the caller whose future is registered
  simpleFut,  \* _simple_future: the caller it belongs to
  holder,     \* who holds _simple_lock
  waiters,    \* the callers queued on _simple_lock, first come first served
  pc,         \* "idle", "queued" (on the lock), "waiting" (in wait_for)
  tid,        \* the id of the call, or Simple
  attempt,    \* the attempt under way
  fut,        \* its future: "pending", "result", "cancelled"
  interrupt,  \* "none", "timeout" (the timer fired), "cancel" (the task was cancelled)
  answer,     \* whose request the frame in the future answers: "own", "foreign"
  raised,     \* the last call was left by an exception of the transport
  replies,    \* how many answers to the running call are under way
  late        \* ids of answers under way to calls that have ended

linkVars == <<link>>
lockVars == <<holder, waiters>>
callVars == <<pc, tid, attempt, fut, interrupt, answer, raised>>
vars == <<link, next_tid, pending, simpleFut, lockVars, callVars, replies, late>>

\* Every variable has its type: the counter never leaves the ids when it wraps, and a call
\* is never answered or attempted more often than it may send.
TypeOK ==
  /\ link \in {"up", "closing", "down"}
  /\ next_tid \in Tids
  /\ pending \in [Tids -> Callers \cup {NoCaller}]
  /\ simpleFut \in Callers \cup {NoCaller}
  /\ holder \in Callers \cup {NoCaller}
  /\ waiters \in Seq(Callers)
  /\ pc \in [Callers -> {"idle", "queued", "waiting"}]
  /\ tid \in [Callers -> Tids \cup {Simple}]
  /\ attempt \in [Callers -> 0..Retries]
  /\ fut \in [Callers -> {"pending", "result", "cancelled"}]
  /\ interrupt \in [Callers -> {"none", "timeout", "cancel"}]
  /\ answer \in [Callers -> {"none", "own", "foreign"}]
  /\ raised \in [Callers -> BOOLEAN]
  /\ replies \in [Callers -> 0..Retries]
  /\ late \in SUBSET (Tids \cup {Simple})

--------------------------------------------------------------------------------
(* Transaction ids.                                                         *)

\* Fault: the counter does not wrap.
SuccNoWrap(t) == t + 1

\* Fault: the counter stays on the id it gave out.
SuccStuck(t) == t

\* (t % 255) + 1
Succ(t) == IF t = MaxTid THEN 1 ELSE t + 1

\* The id reached from t in d steps, d < MaxTid.
Ahead(t, d) == IF t + d <= MaxTid THEN t + d ELSE t + d - MaxTid

\* Fault: the id is taken without a look at _pending.
IsNext(t) == t = next_tid

\* The search for the first id at or after next_tid that is not in _pending.
IsFirstFree(t) ==
  \E d \in 0..(MaxTid - 1) :
    /\ t = Ahead(next_tid, d)
    /\ pending[t] = NoCaller
    /\ \A e \in 0..(d - 1) : pending[Ahead(next_tid, e)] # NoCaller

\* The ids the counter goes by when it moves from n to m.
Passed(n, m) == IF n <= m THEN n..(m - 1) ELSE (n..MaxTid) \cup (1..(m - 1))

--------------------------------------------------------------------------------
(* Calls.                                                                   *)

\* The task is suspended in wait_for and nothing has woken it yet.
Awaiting(c) == pc[c] = "waiting" /\ fut[c] = "pending" /\ interrupt[c] = "none"

\* The task is suspended in wait_for and is due to resume.
Ready(c) == pc[c] = "waiting" /\ ~Awaiting(c)

\* One attempt: a fresh future, registered, and the request written.  The writer
\* of a connection that is already lost swallows the bytes.
Attempt(c, t, n) ==
  /\ pc' = [pc EXCEPT ![c] = "waiting"]
  /\ tid' = [tid EXCEPT ![c] = t]
  /\ attempt' = [attempt EXCEPT ![c] = n]
  /\ fut' = [fut EXCEPT ![c] = "pending"]
  /\ interrupt' = [interrupt EXCEPT ![c] = "none"]
  /\ answer' = [answer EXCEPT ![c] = "none"]
  /\ raised' = [raised EXCEPT ![c] = FALSE]
  /\ IF t = Simple
     THEN simpleFut' = c /\ UNCHANGED pending
     ELSE pending' = [pending EXCEPT ![t] = c] /\ UNCHANGED simpleFut
  /\ replies' = IF link = "up" THEN [replies EXCEPT ![c] = @ + 1] ELSE replies

\* Fault: no pop of the id.
UnregisterKeepsTid(c, t) ==
  /\ IF t = Simple
     THEN simpleFut' = NoCaller /\ holder' = NoCaller
     ELSE UNCHANGED <<simpleFut, holder>>
  /\ late' = IF replies[c] > 0 /\ Cardinality(late) < MaxLate
             THEN late \cup {t} ELSE late
  /\ replies' = [replies EXCEPT ![c] = 0]
  /\ UNCHANGED pending

\* Fault: an interrupted call does not give the lock back.
UnregisterKeepsLock(c, t) ==
  /\ IF t = Simple
     THEN /\ simpleFut' = NoCaller
          /\ holder' = IF interrupt[c] = "cancel" THEN holder ELSE NoCaller
          /\ UNCHANGED pending
     ELSE pending' = [pending EXCEPT ![t] = NoCaller] /\ UNCHANGED <<simpleFut, holder>>
  /\ late' = IF replies[c] > 0 /\ Cardinality(late) < MaxLate
             THEN late \cup {t} ELSE late
  /\ replies' = [replies EXCEPT ![c] = 0]

\* The "finally" clauses and the exit from the lock, whatever ends the call.
\* Answers still under way to it are late from here on (or, past MaxLate, lost).
Unregister(c, t) ==
  /\ IF t = Simple
     THEN simpleFut' = NoCaller /\ holder' = NoCaller /\ UNCHANGED pending
     ELSE pending' = [pending EXCEPT ![t] = NoCaller] /\ UNCHANGED <<simpleFut, holder>>
  /\ late' = IF replies[c] > 0 /\ Cardinality(late) < MaxLate
             THEN late \cup {t} ELSE late
  /\ replies' = [replies EXCEPT ![c] = 0]

Back(c, exc) ==
  /\ pc' = [pc EXCEPT ![c] = "idle"]
  /\ tid' = [tid EXCEPT ![c] = Simple]
  /\ attempt' = [attempt EXCEPT ![c] = 0]
  /\ fut' = [fut EXCEPT ![c] = "pending"]
  /\ interrupt' = [interrupt EXCEPT ![c] = "none"]
  /\ answer' = [answer EXCEPT ![c] = "none"]
  /\ raised' = [raised EXCEPT ![c] = exc]

Finish(c, exc) ==
  /\ Unregister(c, tid[c])
  /\ Back(c, exc)
  /\ UNCHANGED <<link, next_tid, waiters>>

\* send_command on a mower that is not connected returns None at once.
SendOffline(c) ==
  /\ pc[c] = "idle" /\ link # "up"
  /\ raised' = [raised EXCEPT ![c] = FALSE]
  /\ UNCHANGED <<linkVars, next_tid, pending, simpleFut, lockVars,
                 pc, tid, attempt, fut, interrupt, answer, replies, late>>

\* An extended call takes its id and makes its first attempt in one step.  What
\* the environment is trusted with: an answer does not stay under way for a whole
\* lap of the counter (255 calls), so a late one is gone when the counter passes.
SendExtended(c) ==
  /\ pc[c] = "idle" /\ link = "up"
  /\ \E t \in Tids :
       /\ IsFirstFree(t)
       /\ next_tid' = Succ(t)
       /\ Attempt(c, t, 1)
  /\ late' = late \ Passed(next_tid, next_tid')
  /\ UNCHANGED <<linkVars, lockVars>>

\* Fault: the queue is looked at, the lock is not.
QueueEmpty == waiters = <<>>

\* The lock can be taken without suspending.
LockFree == holder = NoCaller /\ waiters = <<>>

\* A simple call takes the lock without suspending when it is free and nobody is
\* queued; otherwise it queues up.
SendSimple(c) ==
  /\ pc[c] = "idle" /\ link = "up" /\ LockFree
  /\ holder' = c
  /\ Attempt(c, Simple, 1)
  /\ UNCHANGED <<linkVars, next_tid, waiters, late>>

QueueSimple(c) ==
  /\ pc[c] = "idle" /\ link = "up" /\ ~LockFree
  /\ waiters' = Append(waiters, c)
  /\ pc' = [pc EXCEPT ![c] = "queued"]
  /\ raised' = [raised EXCEPT ![c] = FALSE]
  /\ UNCHANGED <<linkVars, next_tid, pending, simpleFut, holder,
                 tid, attempt, fut, interrupt, answer, replies, late>>

\* The first waiter gets the lock.  It does not look at _connected again: with no
\* writer _send_bytes raises, and the exception leaves send_command.
Acquire(c) ==
  /\ pc[c] = "queued" /\ holder = NoCaller
  /\ waiters # <<>> /\ Head(waiters) = c
  /\ waiters' = Tail(waiters)
  /\ IF link = "down"
     THEN /\ Back(c, TRUE)
          /\ simpleFut' = NoCaller
          /\ UNCHANGED <<holder, pending, replies>>
     ELSE holder' = c /\ Attempt(c, Simple, 1)
  /\ UNCHANGED <<linkVars, next_tid, late>>

--------------------------------------------------------------------------------
(* What ends an attempt.                                                    *)

\* The caller _dispatch_frame finds for an answer with id t.
Registered(t) == IF t = Simple THEN simpleFut ELSE pending[t]

\* _dispatch_frame: the answer goes to the future found under its id, and is
\* dropped when there is none or when it is done.
Dispatch(t, from) ==
  LET r == Registered(t)
  IN  IF r # NoCaller /\ Awaiting(r)
      THEN /\ fut' = [fut EXCEPT ![r] = "result"]
           /\ answer' = [answer EXCEPT ![r] = IF r = from THEN "own" ELSE "foreign"]
      ELSE UNCHANGED <<fut, answer>>

\* The answer to an attempt of a call that is still running.
Deliver(c) ==
  /\ link = "up" /\ replies[c] > 0
  /\ replies' = [replies EXCEPT ![c] = @ - 1]
  /\ Dispatch(tid[c], c)
  /\ UNCHANGED <<linkVars, next_tid, pending, simpleFut, lockVars,
                 pc, tid, attempt, interrupt, raised, late>>

\* The answer to a call that has ended, possibly on an earlier connection: the
\* bridge keeps it for the next one.  Several attempts may have been answered.
DeliverLate(t) ==
  /\ link = "up" /\ t \in late
  /\ late' \in {late, late \ {t}}
  /\ Dispatch(t, NoCaller)
  /\ UNCHANGED <<linkVars, next_tid, pending, simpleFut, lockVars,
                 pc, tid, attempt, interrupt, raised, replies>>

\* The timer of wait_for.  It may still fire when the future is done and the
\* task has not run yet.  From Python 3.12 on it closes the future; in 3.11 an
\* answer may still come before the task runs, which ends in the same state as
\* the answer first and the timer second.
Expire(c) ==
  /\ pc[c] = "waiting" /\ interrupt[c] = "none"
  /\ interrupt' = [interrupt EXCEPT ![c] = "timeout"]
  /\ UNCHANGED <<linkVars, next_tid, pending, simpleFut, lockVars,
                 pc, tid, attempt, fut, answer, raised, replies, late>>

\* Somebody cancels the calling task: a wait_for around send_command, or an
\* integration that is unloaded.  That cancels the future the task waits for; a
\* waiter leaves the queue of the lock.
Cancel(c) ==
  \/ /\ pc[c] = "waiting" /\ interrupt[c] # "cancel"
     /\ interrupt' = [interrupt EXCEPT ![c] = "cancel"]
     /\ fut' = [fut EXCEPT ![c] = IF @ = "pending" THEN "cancelled" ELSE @]
     /\ UNCHANGED <<linkVars, next_tid, pending, simpleFut, lockVars,
                    pc, tid, attempt, answer, raised, replies, late>>
  \/ /\ pc[c] = "queued"
     /\ \E i \in 1..Len(waiters) :
          /\ waiters[i] = c
          /\ waiters' = SubSeq(waiters, 1, i - 1) \o SubSeq(waiters, i + 1, Len(waiters))
     /\ Back(c, FALSE)
     /\ UNCHANGED <<linkVars, next_tid, pending, simpleFut, holder, replies, late>>

--------------------------------------------------------------------------------
(* The task resumes in _send_extended or _send_simple.                      *)

\* The raw answer is parsed and returned; one that does not parse, or that
\* carries an error, makes send_command return None.
TakeAnswer(c) ==
  /\ Ready(c) /\ fut[c] = "result"
  /\ Finish(c, FALSE)

\* The future was cancelled by _cancel_pending, not the task.
GiveUpOnLoss(c) ==
  /\ Ready(c) /\ fut[c] = "cancelled" /\ interrupt[c] # "cancel"
  /\ Finish(c, FALSE)

\* wait_for raised TimeoutError and an attempt is left: it keeps id and lock.
\* A timer that fires together with an answer or a loss wins or loses by version.
Retry(c) ==
  /\ pc[c] = "waiting" /\ interrupt[c] = "timeout" /\ attempt[c] < Retries
  /\ link # "down"
  /\ Attempt(c, tid[c], attempt[c] + 1)
  /\ UNCHANGED <<linkVars, next_tid, lockVars, late>>

\* The same with no writer: _send_bytes raises.
RetryOffline(c) ==
  /\ pc[c] = "waiting" /\ interrupt[c] = "timeout" /\ attempt[c] < Retries
  /\ link = "down"
  /\ Finish(c, TRUE)

GiveUpOnTimeout(c) ==
  /\ pc[c] = "waiting" /\ interrupt[c] = "timeout" /\ attempt[c] = Retries
  /\ Finish(c, FALSE)

Cancelled(c) ==
  /\ pc[c] = "waiting" /\ interrupt[c] = "cancel"
  /\ Finish(c, FALSE)

Resume(c) == \/ TakeAnswer(c) \/ GiveUpOnLoss(c) \/ Retry(c) \/ RetryOffline(c)
             \/ GiveUpOnTimeout(c) \/ Cancelled(c)

--------------------------------------------------------------------------------
(* The connection.                                                          *)

\* Fault: the simple call is forgotten, its future is not cancelled.
CancelExtended ==
  LET hit == {c \in Callers : Awaiting(c) /\ \E t \in Tids : pending[t] = c}
  IN  /\ fut' = [c \in Callers |-> IF c \in hit THEN "cancelled" ELSE fut[c]]
      /\ pending' = [t \in Tids |-> NoCaller]
      /\ simpleFut' = NoCaller

\* _cancel_pending: cancel every registered future that is not done, forget all.
CancelPending ==
  LET hit == {c \in Callers : /\ Awaiting(c)
                              /\ simpleFut = c \/ \E t \in Tids : pending[t] = c}
  IN  /\ fut' = [c \in Callers |-> IF c \in hit THEN "cancelled" ELSE fut[c]]
      /\ pending' = [t \in Tids |-> NoCaller]
      /\ simpleFut' = NoCaller

ConnectionLost ==
  /\ Lose
  /\ CancelPending
  /\ UNCHANGED <<next_tid, lockVars, pc, tid, attempt, interrupt, answer, raised,
                 replies, late>>

\* disconnect(), or a second task that noticed the loss.
LostAgain ==
  /\ link # "up"
  /\ CancelPending
  /\ UNCHANGED <<linkVars, next_tid, lockVars, pc, tid, attempt, interrupt, answer,
                 raised, replies, late>>

\* Closing or opening a socket takes turns of the event loop: the tasks that were
\* due when it began have resumed.  A lock that was released then may still be on
\* its way to the next waiter when the writer is gone, not when a new one is there.
WriterClosed ==
  /\ CloseWriter /\ \A c \in Callers : ~Ready(c)
  /\ UNCHANGED <<next_tid, pending, simpleFut, lockVars, callVars, replies, late>>

Settled == /\ \A c \in Callers : ~Ready(c)
           /\ holder = NoCaller => waiters = <<>>

Reconnected ==
  /\ Reopen /\ Settled
  /\ UNCHANGED <<next_tid, pending, simpleFut, lockVars, callVars, replies, late>>

--------------------------------------------------------------------------------

Init ==
  /\ LinkInit
  /\ next_tid = 1
  /\ pending = [t \in Tids |-> NoCaller]
  /\ simpleFut = NoCaller
  /\ holder = NoCaller
  /\ waiters = <<>>
  /\ pc = [c \in Callers |-> "idle"]
  /\ tid = [c \in Callers |-> Simple]
  /\ attempt = [c \in Callers |-> 0]
  /\ fut = [c \in Callers |-> "pending"]
  /\ interrupt = [c \in Callers |-> "none"]
  /\ answer = [c \in Callers |-> "none"]
  /\ raised = [c \in Callers |-> FALSE]
  /\ replies = [c \in Callers |-> 0]
  /\ late = {}

CallerStep(c) ==
  \/ SendOffline(c) \/ SendExtended(c) \/ SendSimple(c) \/ QueueSimple(c)
  \/ Acquire(c) \/ Deliver(c) \/ Expire(c) \/ Cancel(c) \/ Resume(c)

Next ==
  \/ \E c \in Callers : CallerStep(c)
  \/ \E t \in Tids \cup {Simple} : DeliverLate(t)
  \/ ConnectionLost \/ LostAgain \/ WriterClosed \/ Reconnected

Spec == Init /\ [][Next]_vars

\* Timers fire and the event loop runs every task that is due.  Nothing is
\* assumed of the mower, of the link or of the callers.
Fairness == \A c \in Callers : /\ WF_vars(Expire(c))
                               /\ WF_vars(Resume(c))
                               /\ WF_vars(Acquire(c))

FairSpec == Spec /\ Fairness
--------------------------------------------------------------------------------
(* Properties.                                                              *)

\* The answer an extended call takes is an answer to one of its own requests:
\* an answer that arrives after its call has ended never meets a later call that
\* took the same id (_send_extended, _dispatch_frame).
OwnAnswer ==
  \A c \in Callers : fut[c] = "result" /\ tid[c] # Simple => answer[c] = "own"

\* A task suspended on a future is the one _dispatch_frame and _cancel_pending
\* find: no call waits on a future that was forgotten or overwritten by another
\* call, across retries, losses and reconnections.
FindsItsCall == \A c \in Callers : Awaiting(c) => Registered(tid[c]) = c

\* At most one simple request is under way: _simple_lock is held from the first
\* attempt to the last, by the call _simple_future belongs to.
OneSimple ==
  \A c, d \in Callers :
    pc[c] = "waiting" /\ pc[d] = "waiting" /\ tid[c] = Simple /\ tid[d] = Simple
      => c = d /\ holder = c

\* Whatever way a call ended, it left nothing behind: every id in _pending, the
\* simple future and the lock belong to a call that is still in wait_for.
NothingLeftBehind ==
  /\ \A t \in Tids : pending[t] # NoCaller
                     => pc[pending[t]] = "waiting" /\ tid[pending[t]] = t
  /\ \A c \in {simpleFut, holder} \ {NoCaller} : pc[c] = "waiting" /\ tid[c] = Simple

\* The search for a free id in _send_extended ends, whoever calls.
FreeTidExists == \A c \in Callers : pc[c] = "idle" => \E t \in Tids : IsFirstFree(t)

\* What the lock is worth without an id: an answer that is not its own resolves a
\* simple call only while one to an earlier simple call, which ended without it, is
\* still under way.  Calls that queue, retry or are cancelled never cross answers
\* among themselves (_send_simple, _dispatch_frame).
ForeignOnlyWhenLate ==
  [][\A c \in Callers : answer'[c] = "foreign" /\ answer[c] # "foreign"
                        => tid[c] = Simple /\ Simple \in late]_vars

\* The step that takes the connection away leaves no call waiting for an answer
\* (_cancel_pending in _on_connection_lost).
LossEndsWaiting ==
  [][link = "up" /\ link' # "up" => \A c \in Callers : ~Awaiting(c)']_vars

\* Every call returns, raises or is cancelled, in whatever order timers, answers,
\* losses and cancellations come, and however long the queue for the lock is.
EveryCallEnds == \A c \in Callers : pc[c] # "idle" ~> pc[c] = "idle"

\* send_command "Returns the parsed response data, or None on timeout / error."
\* (src/pyam3/client.py:252): it does not raise.
ReturnsNoneOnError == \A c \in Callers : ~raised[c]
================================================================================
