------------------------------ MODULE StatusMonitor ------------------------------
(****************************************************************************)
(* run_monitor of src/scripts/status_monitor.py, and the record of frames   *)
(* that src/scripts/logging_mower.py keeps for it: the mower is polled, a   *)
(* line is logged when what it reports or the connection has changed, and   *)
(* the frames that belong to no call are logged after the poll.             *)
(*                                                                          *)
(* A call ends in the ways MowerClient shows, and time is whether           *)
(* PING_TIMEOUT has passed.                                                 *)
(*                                                                          *)
(* Definitions introduced as "Fault" are plausible bugs, each stated before *)
(* the definition it would replace; no specification uses them.             *)
(****************************************************************************)
EXTENDS Naturals, SequencesExt

CONSTANTS Polls,      \* how many commands POLL_COMMANDS lists
          Values,     \* what the mower may report
          None,
          KeepAlives, \* the values that --keep-alive may have
          MaxCycles,  \* bound of the model: polls
          MaxFrames   \* bound of the model: frames that are no answers

ASSUME MonitorAssumption ==
  /\ Polls \in Nat \ {0} /\ None \notin Values /\ KeepAlives \subseteq BOOLEAN
  /\ MaxCycles \in Nat /\ MaxFrames \in Nat

VARIABLES
  pc,          \* "watch" (asleep, or waits for a connection), "poll", "KeepAlive", "ended"
  keep_alive,  \* args.keep_alive
  up,          \* mower.is_connected
  call,        \* the call under way: "none", "open", "answered", "cancelled"
  cycle, new_state, poll_ok, last_state, connected,
  fresh,       \* last_pong_time is less than PING_TIMEOUT ago
  unsolicited, \* _unsolicited_log
  log,         \* the lines of type "status"
  written,     \* the lines of type "unsolicited"
  stray        \* history: the frames that came for no call, by their marker

pollVars   == <<new_state, poll_ok>>
reportVars == <<cycle, last_state, connected, log>>
frameVars  == <<unsolicited, written, stray>>
vars == <<pc, keep_alive, up, call, pollVars, reportVars, fresh, frameVars>>

Reports == [1..Polls -> Values \cup {None}]
Nothing == [c \in 1..Polls |-> None]
\* What comes for no call: an event; an extended frame that ends before its id; any other.
Markers == {"event", "short", "other"}
Frame   == [number : 1..MaxFrames, marker : Markers \ {"short"}]
Line    == [state : Reports, connected : BOOLEAN]

\* Every variable has its type: a call is under way only while one is awaited, and a poll
\* is never longer than the list of commands.
TypeOK ==
  /\ pc \in {"watch", "poll", "KeepAlive", "ended"} /\ keep_alive \in KeepAlives
  /\ up \in BOOLEAN /\ call \in {"none", "open", "answered", "cancelled"}
  /\ pc \in {"watch", "ended"} => call = "none"
  /\ cycle \in 0..MaxCycles /\ last_state \in Reports
  /\ new_state \in BoundedSeq(Values \cup {None}, Polls)
  /\ pc = "poll" => Len(new_state) < Polls
  /\ poll_ok \in BOOLEAN /\ connected \in BOOLEAN /\ fresh \in BOOLEAN
  /\ log \in Seq(Line) /\ Len(log) <= cycle
  /\ {unsolicited, written} \subseteq Seq(Frame) /\ stray \in Seq(Markers)

Init ==
  /\ pc = "watch" /\ keep_alive \in KeepAlives
  /\ up = TRUE /\ call = "none"
  /\ cycle = 0 /\ new_state = <<>> /\ poll_ok = TRUE /\ last_state = Nothing /\ connected = TRUE
  /\ fresh = TRUE
  /\ unsolicited = <<>> /\ log = <<>> /\ written = <<>> /\ stray = <<>>

--------------------------------------------------------------------------------
(* The loop.                                                                *)

\* Fault: what was drained stays in the list.
DrainCopy ==
  /\ written' = written \o unsolicited
  /\ UNCHANGED unsolicited

\* pop_unsolicited, and a line for each.
Drain ==
  /\ written' = written \o unsolicited
  /\ unsolicited' = <<>>

\* Fault: a change of the connection alone is not logged.
ReportChange(state, now) ==
  /\ log' = IF cycle = 1 \/ state # last_state
            THEN Append(log, [state |-> state, connected |-> now]) ELSE log
  /\ last_state' = state /\ connected' = now

\* A line when something changed.
Report(state, now) ==
  /\ log' = IF cycle = 1 \/ state # last_state \/ now # connected
            THEN Append(log, [state |-> state, connected |-> now]) ELSE log
  /\ last_state' = state /\ connected' = now

\* What follows the last call of a poll, up to the sleep.
Finish(state, ok, recent) ==
  /\ Report(state, ok /\ (recent \/ cycle = 1))
  /\ Drain
  /\ fresh' = (recent \/ \E i \in DOMAIN unsolicited : unsolicited[i].marker = "event")
  /\ pc' = "watch" /\ UNCHANGED cycle

\* Fault: the results of the poll before are not dropped.
BeginPollOn ==
  /\ pc = "watch" /\ up /\ cycle < MaxCycles
  /\ pc' = "poll" /\ cycle' = cycle + 1 /\ poll_ok' = TRUE
  /\ UNCHANGED <<keep_alive, up, call, new_state, last_state, connected, log, fresh, frameVars>>

\* Awake, and there is a connection.
BeginPoll ==
  /\ pc = "watch" /\ up /\ cycle < MaxCycles
  /\ pc' = "poll" /\ cycle' = cycle + 1 /\ new_state' = <<>> /\ poll_ok' = TRUE
  /\ UNCHANGED <<keep_alive, up, call, last_state, connected, log, fresh, frameVars>>

\* The request is sent.
Send ==
  /\ pc \in {"poll", "KeepAlive"} /\ up /\ call = "none"
  /\ call' = "open"
  /\ UNCHANGED <<pc, keep_alive, up, pollVars, reportVars, fresh, frameVars>>

\* A command of the poll is done with: on to the next, to KeepAlive, or to the end.
Polled(value, ok, recent) ==
  /\ pc = "poll" /\ call' = "none" /\ new_state' = Append(new_state, value) /\ poll_ok' = ok
  /\ CASE Len(new_state') < Polls ->
            fresh' = recent /\ UNCHANGED <<pc, reportVars, unsolicited, written>>
       [] Len(new_state') = Polls /\ keep_alive /\ ok ->
            fresh' = recent /\ pc' = "KeepAlive" /\ UNCHANGED <<reportVars, unsolicited, written>>
       [] OTHER -> Finish(new_state', ok, recent)
  /\ UNCHANGED <<keep_alive, up, stray>>

\* send_command returns None: there is no connection, it was lost meanwhile, or the answer
\* does not parse.  The time is taken as if there was an answer.
PolledNone ==
  /\ (~up /\ call = "none") \/ call \in {"answered", "cancelled"}
  /\ Polled(None, poll_ok, TRUE)

PolledValue(value) == call = "answered" /\ Polled(value, poll_ok, TRUE)

\* The transport raises; or wait_for gives up after ten seconds, before the attempts of the
\* call are used up, at the latest as an answer comes.
PollFailed ==
  /\ IF call = "none" THEN up ELSE ~fresh
  /\ Polled(None, FALSE, fresh)

\* KeepAlive returns: with an answer, without a connection, or after three attempts.
KeptAlive ==
  /\ pc = "KeepAlive"
  /\ \/ call \in {"answered", "cancelled"}
     \/ call = "none" /\ ~up
     \/ call = "open" /\ ~fresh
  /\ call' = "none"
  /\ Finish(new_state, poll_ok, fresh)
  /\ UNCHANGED <<keep_alive, up, pollVars, stray>>

\* Ctrl-C cancels the task, or KeepAlive, which is not in the try of the poll, raises: what
\* came is drained, and disconnect() is not reached.
Leave ==
  /\ pc # "ended"
  /\ pc' = "ended" /\ call' = "none" /\ Drain
  /\ UNCHANGED <<keep_alive, up, pollVars, reportVars, fresh, stray>>

--------------------------------------------------------------------------------
(* What comes from the mower, and time.                                     *)

\* _dispatch_frame: an answer to the call under way, or one more of them; it is not kept.
Answer ==
  /\ up /\ call \in {"open", "answered"}
  /\ call' = "answered"
  /\ UNCHANGED <<pc, keep_alive, up, pollVars, reportVars, fresh, frameVars>>

\* _dispatch_frame: an event, the answer to a call that has ended, or a frame of another
\* kind; simple answers are among these, as every command that is sent is an extended one.
\* A frame of the extended marker is kept from five bytes on.  No event has a name with a
\* "pong" or a "ping" in it, that on_event would notice.
Stray(marker) ==
  /\ up /\ pc # "ended" /\ Len(stray) < MaxFrames
  /\ stray' = Append(stray, marker)
  /\ \/ marker = "short" /\ UNCHANGED unsolicited
     \/ /\ marker # "short"
        /\ unsolicited' = Append(unsolicited, [number |-> Len(stray'), marker |-> marker])
  /\ UNCHANGED <<pc, keep_alive, up, call, pollVars, reportVars, fresh, written>>

Lose ==
  /\ up
  /\ up' = FALSE /\ call' = IF call = "open" THEN "cancelled" ELSE call
  /\ UNCHANGED <<pc, keep_alive, pollVars, reportVars, fresh, frameVars>>

Reopen ==
  /\ ~up
  /\ up' = TRUE
  /\ UNCHANGED <<pc, keep_alive, call, pollVars, reportVars, fresh, frameVars>>

\* PING_TIMEOUT passes in a sleep, or as a call waits.
TimePasses ==
  /\ pc = "watch" \/ call = "open"
  /\ fresh' = FALSE
  /\ UNCHANGED <<pc, keep_alive, up, call, pollVars, reportVars, frameVars>>

Next ==
  \/ BeginPoll \/ Send \/ PolledNone \/ PollFailed \/ KeptAlive \/ Leave
  \/ \E v \in Values : PolledValue(v)
  \/ Answer \/ Lose \/ Reopen \/ TimePasses
  \/ \E marker \in Markers : Stray(marker)

Spec == Init /\ [][Next]_vars

--------------------------------------------------------------------------------
(* Properties.                                                              *)

\* The log is the history of what was polled, without gaps and without repetition: after
\* a poll its last line is what the poll found, and no line is like the one before it.
LogIsHistory ==
  /\ pc = "watch" /\ cycle > 0 =>
       log # <<>> /\ Last(log) = [state |-> last_state, connected |-> connected]
  /\ \A n \in 1..Len(log) - 1 : log[n] # log[n + 1]

\* Every frame that came for no call, but for extended ones too short for an id, is logged
\* once and in the order they came, by the next poll or when the monitor ends.
Lines == written \o unsolicited
StraysAreLogged ==
  /\ \A i, j \in DOMAIN Lines : i < j => Lines[i].number < Lines[j].number
  /\ {Lines[i] : i \in DOMAIN Lines} =
       {[number |-> n, marker |-> stray[n]] : n \in {m \in DOMAIN stray : stray[m] # "short"}}
  /\ pc = "ended" => unsolicited = <<>>
================================================================================
