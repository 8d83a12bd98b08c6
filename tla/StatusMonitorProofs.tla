--------------------------- MODULE StatusMonitorProofs ---------------------------
(****************************************************************************)
(* Machine-checked proofs about StatusMonitor, for any commands, values,    *)
(* number of polls and number of frames: the types, that the log is the     *)
(* history of what was polled, and that no frame is lost.                   *)
(*                                                                          *)
(* LogIsHistory speaks of the time between two polls, so it is not          *)
(* inductive: a poll leaves last_state, connected and the log alone until   *)
(* its last call is done, and then compares what it found with them.        *)
(****************************************************************************)
EXTENDS StatusMonitor, SequenceTheorems, TLAPS

\* The polls that have been logged: the one under way is not.
Logged == IF pc \in {"poll", "KeepAlive"} THEN cycle - 1 ELSE cycle

\* The last line is what the last poll found that was logged.
LastIsLatest ==
  Logged > 0 => log # <<>> /\ Last(log) = [state |-> last_state, connected |-> connected]

\* No line is like the one before it.
NoRepetition == \A n \in 1..Len(log) - 1 : log[n] # log[n + 1]

\* There is no line that no poll has written, a poll has a number, and when all commands
\* are done with there is a result for each.
PollUnderWay ==
  /\ Len(log) <= Logged
  /\ pc \in {"poll", "KeepAlive"} => cycle > 0
  /\ pc = "KeepAlive" => Len(new_state) = Polls

\* The inductive invariant.  Where the monitor has been left during a poll, nothing is
\* claimed of the last line.
IInv ==
  /\ TypeOK /\ PollUnderWay /\ NoRepetition /\ StraysAreLogged
  /\ pc # "ended" => LastIsLatest

LEMMA InitInv == Init => IInv
<1> SUFFICES ASSUME Init PROVE IInv
  OBVIOUS
<1>1. new_state \in BoundedSeq(Values \cup {None}, Polls)
  BY MonitorAssumption DEF Init, BoundedSeq, SeqOf
<1>2. last_state \in Reports
  BY DEF Init, Reports, Nothing
<1>3. TypeOK
  BY <1>1, <1>2, MonitorAssumption DEF Init, TypeOK
<1>4. PollUnderWay /\ NoRepetition /\ StraysAreLogged /\ LastIsLatest
  <2>1. Lines = <<>> /\ stray = <<>> /\ unsolicited = <<>>
    BY DEF Init, Lines
  <2>2. StraysAreLogged
    BY <2>1 DEF StraysAreLogged
  <2> QED
    BY <2>2 DEF Init, PollUnderWay, NoRepetition, LastIsLatest, Logged
<1> QED
  BY <1>3, <1>4 DEF IInv

--------------------------------------------------------------------------------
(* The sequences a step writes.                                             *)

\* A list of results is as long as there are commands, or shorter.
LEMMA Results ==
  ASSUME NEW s \in BoundedSeq(Values \cup {None}, Polls)
  PROVE  /\ s \in Seq(Values \cup {None}) /\ Len(s) \in 0..Polls
         /\ Len(s) = Polls => s \in Reports
         /\ \A v \in Values \cup {None} : Len(s) < Polls =>
              /\ Append(s, v) \in BoundedSeq(Values \cup {None}, Polls)
              /\ Len(Append(s, v)) = Len(s) + 1
<1>1. PICK m \in 0..Polls : s \in [1..m -> Values \cup {None}]
  BY DEF BoundedSeq, SeqOf
<1>2. s \in Seq(Values \cup {None}) /\ Len(s) = m
  BY <1>1, MonitorAssumption
<1>3. Len(s) = Polls => s \in Reports
  BY <1>1, <1>2 DEF Reports
<1>4. ASSUME NEW v \in Values \cup {None}, m < Polls
      PROVE  Append(s, v) \in BoundedSeq(Values \cup {None}, Polls) /\ Len(Append(s, v)) = m + 1
  <2>1. Append(s, v) \in Seq(Values \cup {None}) /\ Len(Append(s, v)) = m + 1
    BY <1>2
  <2>2. Append(s, v) \in [1..m + 1 -> Values \cup {None}]
    BY <2>1, LenProperties
  <2>3. m + 1 \in 0..Polls
    BY <1>4, MonitorAssumption
  <2> QED
    BY <2>1, <2>2, <2>3 DEF BoundedSeq, SeqOf
<1> QED
  BY <1>1, <1>2, <1>3, <1>4

\* The line that ends a poll is about that poll, and unlike the one before it.
LEMMA ReportStep ==
  ASSUME IInv, pc \in {"poll", "KeepAlive"},
         NEW state \in Reports, NEW now \in BOOLEAN, Report(state, now)
  PROVE  /\ log' \in Seq(Line) /\ Len(log') <= cycle
         /\ last_state' \in Reports /\ connected' \in BOOLEAN
         /\ log' # <<>> /\ Last(log') = [state |-> last_state', connected |-> connected']
         /\ NoRepetition'
<1> DEFINE line == [state |-> state, connected |-> now]
<1>1. log \in Seq(Line) /\ line \in Line /\ Len(log) <= cycle - 1 /\ cycle \in Nat /\ cycle > 0
  BY MonitorAssumption DEF IInv, TypeOK, PollUnderWay, Logged, Line
<1>2. cycle > 1 => log # <<>> /\ Last(log) = [state |-> last_state, connected |-> connected]
  BY <1>1 DEF IInv, LastIsLatest, Logged
<1>3. last_state' = state /\ connected' = now
  BY DEF Report
<1>4. CASE cycle = 1 \/ state # last_state \/ now # connected
  <2>1. log' = Append(log, line)
    BY <1>4 DEF Report
  <2>2. log' \in Seq(Line) /\ Len(log') = Len(log) + 1 /\ log'[Len(log) + 1] = line
    BY <1>1, <2>1
  <2>3. \A n \in 1..Len(log) : log'[n] = log[n]
    BY <1>1, <2>1
  <2>4. Len(log) > 0 => log[Len(log)] # line
    BY <1>1, <1>2, <1>4 DEF Last
  <2>5. NoRepetition'
    BY <1>1, <2>2, <2>3, <2>4 DEF IInv, NoRepetition
  <2> QED
    BY <1>1, <1>3, <2>2, <2>5 DEF Last
<1>5. CASE ~(cycle = 1 \/ state # last_state \/ now # connected)
  <2>1. log' = log /\ cycle > 1
    BY <1>1, <1>5 DEF Report
  <2> QED
    BY <1>1, <1>2, <1>3, <1>5, <2>1 DEF IInv, NoRepetition
<1> QED
  BY <1>4, <1>5

\* Where neither the lines nor the frames change, only the end matters.
LEMMA SameLines ==
  ASSUME StraysAreLogged, Lines' = Lines, stray' = stray, pc' = "ended" => unsolicited' = <<>>
  PROVE  StraysAreLogged'
  BY DEF StraysAreLogged

\* A step that leaves the frames alone and does not end the monitor.
LEMMA SameFrames ==
  ASSUME StraysAreLogged, UNCHANGED <<unsolicited, written, stray>>, pc' = "ended" => pc = "ended"
  PROVE  StraysAreLogged'
<1>1. Lines' = Lines
  BY DEF Lines
<1>2. pc = "ended" => unsolicited = <<>>
  BY DEF StraysAreLogged
<1> QED
  BY <1>1, <1>2, SameLines

\* What is drained is written, in the order it came.
LEMMA DrainStep ==
  ASSUME TypeOK, StraysAreLogged, Drain, stray' = stray
  PROVE  {unsolicited', written'} \subseteq Seq(Frame) /\ stray' \in Seq(Markers) /\ StraysAreLogged'
<1>1. written \in Seq(Frame) /\ unsolicited \in Seq(Frame) /\ stray \in Seq(Markers)
  BY DEF TypeOK
<1>2. Lines \in Seq(Frame) /\ <<>> \in Seq(Frame)
  BY <1>1 DEF Lines
<1>3. Lines' = Lines \o <<>> /\ written' = Lines /\ unsolicited' = <<>>
  BY DEF Drain, Lines
<1>4. Lines' = Lines
  BY <1>2, <1>3, ConcatEmptySeq
<1> QED
  BY <1>1, <1>2, <1>3, <1>4, SameLines

\* The end of a poll, after its last call: whatever the call was, what it changes besides
\* is the list of results at most.
LEMMA FinishStep ==
  ASSUME IInv, pc \in {"poll", "KeepAlive"},
         NEW state \in Reports, NEW ok \in BOOLEAN, NEW recent \in BOOLEAN,
         Finish(state, ok, recent),
         new_state' \in BoundedSeq(Values \cup {None}, Polls), poll_ok' \in BOOLEAN,
         call' = "none", keep_alive' = keep_alive, up' = up, stray' = stray
  PROVE  IInv'
<1>1. cycle \in 0..MaxCycles /\ cycle > 0 /\ cycle \in Nat
  BY MonitorAssumption DEF IInv, TypeOK, PollUnderWay
<1>2. PICK now \in BOOLEAN : Report(state, now)
  BY DEF Finish
<1>3. /\ log' \in Seq(Line) /\ Len(log') <= cycle
      /\ last_state' \in Reports /\ connected' \in BOOLEAN
      /\ log' # <<>> /\ Last(log') = [state |-> last_state', connected |-> connected']
      /\ NoRepetition'
  BY <1>2, ReportStep
<1>4. {unsolicited', written'} \subseteq Seq(Frame) /\ stray' \in Seq(Markers) /\ StraysAreLogged'
  BY DrainStep DEF IInv, Finish
<1>5. pc' = "watch" /\ cycle' = cycle /\ fresh' \in BOOLEAN
  BY DEF Finish
<1>6. TypeOK'
  BY <1>1, <1>3, <1>4, <1>5 DEF IInv, TypeOK
<1>7. PollUnderWay' /\ LastIsLatest'
  BY <1>3, <1>5 DEF PollUnderWay, LastIsLatest, Logged
<1> QED
  BY <1>3, <1>4, <1>6, <1>7 DEF IInv

\* One more result, after which the poll goes on, sends KeepAlive, or ends.
LEMMA PolledStep ==
  ASSUME IInv, NEW value \in Values \cup {None}, NEW ok \in BOOLEAN, NEW recent \in BOOLEAN,
         Polled(value, ok, recent)
  PROVE  IInv'
<1> DEFINE results == Append(new_state, value)
<1>1. pc = "poll" /\ call' = "none" /\ new_state' = results /\ poll_ok' = ok
  BY DEF Polled
<1>2. Len(new_state) < Polls /\ new_state \in BoundedSeq(Values \cup {None}, Polls)
  BY <1>1 DEF IInv, TypeOK
<1>3. results \in BoundedSeq(Values \cup {None}, Polls)
  BY <1>2, Results
<1>4. Len(results) \in 0..Polls /\ (Len(results) = Polls => results \in Reports)
  BY <1>3, Results
<1>5. UNCHANGED <<keep_alive, up, stray>>
  BY DEF Polled
<1>6. CASE Len(results) < Polls
  <2>1. fresh' = recent /\ UNCHANGED <<pc, reportVars, unsolicited, written>>
    BY <1>1, <1>6 DEF Polled
  <2>2. StraysAreLogged'
    BY <1>1, <1>5, <2>1, SameFrames DEF IInv
  <2> QED
    BY <1>1, <1>3, <1>5, <1>6, <2>1, <2>2
       DEF IInv, TypeOK, PollUnderWay, NoRepetition, LastIsLatest, Logged, reportVars
<1>7. CASE Len(results) = Polls /\ keep_alive /\ ok
  <2>1. fresh' = recent /\ pc' = "KeepAlive" /\ UNCHANGED <<reportVars, unsolicited, written>>
    BY <1>1, <1>7, MonitorAssumption DEF Polled
  <2>2. StraysAreLogged'
    BY <1>1, <1>5, <2>1, SameFrames DEF IInv
  <2> QED
    BY <1>1, <1>3, <1>5, <1>7, <2>1, <2>2
       DEF IInv, TypeOK, PollUnderWay, NoRepetition, LastIsLatest, Logged, reportVars
<1>8. CASE Len(results) = Polls /\ ~(keep_alive /\ ok)
  <2>1. Finish(results, ok, recent)
    BY <1>1, <1>8, MonitorAssumption DEF Polled
  <2> QED
    BY <1>1, <1>3, <1>4, <1>5, <1>8, <2>1, FinishStep
<1> QED
  BY <1>4, <1>6, <1>7, <1>8, MonitorAssumption

--------------------------------------------------------------------------------
(* The steps.                                                               *)

\* A poll is begun where the last one has been logged.
LEMMA BeginStep == ASSUME IInv, BeginPoll PROVE IInv'
<1>1. cycle' = cycle + 1 /\ cycle' \in 0..MaxCycles /\ cycle \in Nat
  BY MonitorAssumption DEF IInv, TypeOK, BeginPoll
<1>2. <<>> \in BoundedSeq(Values \cup {None}, Polls) /\ Len(<<>>) < Polls
  BY MonitorAssumption DEF BoundedSeq, SeqOf
<1>3. TypeOK'
  BY <1>1, <1>2 DEF IInv, TypeOK, BeginPoll, frameVars
<1>4. PollUnderWay' /\ LastIsLatest'
  BY <1>1 DEF IInv, TypeOK, PollUnderWay, LastIsLatest, Logged, BeginPoll
<1>5. StraysAreLogged'
  BY SameFrames DEF IInv, BeginPoll, frameVars
<1> QED
  BY <1>3, <1>4, <1>5 DEF IInv, NoRepetition, BeginPoll

\* What the monitor is left with is written.
LEMMA LeaveStep == ASSUME IInv, Leave PROVE IInv'
<1>1. {unsolicited', written'} \subseteq Seq(Frame) /\ stray' \in Seq(Markers) /\ StraysAreLogged'
  BY DrainStep DEF IInv, Leave
<1>2. TypeOK'
  BY <1>1 DEF IInv, TypeOK, Leave, pollVars, reportVars
<1>3. PollUnderWay'
  BY MonitorAssumption DEF IInv, TypeOK, PollUnderWay, Logged, Leave, pollVars, reportVars
<1> QED
  BY <1>1, <1>2, <1>3 DEF IInv, NoRepetition, Leave, reportVars

\* What is kept of the frames that came: each by its number, but those too short for an id.
Kept(frames) ==
  {[number |-> n, marker |-> frames[n]] : n \in {m \in DOMAIN frames : frames[m] # "short"}}

\* One more frame is one more to be kept, unless it is too short; its number is new.
LEMMA KeptOneMore ==
  ASSUME NEW frames \in Seq(Markers), NEW marker \in Markers
  PROVE  LET n == Len(frames) + 1
         IN  /\ Kept(Append(frames, marker)) =
                  IF marker = "short" THEN Kept(frames)
                  ELSE Kept(frames) \cup {[number |-> n, marker |-> marker]}
             /\ \A frame \in Kept(frames) : frame.number < n
<1> DEFINE more == Append(frames, marker)
           n == Len(frames) + 1
<1>1. /\ more \in Seq(Markers) /\ Len(frames) \in Nat /\ DOMAIN frames = 1..Len(frames)
      /\ DOMAIN more = 1..n /\ more[n] = marker /\ \A m \in 1..Len(frames) : more[m] = frames[m]
  OBVIOUS
<1>2. \A m \in DOMAIN more : m = n \/ m \in DOMAIN frames
  BY <1>1
<1>3. DOMAIN frames \subseteq DOMAIN more /\ n \in DOMAIN more
  BY <1>1
<1>4. \A frame \in Kept(frames) : frame.number < n
  BY <1>1 DEF Kept
<1> DEFINE old(m) == [number |-> m, marker |-> frames[m]]
           new(m) == [number |-> m, marker |-> more[m]]
           one == [number |-> n, marker |-> marker]
<1> HIDE DEF more
<1>5. new(n) = one /\ \A m \in DOMAIN frames : new(m) = old(m)
  BY <1>1
<1>6. /\ Kept(more) = {new(m) : m \in {k \in DOMAIN more : more[k] # "short"}}
      /\ Kept(frames) = {old(m) : m \in {k \in DOMAIN frames : frames[k] # "short"}}
  BY DEF Kept
<1> HIDE DEF old, new, one
<1>7. ASSUME NEW x \in Kept(more) PROVE x \in Kept(frames) \/ (marker # "short" /\ x = one)
  <2>1. PICK m \in DOMAIN more : more[m] # "short" /\ x = new(m)
    BY <1>6
  <2>2. CASE m = n
    BY <1>1, <1>5, <2>1, <2>2
  <2>3. CASE m \in DOMAIN frames
    <3>1. frames[m] # "short" /\ x = old(m)
      BY <1>1, <1>5, <2>1, <2>3
    <3> QED
      BY <1>6, <2>3, <3>1
  <2> QED
    BY <1>2, <2>2, <2>3
<1>8. ASSUME NEW x \in Kept(frames) PROVE x \in Kept(more)
  <2>1. PICK m \in DOMAIN frames : frames[m] # "short" /\ x = old(m)
    BY <1>6
  <2>2. more[m] # "short" /\ x = new(m) /\ m \in DOMAIN more
    BY <1>1, <1>3, <1>5, <2>1
  <2> QED
    BY <1>6, <2>2
<1>9. marker # "short" => one \in Kept(more)
  BY <1>1, <1>3, <1>5, <1>6
<1>10. Kept(more) = IF marker = "short" THEN Kept(frames) ELSE Kept(frames) \cup {one}
  BY <1>7, <1>8, <1>9
<1> QED
  BY <1>4, <1>10 DEF more, one

\* A frame that belongs to no call is kept behind those that came before it, unless it is
\* too short.
LEMMA StrayStep == ASSUME IInv, NEW marker \in Markers, Stray(marker) PROVE IInv'
<1> DEFINE n == Len(stray) + 1
           frame == [number |-> n, marker |-> marker]
<1>1. written \in Seq(Frame) /\ unsolicited \in Seq(Frame) /\ stray \in Seq(Markers)
  BY DEF IInv, TypeOK
<1>2. stray' = Append(stray, marker) /\ written' = written /\ pc # "ended" /\ pc' = pc
  BY DEF Stray
<1>3. Len(stray) \in Nat /\ n \in 1..MaxFrames /\ Len(stray') = n /\ stray' \in Seq(Markers)
  BY <1>1, <1>2, MonitorAssumption DEF Stray
<1>4. Kept(stray) = {Lines[i] : i \in DOMAIN Lines} /\ \A i, j \in DOMAIN Lines : i < j => Lines[i].number < Lines[j].number
  BY DEF IInv, StraysAreLogged, Kept
<1>5. /\ Kept(stray') = IF marker = "short" THEN Kept(stray) ELSE Kept(stray) \cup {frame}
      /\ \A f \in Kept(stray) : f.number < n
  BY <1>1, <1>2, KeptOneMore
<1>6. CASE marker = "short"
  <2>1. unsolicited' = unsolicited /\ Lines' = Lines
    BY <1>2, <1>6 DEF Stray, Lines
  <2>2. StraysAreLogged'
    BY <1>2, <1>4, <1>5, <1>6, <2>1 DEF StraysAreLogged, Kept
  <2> QED
    BY <1>1, <1>2, <1>3, <2>1, <2>2
       DEF IInv, TypeOK, PollUnderWay, NoRepetition, LastIsLatest, Logged, Stray, pollVars, reportVars
<1>7. CASE marker # "short"
  <2>1. unsolicited' = Append(unsolicited, frame)
    BY <1>3, <1>7 DEF Stray
  <2>2. frame \in Frame
    BY <1>3, <1>7 DEF Frame
  <2>3. Lines' = Append(Lines, frame) /\ Lines \in Seq(Frame)
    <3>1. <<frame>> \in Seq(Frame) /\ Lines \in Seq(Frame)
      BY <1>1, <2>2 DEF Lines
    <3>2. Append(unsolicited, frame) = unsolicited \o <<frame>> /\ Append(Lines, frame) = Lines \o <<frame>>
      BY <1>1, <2>2, <3>1, AppendIsConcat
    <3>3. written \o (unsolicited \o <<frame>>) = (written \o unsolicited) \o <<frame>>
      BY <1>1, <3>1, ConcatAssociative
    <3> QED
      BY <1>2, <2>1, <3>1, <3>2, <3>3 DEF Lines
  <2>4. /\ Len(Lines) \in Nat /\ DOMAIN Lines = 1..Len(Lines) /\ DOMAIN Lines' = 1..Len(Lines) + 1
        /\ Lines'[Len(Lines) + 1] = frame /\ \A i \in DOMAIN Lines : Lines'[i] = Lines[i]
    BY <2>2, <2>3
  <2>5. \A i \in DOMAIN Lines : Lines[i].number < n
    BY <1>4, <1>5
  <2>6. \A i, j \in DOMAIN Lines' : i < j => Lines'[i].number < Lines'[j].number
    <3> SUFFICES ASSUME NEW i \in DOMAIN Lines', NEW j \in DOMAIN Lines', i < j
                 PROVE  Lines'[i].number < Lines'[j].number
      OBVIOUS
    <3>1. i \in DOMAIN Lines /\ (j \in DOMAIN Lines \/ j = Len(Lines) + 1)
      BY <2>4
    <3> QED
      BY <1>4, <2>4, <2>5, <3>1
  <2>7. {Lines'[i] : i \in DOMAIN Lines'} = Kept(stray')
    <3>1. {Lines'[i] : i \in DOMAIN Lines'} = {Lines[i] : i \in DOMAIN Lines} \cup {frame}
      BY <2>4
    <3> QED
      BY <1>4, <1>5, <1>7, <3>1
  <2>8. StraysAreLogged'
    BY <1>2, <2>6, <2>7 DEF StraysAreLogged, Kept
  <2>9. unsolicited' \in Seq(Frame)
    BY <1>1, <2>1, <2>2
  <2> QED
    BY <1>1, <1>2, <1>3, <2>8, <2>9
       DEF IInv, TypeOK, PollUnderWay, NoRepetition, LastIsLatest, Logged, Stray, pollVars, reportVars
<1> QED
  BY <1>6, <1>7

\* The steps that touch neither the poll nor its results, nor the file.
LEMMA OtherStep ==
  ASSUME IInv, Send \/ Answer \/ Lose \/ Reopen \/ TimePasses
  PROVE  IInv'
<1>1. UNCHANGED <<pc, keep_alive, pollVars, reportVars, frameVars>>
  BY DEF Send, Answer, Lose, Reopen, TimePasses
<1>2. TypeOK'
  BY <1>1 DEF IInv, TypeOK, Send, Answer, Lose, Reopen, TimePasses, pollVars, reportVars, frameVars
<1>3. StraysAreLogged'
  BY <1>1, SameFrames DEF IInv, frameVars
<1> QED
  BY <1>1, <1>2, <1>3 DEF IInv, PollUnderWay, NoRepetition, LastIsLatest, Logged, pollVars, reportVars

LEMMA NextInv == IInv /\ [Next]_vars => IInv'
<1> SUFFICES ASSUME IInv, [Next]_vars PROVE IInv'
  OBVIOUS
<1>1. poll_ok \in BOOLEAN /\ fresh \in BOOLEAN
  BY DEF IInv, TypeOK
<1>2. CASE PolledNone
  BY <1>1, <1>2, PolledStep DEF PolledNone
<1>3. CASE PollFailed
  BY <1>1, <1>3, PolledStep DEF PollFailed
<1>4. ASSUME NEW v \in Values, PolledValue(v) PROVE IInv'
  BY <1>1, <1>4, PolledStep DEF PolledValue
<1>5. CASE KeptAlive
  <2>1. pc = "KeepAlive" /\ UNCHANGED <<new_state, poll_ok>>
    BY <1>5 DEF KeptAlive, pollVars
  <2>2. new_state \in BoundedSeq(Values \cup {None}, Polls) /\ new_state \in Reports
    BY <2>1, Results DEF IInv, TypeOK, PollUnderWay
  <2> QED
    BY <1>1, <1>5, <2>1, <2>2, FinishStep DEF KeptAlive
<1>6. CASE UNCHANGED vars
  <2>1. StraysAreLogged'
    BY <1>6, SameFrames DEF IInv, vars, frameVars
  <2> QED
    BY <1>6, <2>1 DEF vars, pollVars, reportVars, frameVars, IInv, TypeOK, PollUnderWay, NoRepetition,
       LastIsLatest, Logged
<1> QED
  BY <1>2, <1>3, <1>4, <1>5, <1>6, BeginStep, LeaveStep, StrayStep, OtherStep DEF Next

--------------------------------------------------------------------------------
(* Theorems.                                                                *)

\* The inductive invariant holds at all times.
THEOREM Invariance == Spec => []IInv
BY InitInv, NextInv, PTL DEF Spec

\* Every variable stays in its type: a poll never has more results than commands, and
\* there are no more lines than polls.
THEOREM TypeCorrect == Spec => []TypeOK
BY Invariance, PTL DEF IInv

\* Between two polls the last line is what the last poll found, and no line repeats the
\* one before it: run_monitor compares with what it logged.
THEOREM LogIsTrue == Spec => []LogIsHistory
<1>1. IInv => LogIsHistory
  BY DEF IInv, LastIsLatest, Logged, NoRepetition, LogIsHistory
<1> QED
  BY <1>1, Invariance, PTL

\* Whatever frames come for no call, and whenever the monitor is left: those that may have
\* an id, and only they, are written, once and in their order.
THEOREM NoFrameIsLost == Spec => []StraysAreLogged
BY Invariance, PTL DEF IInv
================================================================================
