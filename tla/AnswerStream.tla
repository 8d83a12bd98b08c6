------------------------------- MODULE AnswerStream ------------------------------
(****************************************************************************)
(* What the mower says, on its way to those who asked: answers and events   *)
(* are encoded, arrive as one stream with heartbeats of the bridge and      *)
(* debris between them, are cut out of it by FrameAccumulator, find their   *)
(* command in _dispatch_frame of src/pyam3/client.py, and are decoded.      *)
(*                                                                          *)
(* The calls under way, and with them what each id asks for, do not change  *)
(* here; MowerClient models how they come and go.                           *)
(****************************************************************************)
EXTENDS FrameAccumulator, Protocol

CONSTANTS Asked,    \* the calls under way: id -> [command, args]
          Spoken,   \* what the mower may say: [of, command, values]
          Debris,   \* bytes that are no message of the mower
          MaxItems  \* bound of the model: messages, heartbeats and debris in a stream

Event  == -1  \* "of" a message nobody asked for
Simple == 0   \* stands for the id of the simple call

VARIABLES sent,  \* what the stream consists of
          done,  \* the calls whose future has a frame
          got    \* what callers and event handlers were given

answerVars == <<vars, sent, done, got>>

--------------------------------------------------------------------------------
(* The mower, as docs/protocol.md describes it.                             *)

\* An answer repeats the type, plus one, and the id of its request.
ReplyTo(request, data) ==
  IF request[2] = 129
  THEN Wrapped(<<129>> \o LittleEndian(7 + Len(data), 2)
               \o <<request[5], request[6], request[7] + 1, 1 + Len(data), 0>> \o data)
  ELSE Wrapped(<<request[2] + 1, 1 + Len(data), 0>> \o data)

EventFrame(c, data) ==
  Wrapped(<<253>> \o LittleEndian(15 + Len(data), 2) \o <<0, 0, 0, 0, 1, 254, 2>>
          \o LittleEndian(c.major, 2) \o LittleEndian(c.minor, 2)
          \o LittleEndian(Len(data), 2) \o data)

Bytes(m) ==
  LET data == Encoded(m.command.response, m.values)
  IN  IF m.of = Event
      THEN EventFrame(m.command, data)
      ELSE ReplyTo(Request(m.command, Asked[m.of].args, m.of), data)

Items == [of : {"message"}, says : Spoken] \cup [of : {"heartbeat"}] \cup [of : {"debris"}, bytes : Debris]

ItemBytes(x) == CASE x.of = "message"   -> Bytes(x.says)
                  [] x.of = "heartbeat" -> Heartbeat
                  [] x.of = "debris"    -> x.bytes

StreamOf(items) == FlattenSeq([i \in DOMAIN items |-> ItemBytes(items[i])])

\* A message as the mower sends it: an event of the table, or an answer to one of the
\* calls under way, with a value of each field, that fits a frame.
CanSay(m) ==
  LET c == m.command
  IN  /\ c.response # <<>> /\ AllFit(c.response, m.values) /\ Len(Bytes(m)) <= MaxFrame
      /\ {c.major, c.minor} \subseteq Nat /\ c.major < 32768 /\ c.minor < 65536
      /\ IF m.of = Event
         THEN c.event
         ELSE /\ m.of \in DOMAIN Asked /\ c = Asked[m.of].command
              /\ AllFit(c.request, Asked[m.of].args) /\ (IsSimple(c) <=> m.of = Simple)

\* The markers of the protocol, MAX_FRAME_SIZE of two bytes, and a heartbeat with text
\* where an answer has its status; no two events of the table have the same numbers.
ASSUME MessageAssumption ==
  /\ STX = 2 /\ LongMarkers = {129, 253} /\ MaxFrame < 65536 /\ MaxItems \in Nat \ {0}
  /\ Len(Heartbeat) >= 4 /\ Heartbeat[4] # 0
  /\ \A c, d \in Commands : c.event /\ d.event /\ c.major = d.major /\ c.minor = d.minor => c = d
  /\ Spoken \subseteq [of : Int, command : Commands, values : Seq(Int)]
  /\ \A m \in Spoken : CanSay(m)

\* The table has an end, ids are numbers, and the streams are what a connection may carry.
ASSUME AnswerAssumption ==
  /\ IsFiniteSet(Commands) /\ DOMAIN Asked \subseteq Nat
  /\ {StreamOf(items) : items \in UNION {[1..n -> Items] : n \in 1..MaxItems}} \subseteq Streams

--------------------------------------------------------------------------------
(* The client.                                                              *)

\* The call that r is addressed to.
IsFor(r, t) == \/ r[2] = 129 /\ Len(r) >= 5 /\ t = r[5]
               \/ r[2] < 128 /\ t = Simple

\* The call whose future _dispatch_frame resolves with r: none or one.
Taker(r) == {t \in DOMAIN Asked \ done : IsFor(r, t)}

\* What the caller, or the event handlers, are given of r: nothing, or one message.
Understood(r) ==
  LET answers == { [of |-> t, command |-> Asked[t].command, values |-> Answer(Asked[t].command, r)] :
                     t \in Taker(r) }
      events  == { [of |-> Event, command |-> c, values |-> EventData(c, r)] :
                     c \in {d \in Commands : r[2] = 253 /\ LinkedAccepts(d, r)} }
  IN  SetToSeq({m \in answers \cup events : m.values # <<>>})

--------------------------------------------------------------------------------

AnswerInit == Init /\ sent = <<>> /\ done = {} /\ got = <<>>

\* A connection that carries these items.
OpenWith(items) ==
  /\ Open(StreamOf(items))
  /\ sent' = items
  /\ UNCHANGED <<done, got>>

\* Another connection, with calls of its own.
ResetAll == Reset /\ sent' = <<>> /\ done' = {} /\ got' = <<>>

\* A frame is dispatched.
Dispatch ==
  /\ TakeFrame
  /\ LET r == frames'[Len(frames')]
     IN  done' = done \cup Taker(r) /\ got' = got \o Understood(r)
  /\ UNCHANGED sent

Silent ==
  /\ \/ \E n \in 1..(Len(stream) - fed) : Feed(n)
     \/ ClearAll \/ Discard \/ TakeHeartbeat \/ Resync \/ Wait
  /\ UNCHANGED <<sent, done, got>>

AnswerNext ==
  (\E n \in 1..MaxItems : \E items \in [1..n -> Items] : OpenWith(items)) \/ ResetAll \/ Dispatch \/ Silent

AnswerSpec == AnswerInit /\ [][AnswerNext]_answerVars

\* The loop of _extract runs to its end.
AnswerFairSpec == AnswerSpec /\ WF_vars(Extract)

--------------------------------------------------------------------------------
(* Properties.                                                              *)

\* Nothing but messages and heartbeats is in the stream.
Clean == \A i \in DOMAIN sent : sent[i].of # "debris"

Says(i, m) == sent[i].of = "message" /\ sent[i].says = m

\* The ith item is a message that somebody is to be given: an event, or the first answer
\* to its call.
IsDue(items, i) ==
  /\ items[i].of = "message"
  /\ \A j \in 1..i - 1 : items[j].of = "message" /\ items[j].says.of = items[i].says.of
                          => items[i].says.of = Event

\* What is due of the first k items, for each k.
DueOf(items) ==
  LET due[k \in 0..Len(items)] ==
        IF k = 0 THEN <<>>
        ELSE IF IsDue(items, k) THEN Append(due[k - 1], items[k].says) ELSE due[k - 1]
  IN  due

Due == DueOf(sent)[Len(sent)]

\* Nothing is made up: whatever the debris between them, each message that is given to
\* a caller or a handler was sent, and is not given more often than it was sent.
NothingMadeUp ==
  \A i \in DOMAIN got :
    Cardinality({j \in DOMAIN got : got[j] = got[i]}) <= Cardinality({j \in DOMAIN sent : Says(j, got[i])})

\* Of a stream without debris every message is understood, in order, as it was meant,
\* however it was cut into reads: the request builders, the accumulator,
\* _dispatch_frame and the parsers agree on the layout.
UnderstoodAsMeant ==
  /\ NothingMadeUp
  /\ Clean => IsPrefix(got, Due)
  /\ Clean /\ fed = Len(stream) /\ ~extracting => got = Due
================================================================================
