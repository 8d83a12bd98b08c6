----------------------------- MODULE MCAnswerStream -----------------------------
(* A small instance of AnswerStream for TLC, and of FrameAccumulator with   *)
(* it: every stream of up to MaxItems items, cut into reads in every way.   *)
EXTENDS AnswerStream

\* The fourth byte of the response is 10 where _HEARTBEAT_RESPONSE has 79, so that
\* MaxFrame can be 24 where MAX_FRAME_SIZE is 512.
MCHeartbeat == <<2, 80, 10, 78, 71, 3>>

Row(event, major, minor, request, response) ==
  [event |-> event, major |-> major, minor |-> minor, request |-> request, response |-> response]

\* Rows of commands.json, of GetSensorData its first fields only.
GetSensorData   == Row(FALSE, 20, 4, <<>>, <<"uint8", "sint16">>)
GetBatteryLevel == Row(FALSE, 4106, 20, <<>>, <<"uint8">>)
GetMessage      == Row(FALSE, 4730, 1, <<"uint32">>, <<"tUnixTime", "uint32", "uint8">>)
GetMode         == Row(FALSE, 4586, 1, <<>>, <<"uint8">>)
StateEvent      == Row(TRUE, 4586, 1, <<>>, <<"uint8">>)
ActivityEvent   == Row(TRUE, 4586, 2, <<>>, <<"uint8">>)

MCCommands == {GetSensorData, GetBatteryLevel, GetMessage, GetMode, StateEvent, ActivityEvent}

MCAsked == Simple :> [command |-> GetSensorData, args |-> <<>>]
        @@ 3      :> [command |-> GetBatteryLevel, args |-> <<>>]

Level(n) == [of |-> 3, command |-> GetBatteryLevel, values |-> <<n>>]
State(n) == [of |-> Event, command |-> StateEvent, values |-> <<n>>]

\* A start of a frame for a value, twice the same event, a negative number.
MCSpoken ==
  { Level(2), State(7), [of |-> Simple, command |-> GetSensorData, values |-> <<1, -2>>] }

\* r with v for its ith byte, as on a line with noise.
Damaged(r, i, v) == [r EXCEPT ![i] = v]

MCDebris ==
  { SubSeq(Bytes(Level(2)), 1, 4),          \* the first bytes of an answer
    Damaged(Bytes(Level(2)), 10, 3),        \* another value
    Damaged(Bytes(State(7)), 14, 2),        \* another event
    Damaged(Bytes(Level(2)), 4, 1),         \* a length no frame has
    SubSeq(MCHeartbeat, 1, 3), <<2>>, <<0>> }

MCStreams == {StreamOf(items) : items \in BoundedSeq(Items, MaxItems)}

\* The frames of docs/protocol.md, byte for byte: of a request, two responses (the
\* second to command 4664/3) and an event.  The sum of the extended request there is
\* that of the same request with id 0.
ASSUME DocumentedRequest ==
  /\ SimpleRequest(Row(FALSE, 20, 1, <<>>, <<>>), <<>>) = <<2, 20, 1, 1, 78, 3>>
  /\ Crc(<<129, 7, 0, 0, 144, 10, 1, 20>>) = 209

ASSUME DocumentedResponses ==
  LET asked    == Row(FALSE, 20, 1, <<>>, <<"uint16", "sint16", "sint16", "sint16", "sint16">>)
      loggedIn == Row(FALSE, 4664, 3, <<>>, <<"bool">>)
  IN  /\ Answer(asked, <<2, 21, 12, 0, 0, 0, 80, 0, 234, 255, 239, 3, 0, 17, 1, 204, 3>>) = <<>>
      /\ Answer(loggedIn, <<2, 129, 8, 0, 3, 146, 57, 2, 0, 0, 218, 3>>) = <<0>>

ASSUME DocumentedEvent ==
  LET r == <<2, 253, 16, 0, 0, 0, 0, 0, 1, 254, 2, 234, 17, 1, 0, 1, 0, 7, 59, 3>>
  IN  LinkedAccepts(StateEvent, r) /\ EventData(StateEvent, r) = <<7>> /\ r = Bytes(State(7))
================================================================================
