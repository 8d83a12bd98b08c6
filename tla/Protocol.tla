-------------------------------- MODULE Protocol --------------------------------
(****************************************************************************)
(* The package src/pyam3/protocol: requests, answers and events as bytes.   *)
(*                                                                          *)
(* A command is a row of commands.json as Commands() leaves it, without its *)
(* description.  The fields of a request or a response are known by their   *)
(* position, and a type "None" is an empty list of fields.  An exception    *)
(* leaves each parser the same way, so a parser is its conditions and what  *)
(* it returns when all of them hold.                                        *)
(*                                                                          *)
(* Definitions introduced as "Fault" are plausible bugs, each stated before *)
(* the definition it would replace; no specification uses them.             *)
(****************************************************************************)
EXTENDS Integers, Sequences, SequencesExt

CONSTANT Commands  \* rows [event, major, minor, request, response]

\* CRC-8-Maxim (the crcmod package), a bit at a time: the register is shifted, and
\* its bits 2, 3 and 7 are flipped if the bit it lost differs from that of the data.
Crc(bytes) ==
  LET flip(c) == c + 128 + 4 * (3 - 2 * ((c \div 4) % 4))
      bits[c \in 0..255, data \in 0..255, n \in 0..8] ==
        IF n = 0 THEN c
        ELSE bits[IF (c + data) % 2 = 0 THEN c \div 2 ELSE flip(c \div 2), data \div 2, n - 1]
      sum[i \in 0..Len(bytes)] == IF i = 0 THEN 0 ELSE bits[sum[i - 1], bytes[i], 8]
  IN  sum[Len(bytes)]

--------------------------------------------------------------------------------
(* Fields.                                                                  *)

Width(type) == CASE type \in {"uint32", "sint32", "tUnixTime"} -> 4
                 [] type \in {"uint16", "sint16"}              -> 2
                 [] type \in {"uint8", "bool"}                 -> 1

\* Where each field ends.
Ends(types) == LET end[i \in 0..Len(types)] == IF i = 0 THEN 0 ELSE end[i - 1] + Width(types[i])
               IN  end

Length(types) == Ends(types)[Len(types)]

LittleEndian(v, width) == [i \in 1..width |-> (v \div <<1, 256, 65536, 16777216>>[i]) % 256]

\* The types parse_data reads, and the values that fit them.
FieldType == {"uint8", "bool", "uint16", "sint16", "uint32", "tUnixTime"}

Fit(type, v) ==
  /\ type \in {"uint8", "bool"}       => v \in 0..255
  /\ type = "uint16"                  => v \in Nat /\ v < 65536
  /\ type = "sint16"                  => v >= -32768 /\ v < 32768
  /\ type \in {"uint32", "tUnixTime"} => v \in Nat /\ v \div 16777216 < 256

AllFit(types, values) ==
  /\ types \in Seq(FieldType) /\ values \in Seq(Int) /\ Len(values) = Len(types)
  /\ \A i \in 1..Len(types) : Fit(types[i], values[i])

\* Values, one after the other.
Encoded(types, values) ==
  FlattenSeq([i \in 1..Len(types) |-> LittleEndian(values[i], Width(types[i]))])

\* prepare_payload_data, given a value of each field that fits its type.
Payload(c, args) == Encoded(c.request, args)

\* int.from_bytes
Number(b) == CASE Len(b) = 1 -> b[1]
               [] Len(b) = 2 -> b[1] + 256 * b[2]
               [] Len(b) = 4 -> b[1] + 256 * b[2] + 65536 * b[3] + 16777216 * b[4]

Decode(type, b) ==
  IF type = "sint16" /\ Number(b) >= 32768 THEN Number(b) - 65536 ELSE Number(b)

\* parse_data finds as many bytes as the fields take.  Without fields it does not look.
Fits(types, data) == types = <<>> \/ Len(data) = Length(types)

\* parse_data
Fields(types, data) ==
  [i \in 1..Len(types) |-> Decode(types[i], SubSeq(data, Ends(types)[i - 1] + 1, Ends(types)[i]))]

--------------------------------------------------------------------------------
(* Requests.                                                                *)

IsSimple(c) == c.major < 127

\* STX, the body with its check sum, ETX.
Wrapped(body) == <<2>> \o body \o <<Crc(body), 3>>

SimpleRequest(c, args) ==
  Wrapped(<<c.major, Length(c.request) + 1, c.minor>> \o Payload(c, args))

\* The id is the one _send_extended patches in, after which it takes the sum again.
ExtendedRequest(c, args, tid) ==
  LET n == Length(c.request)
  IN  Wrapped(<<129>> \o LittleEndian(7 + n, 2)
              \o <<tid, 128 + ((c.major \div 256) % 128), c.major % 256, 1 + n, c.minor>>
              \o Payload(c, args))

Request(c, args, tid) ==
  IF IsSimple(c) THEN SimpleRequest(c, args) ELSE ExtendedRequest(c, args, tid)

--------------------------------------------------------------------------------
(* Answers and events.                                                      *)

IsWrapped(r) == r[1] = 2 /\ r[Len(r)] = 3

\* Fault: the check sum of an answer is not looked at.
SumIgnored(r) == TRUE

SumRight(r) == Crc(SubSeq(r, 2, Len(r) - 2)) = r[Len(r) - 1]

\* parse_response of SimpleProtocol accepts r as an answer to c; the status is not looked at.
SimpleAccepts(c, r) ==
  /\ IsWrapped(r) /\ SumRight(r)
  /\ r[3] - 1 = Len(r) - 6
  /\ r[2] - 1 = c.major
  /\ Fits(c.response, SubSeq(r, 5, Len(r) - 2))

MsgType(hi, lo) == (256 * hi + lo) % 32768

\* parse_response of ExtendedProtocol: the mower is ready, and the status is AMG3_CMD_OK.
ExtendedAccepts(c, r) ==
  /\ Len(r) >= 9 /\ IsWrapped(r) /\ r[2] = 129
  /\ r[6] # 127
  /\ r[3] + 256 * r[4] = Len(r) - 4
  /\ MsgType(r[6], r[7]) - 1 = c.major
  /\ SumRight(r)
  /\ r[9] = 0
  /\ Fits(c.response, SubSeq(r, 10, Len(r) - 2))

\* What send_command returns of answer r to a call of c: a list of no values stands
\* for None, as does an answer that is not accepted.
Answer(c, r) ==
  CASE IsSimple(c)  /\ SimpleAccepts(c, r)   -> Fields(c.response, SubSeq(r, 5, Len(r) - 2))
    [] ~IsSimple(c) /\ ExtendedAccepts(c, r) -> Fields(c.response, SubSeq(r, 10, Len(r) - 2))
    [] OTHER                                 -> <<>>

\* get_event_command_from_major_minor
EventCommands(major, minor) ==
  {c \in Commands : c.major = major /\ c.minor = minor /\ c.event}

\* parse_response of LinkedProtocol accepts r as an event of kind c.
LinkedAccepts(c, r) ==
  /\ Len(r) >= 19 /\ IsWrapped(r) /\ r[2] = 253
  /\ r[3] + 256 * r[4] = Len(r) - 4
  /\ SumRight(r)
  /\ r[11] = 2
  /\ c \in EventCommands(r[12] + 256 * r[13], r[14] + 256 * r[15])
  /\ Fits(c.response, SubSeq(r, 18, Len(r) - 2))

EventData(c, r) == Fields(c.response, SubSeq(r, 18, Len(r) - 2))
================================================================================
