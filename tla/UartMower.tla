------------------------------- MODULE UartMower --------------------------------
(****************************************************************************)
(* UartMower of src/pyam3/uart_client.py: a client on a serial port, its    *)
(* calls under way, and the transports it opened one after the other.       *)
(*                                                                          *)
(* A transport (of serial_asyncio) that is closed, or breaks, calls         *)
(* connection_lost of its protocol in a later turn of the event loop: it is *)
(* "due" till then, and writes to it are dropped.  connect() is called when *)
(* the client is not connected, does not give way to other tasks, and       *)
(* changes nothing when it fails.                                           *)
(*                                                                          *)
(* A proof module extends this module together with WifiSession, so that    *)
(* the names both would use bear a prefix here.                             *)
(*                                                                          *)
(* Definitions introduced as "Fault" are plausible bugs, each stated before *)
(* the definition it would replace; no specification uses them.             *)
(****************************************************************************)
EXTENDS Naturals

CONSTANTS Calls,       \* calls of send_command
          Retries,     \* attempts of a call
          Transports,  \* bound of the model: transports that can be opened
          NoTransport  \* no transport

ASSUME UartAssumption == Retries \in Nat \ {0} /\ NoTransport \notin Transports

VARIABLES state,         \* of each transport: "unused", "open", "due" or "lost"
          transport,     \* _transport
          uartConnected, \* _connected
          at,            \* where each call is
          tries,         \* the attempts of each call so far
          on,            \* the transport of its latest attempt
          hasty          \* connect() came while connection_lost was due

uartVars == <<state, transport, uartConnected, at, tries, on, hasty>>

UartTypeOK ==
  /\ state \in [Transports -> {"unused", "open", "due", "lost"}]
  /\ transport \in Transports \cup {NoTransport} /\ uartConnected \in BOOLEAN
  /\ at \in [Calls -> {"idle", "waits", "timedOut", "cancelled", "answered"}]
  /\ tries \in [Calls -> 0..Retries]
  /\ on \in [Calls -> Transports \cup {NoTransport}]
  /\ hasty \in BOOLEAN

UartInit ==
  /\ state = [k \in Transports |-> "unused"]
  /\ transport = NoTransport /\ uartConnected = FALSE
  /\ at = [c \in Calls |-> "idle"]
  /\ tries = [c \in Calls |-> 0] /\ on = [c \in Calls |-> NoTransport]
  /\ hasty = FALSE

--------------------------------------------------------------------------------
(* The connection.                                                          *)

\* connect()
UartConnect(k) ==
  /\ ~uartConnected /\ state[k] = "unused"
  /\ state' = [state EXCEPT ![k] = "open"]
  /\ transport' = k /\ uartConnected' = TRUE
  /\ hasty' = (hasty \/ \E j \in Transports : state[j] = "due")
  /\ UNCHANGED <<at, tries, on>>

\* Fault: the transport is let go but not closed.
DisconnectOnly ==
  /\ transport' = NoTransport /\ uartConnected' = FALSE
  /\ UNCHANGED <<state, at, tries, on, hasty>>

\* disconnect()
UartDisconnect ==
  /\ state' = [k \in Transports |-> IF k = transport /\ state[k] = "open" THEN "due" ELSE state[k]]
  /\ transport' = NoTransport /\ uartConnected' = FALSE
  /\ UNCHANGED <<at, tries, on, hasty>>

\* The port fails.
Break(k) ==
  /\ state[k] = "open"
  /\ state' = [state EXCEPT ![k] = "due"]
  /\ UNCHANGED <<transport, uartConnected, at, tries, on, hasty>>

\* Fault: the flag is left to the next connect().
TransportLostQuietly(k) ==
  /\ state[k] = "due"
  /\ state' = [state EXCEPT ![k] = "lost"]
  /\ at' = [c \in Calls |-> IF at[c] = "waits" THEN "cancelled" ELSE at[c]]
  /\ UNCHANGED <<transport, uartConnected, tries, on, hasty>>

\* connection_lost of the protocol, and with it _on_transport_lost.
TransportLost(k) ==
  /\ state[k] = "due"
  /\ state' = [state EXCEPT ![k] = "lost"]
  /\ uartConnected' = FALSE
  /\ at' = [c \in Calls |-> IF at[c] = "waits" THEN "cancelled" ELSE at[c]]
  /\ UNCHANGED <<transport, tries, on, hasty>>

--------------------------------------------------------------------------------
(* Calls.                                                                   *)

Attempt(c) ==
  /\ at' = [at EXCEPT ![c] = "waits"]
  /\ tries' = [tries EXCEPT ![c] = tries[c] + 1]
  /\ on' = [on EXCEPT ![c] = transport]

End(c) ==
  /\ at' = [at EXCEPT ![c] = "idle"]
  /\ tries' = [tries EXCEPT ![c] = 0]
  /\ on' = [on EXCEPT ![c] = NoTransport]

Link == <<state, transport, uartConnected, hasty>>

Send(c) == at[c] = "idle" /\ uartConnected /\ Attempt(c) /\ UNCHANGED Link

\* A frame of an open transport answers the call.
Answered(c) ==
  /\ at[c] = "waits" /\ \E k \in Transports : state[k] = "open"
  /\ at' = [at EXCEPT ![c] = "answered"]
  /\ UNCHANGED <<tries, on>> /\ UNCHANGED Link

Timeout(c) ==
  /\ at[c] = "waits"
  /\ at' = [at EXCEPT ![c] = "timedOut"]
  /\ UNCHANGED <<tries, on>> /\ UNCHANGED Link

\* The next attempt.  It does not look at _connected.
Retry(c) ==
  /\ at[c] = "timedOut" /\ tries[c] < Retries /\ transport # NoTransport
  /\ Attempt(c) /\ UNCHANGED Link

\* The call returns; with an AttributeError if its next attempt finds no transport.
Return(c) ==
  /\ \/ at[c] \in {"answered", "cancelled"}
     \/ at[c] = "timedOut" /\ (tries[c] = Retries \/ transport = NoTransport)
  /\ End(c) /\ UNCHANGED Link

UartNext ==
  \/ UartDisconnect
  \/ \E k \in Transports : UartConnect(k) \/ Break(k) \/ TransportLost(k)
  \/ \E c \in Calls : Send(c) \/ Answered(c) \/ Timeout(c) \/ Retry(c) \/ Return(c)

UartSpec == UartInit /\ [][UartNext]_uartVars

--------------------------------------------------------------------------------
(* Properties.                                                              *)

\* The client says it is connected exactly when a transport is open, and writes to
\* that one, or it has not been told of the loss yet.  A connect() that does not wait
\* for connection_lost of the last transport is excepted: the callback then clears
\* the flag of the new connection.
CoherentUnlessHasty ==
  ~hasty =>
    /\ uartConnected => transport # NoTransport /\ state[transport] \in {"open", "due"}
    /\ \A k \in Transports : state[k] = "open" => uartConnected /\ transport = k

\* With the same exception, the loss of a transport cancels no call that the mower can
\* still answer, one whose last attempt went to an open transport.
LossTakesItsOwn ==
  [][~hasty' => \A c \in Calls : at[c] = "waits" /\ at'[c] = "cancelled"
                                   => \A k \in Transports : on[c] = k => state[k] # "open"]_uartVars
================================================================================
