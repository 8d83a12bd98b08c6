# Formal model of pyam3

pyam3 talks to a Husqvarna Automower over its serial protocol: directly over a
UART, or over WiFi through an ESP32 that bridges TCP to the UART of the mower. On
top of it sit a Home Assistant integration and a few command line scripts. This
directory holds TLA+ modules that model the concurrent core of that system, TLC
configurations that check them, and proofs checked by TLAPS.

Line numbers below refer to the files under `src/`.

## Components

| Component | State it keeps | Operations | What makes it hard | Modelled |
|---|---|---|---|---|
| `Mower` (`pyam3/client.py:122-370`) | `_pending`, `_next_tid`, `_simple_lock`, `_simple_future`, `_connected` | `send_command`, `_dispatch_frame`, `_cancel_pending` | any number of calls over one link; retries, timers, cancellation, loss and late answers in any order | `MowerClient` |
| `WifiSerialMower` (`client.py:375-537`) | `_reader`, `_writer`, `_recv_task`, `_heartbeat_task`, `_stop_event`, `_reconnect` | `connect`, `disconnect`, receive loop, heartbeat loop, close, open | three kinds of tasks close and open the same attributes, each with awaits in between | `WifiSession` |
| `_FrameAccumulator` (`client.py:26-117`) | `_buf` | `feed`, `reset` | frames, pongs and noise are cut anywhere; corrupted length fields | `FrameAccumulator` |
| ESP32 bridge (`esphome/components/mower_bridge/`) | `server_fd_`, `client_fd_`, `tcp_buf_` | `loop()`: set up, accept, TCP to UART, UART to TCP, close | clients that vanish or reset between two calls; one client at a time | `MowerBridge` |
| `UartMower` (`pyam3/uart_client.py`) | `_transport`, its protocol object | `connect`, `disconnect`, `connection_lost` | the late `connection_lost` of a transport that was closed; retries that do not look at `_connected` | `UartMower` |
| Protocol (`pyam3/protocol/`) and `_dispatch_frame` | the command table | build a request, parse an answer or an event | three layouts, known by offset in several places; damaged and cut-off frames | `Protocol`, `AnswerStream` |
| Coordinator (`custom_components/mower_wifi/coordinator.py`) | `_data`, `_last_contact` | poll (nine concurrent commands), events | events arrive while a poll is under way; some or all commands fail | `MowerCoordinator` |
| Lawn mower entity (`lawn_mower.py`), buttons, select | `_task_cancelled` | start, dock, pause, stop, park, resume, mode; the activity shown | each is a sequence of awaited commands; they overlap; nothing is persisted | `LawnMower`, `Activity` of `MowerCoordinator` |
| Setup and unload (`__init__.py`) | the client and coordinator of the entry | set up, unload | ends half way in several places; a client left behind | `Integration` |
| Calendar (`calendar.py`) | `_tasks`, `_tasks_last_fetched` | refresh, next event, list of events | overlapping and partial refreshes; weekdays, midnight, eight days of search | `MowerCalendar` |
| Status monitor (`scripts/status_monitor.py`, `logging_mower.py`) | what the last poll found, `_unsolicited_log` | poll, log changes, log frames of no call | frames and losses between any two awaits of a poll; Ctrl-C | `StatusMonitor` |
| Config flow, sensors | none | probe once; show a field of the coordinator's data | little | no |
| Error table, command line client | none that is shared | a table; menus around single calls | little | no |

How they interact: the accumulator of a connection calls `Mower._dispatch_frame`
for every frame and sets the pong event for every pong; the receive task of
`WifiSerialMower` feeds it. `WifiSerialMower` tells `Mower` of a lost connection by
`_cancel_pending` and the `_connected` attribute; `Mower` sends by `_send_bytes`. The
bridge and the client exchange bytes only. The coordinator and the entities call
`send_command` from tasks of their own and receive linked events by callback. Setup makes
a client and a coordinator, and unload disconnects that client.

The properties that make each component correct are the ones its module ends with;
`PROJECT.json` lists, under `hazards`, what can go wrong at which line and which
property would show it.

## Modules

### MowerClient: calls and answers

One step is what asyncio runs between two awaits, of any of the calling tasks. `pc`
says where a call is: idle, queued on `_simple_lock`, or in `wait_for`. `fut` and
`interrupt` are the two ways a call in `wait_for` is woken: its future is resolved or
cancelled, or its timer fires or its task is cancelled. Both may happen before the
task runs; then the outcome depends on the version of Python (3.11 and 3.12 differ),
and the model allows each of them. What resolves the future and what the task does
about it are two steps.

| Code | Definitions |
|---|---|
| search for an id, `client.py:300-304` | `IsFirstFree`, `Succ`, `Ahead` |
| entry of `send_command`, `_send_extended`, `_send_simple` | `SendOffline`, `SendExtended`, `SendSimple`, `QueueSimple`, `Acquire`, `Attempt` |
| `except` and `finally` clauses | `TakeAnswer`, `GiveUpOnLoss`, `Retry`, `RetryOffline`, `GiveUpOnTimeout`, `Cancelled`, `Finish`, `Unregister` |
| `_dispatch_frame` | `Deliver`, `DeliverLate`, `Dispatch`, `Registered` |
| `_cancel_pending` and what the transport does to the link | `ConnectionLost`, `LostAgain`, `WriterClosed`, `Reconnected`, `CancelPending` |

Between attempts the code unregisters the future of one attempt and registers the
next in the same step, so `Retry` just replaces it. An answer carries the id of its
request and, as a history, whose request it answers (`answer`): that is what
`OwnAnswer` is about. A call may be answered once per attempt; answers that are
still under way when it ends become `late`, and the mower or the network delivers
them later, more than once, or never.

Two things are assumed of the environment. An answer does not stay under way for a
whole lap of the id counter (255 calls); without it no protocol with cyclic ids
is safe. And tasks that are due run before a socket is closed or opened, which takes
several turns of the event loop.

The other half of what it assumes is a module of its own, `Link`: a connection is up,
lost with its writer still there, down, and up again. `MowerClient` takes its three
steps, and `ImplementsLink` of `WifiSession` says that the connection takes no others, so
long as no two tasks close or open at once. When they do, the steps come in other
orders; what calls do then is not modelled.

A simple answer has no id, so the next simple call may be given the answer to one that
ended early (`docs/protocol.md:158` has the lock do without an id). `ForeignOnlyWhenLate` says
that this is the only way: it happens only while the answer to an earlier simple call,
which ended without it, is still under way.

### WifiSession: tasks and connections

`running` is the task the event loop runs; it takes small steps until it suspends.
`pc` and `arg` say where each task is suspended and on what, `cancelled` which of
them resume with CancelledError. The tasks are the caller of `connect`/`disconnect`,
the heartbeat and one receive task per connection; connection numbers are used
again when nothing refers to them any more. `CancelTask` follows the semantics of
`Task.cancel()` (a task that awaits a task passes it on), and `JoinedRecv` the fact
that `_close_connection` swallows whatever that await raises, the RuntimeError of a
receive task that awaits itself included. `_close_connection` is `CloseA`,
`JoinedRecv`, `CloseB`, `JoinedWriter`, `CloseC`; `_open_connection` is `OpenTop`,
`Opened`, `Refused`, `BackedOff`, `OpenReturns`.

The pong event is modelled by the connection the ping went out on. Bytes other than
a pong are an empty read. `connect()` and `disconnect()` are called in turn by one
task that is not cancelled itself, as in Home Assistant's setup and unload and in
the scripts. A connection attempt is refused at will; the delay of the backoff is not
modelled, only that it ends. `LinkOf` is the link these attributes amount to, and
`ImplementsLink` the refinement above.

### Frames, Framing, FrameAccumulator: cutting the stream

`Frames` has the tests on the bytes from a start byte on: is it a heartbeat, is the
length known, is it implausible, is the frame whole. `Framing` is the promise: a
reader that has the whole stream in front of it and takes heartbeats and frames from
it one after the other. `FrameAccumulator` is the class: bytes arrive in pieces of any
size (`Feed`), and the loop of `_extract` takes from the head of the buffer
(`ClearAll`, `Discard`, `TakeHeartbeat`, `Resync`, `TakeFrame`, `Wait`). `ImplementsFraming`
says that it is a refinement: how the bytes were cut does not show. `NothingHeldBack`
is the other half: when all bytes are in, the reader of the whole stream would not
find more. The second comparison with the pong (`client.py:112-115`) cannot be true
where it stands and has no step of its own.

### Protocol, AnswerStream: what the bytes mean

`Protocol` is the package `pyam3/protocol` as operators: requests of both families
(`SimpleRequest`, `ExtendedRequest`, with the id patched in and the sum taken again as
`_send_extended` does), the parsers (`SimpleAccepts`, `ExtendedAccepts`, `LinkedAccepts`) and
the data they return (`Fields`). A command is its row of `commands.json`; fields are known
by position. Every exception of a parser ends the same way in its caller, so it is a
condition that is false.

`AnswerStream` puts it behind the accumulator: the mower's answers and events, encoded as
`docs/protocol.md` describes them (`ReplyTo`, `EventFrame`, external), come as one stream with
heartbeats and debris between them, are cut (`FrameAccumulator`), find their call in
`_dispatch_frame` (`Taker`) and are parsed (`Understood`). `UnderstoodAsMeant` says that of a
stream without debris everything is understood in order, and of any stream nothing that was
not said. `MCAnswerStream` also evaluates the frames of `docs/protocol.md` byte for byte.
One of them differs: the extended request at `docs/protocol.md:58`, whose id is 0x42,
bears the sum of the same request with id 0 (0xd1, where the sum over the bytes shown is
0xbb).

### UartMower: the serial port

Transports are opened one after the other; one that is closed, or breaks, is "due" until the
event loop calls `connection_lost`. `UartConnect`, `UartDisconnect`, `TransportLost` are the
methods (a few names bear a prefix, because `TransportProofs` extends both transports); `Send`,
`Answered`, `Timeout`, `Retry` and `Return` are what calls of `Mower` do on them, of which only
what touches the transport is kept here. `connect()` is called when the client is not connected. If it comes before `connection_lost` of the last transport (`hasty`), that
callback clears the flag of the new connection and cancels its calls; the two properties
are about every other case.

### MowerBridge: the ESP32

`loop()` is called for ever by one thread. A call is several steps (`turn`), and the
network may act between them. The loop that cuts frames makes the same tests as the
accumulator of the client, with PING in the place of PONG, so its steps are those of
`FrameAccumulator` (`Buffer`), and its sessions implement `Framing` (`Reader`). A client's
connection is up, silent (its host vanished), ended or reset. What the mower sends is
counted in chunks. It arrives between calls only: emptying the receive buffer is taken
to be quicker than the next byte, as it is on the ESP32 at the baud rates in use. `try_accept_` is called without a client
only, so its branch that replaces a client is not there; `bridge_second` is about that.

### MowerCoordinator: polls and events

`_async_update_data` is `StartPoll` (`gather` starts the commands), `Answers` and
`NoAnswer` for each of them in any order, and `EndPoll`, which merges what they
returned. `_handle_event` is `HandleEvent`; it may run between any two of these.
`contact` is what `connection_available` makes of `_last_contact`. Home Assistant runs
one poll at a time. A command that returns None and one that raises are the same to the
merge. A command answers with the values of a set of fields: `GetOverride` with three, the
others with one. `Cast` is what the merge stores of an answered value: a time of 0 becomes None
(`coordinator.py:116-124`), so an answer may make a known time unknown, and `NeverForgets`
says that nothing else does. The other casts fail on no well-formed answer. Events carry a
value, and none is a time.

`Activity` is the property of the lawn mower entity that reads the data. `ShownAsDocumented`
compares what the entity shows, once the mower is quiet and polls get through, with the table
of `docs/ha_component.md:74-127` in all five columns; mode and override are not read by the
entity, and the property quantifies over them. `Documented` is the first section of the table
with a row that applies. There may be none, and then the table says nothing and the code
something: IN_OPERATION and MOWING in the modes MANUAL, HOME or POI with no override is shown as
mowing, RESTRICTED and PARKED in the same modes but HOME as docked, as is what has an unknown value.
Where there is a row, code and table disagree in one group of cases, `MovesAnyway`: the entity
tests the activity before the state, the table goes by the state alone. A mower that reports
going out, mowing or going home while it is stopped, paused, pending start or off is shown as
moving by the code, and as idle, paused or docked by the table. The property leaves these out.

### LawnMower, Integration: services and setup

`LawnMower` extends the coordinator. A service reads the coordinator's data once, when it
is called (`StartMowing`, `Dock`, `PauseMowing`, `Stop`; `PressPark`, `PressResume` and `SelectMode`
are the buttons and the operating mode), which settles the commands it
will send; `todo` is what is left of them, with what becomes of `_task_cancelled` after
each. `Returns` and `Raises` end one await. Services overlap. `Restart` is a restart of
Home Assistant or a reload of the integration: all of its state begins again, the mower's
does not. `halt` is a history of the last service that counts for
`StartAfterLoneStopIsFull`.

`Integration` extends that with `async_setup_entry`, one step from one await to the next
(`Probe`, `Connect`, `Refreshed`, `Subscribed`, `Forwarded`; the two subscriptions are one step),
`SetupRaises`, `Unload` and `Exit`. Services and the periodic polls run from the time the
platforms are being set up till the entry is unloaded, events arrive as soon as the coordinator
exists. The first refresh raises nothing (`_async_update_data` returns what it has), so the branch
for `UpdateFailed` is not there. An unload that a platform refuses changes nothing.

`clients` are the clients that were connected and that no `disconnect()` has stopped. There are
two ways to leave one behind, and it is `abandoned` then. A subscription or the setup of a platform
raises (`__init__.py:45-49`), and nobody disconnects the client of that setup. Or the client has
lost its connection when the entry is unloaded (`Lose`, `reconnecting`), and `disconnect()` returns while
one of its tasks is opening another (`client.py:420`, shown by the run `session_disconnect`). `OneClient`
is about all others. What the tasks of one client do to each other is the subject of `WifiSession`,
and what platforms that were already set up show after a setup that raised is not modelled.

### MowerCalendar: tasks and events

A refresh awaits `GetNumberOfTasks` and then `GetTask` for each number (`Counted`,
`GotTask`, `SkippedTask`, and the ways out that keep the cache), while the schedule is
edited and another refresh may be doing the same. `NextEvent` and `Events` are `_get_next_event`
and `async_get_events`, as operators on the cache. The reference they are compared with,
`Mowing`, does not search: it says of one instant whether a task covers it. Neither
function looks back past midnight, so a task that runs into the next day is not shown
after midnight as one that is on; `Mowing` leaves it out as well, and says so.

### StatusMonitor: polls and a log

`run_monitor` is `BeginPoll`, then for each command `Send` and one of `PolledValue`, `PolledNone`
and `PollFailed`, then perhaps `KeptAlive`, and `Finish`: the line (`Report`) and the frames
that belong to no call (`Drain`), in one step with what the last await returned. Calls end as
`MowerClient` shows, at any time the connection may be lost and reopened and a frame may come
(`Answer`, `Stray`), and the monitor may be left at any await (`Leave`). Of time the model
knows whether `PING_TIMEOUT` has passed since `last_pong_time` (`fresh`). `log` and `written`
are the two kinds of lines of the file; `stray` is the history `written` is compared with: the
frames of no call, each by its marker. An event and a frame with an unknown marker are kept;
an extended frame that belongs to no call and has less than 5 bytes ("short") is neither kept
(`logging_mower.py:54`) nor taken by the base class (`client.py:174`), though the docstring
(`logging_mower.py:27-31`) says that frames the base class would drop are recorded. A simple
frame is of no call whenever it comes, because all commands that are polled are extended.

What the properties do not say, and reading shows: the time of the last sign of life is taken
after every call that returns (`status_monitor.py:119`), also when it returns None because the
connection was lost, so that a poll during which that happens may be logged as connected
without a value in it; the loop waits for the connection at its head (104), so that a loss
between two polls is not logged; `KeepAlive` is sent outside the `try` (128), and its
exception ends the monitor; Ctrl-C cancels the task in Python 3.11 and later, and
`disconnect()` (187) is not reached. A second answer to a call that has its answer
and has not run yet is dropped by the base class and not kept either (`logging_mower.py:56`). A
timer that runs out and a loss in the same turn of the event loop are not told apart from one
of them.

## Checks

`tlc -config X.cfg M` in this directory, for each run:

| Run | Module, configuration | Bounds | Shows |
|---|---|---|---|
| `client` | `MCMowerClient`, `client.cfg` | 2 callers, 3 ids, 2 attempts, 1 late id; 248,226 states | type, `OwnAnswer`, `FindsItsCall`, `OneSimple`, `NothingLeftBehind`, `ForeignOnlyWhenLate`, `LossEndsWaiting`, `EveryCallEnds` |
| `client_raise` | `client_raise.cfg` | 3 callers, 4 ids | violation: `send_command` raises |
| `session` | `MCWifiSession`, `session.cfg` | 2 connections at once; 51,269 states | type, `CoherentUnlessOverlap`, `ImplementsLink`, `Recovers`, `DisconnectReturns` |
| `session_disconnect` | `session_disconnect.cfg` | 3 connections | violation: connected after `disconnect()` |
| `accumulator` | `MCAnswerStream`, `accumulator.cfg` | all streams of up to 3 of 11 items, reads of every size, frames up to 24 bytes; 156,726 states | `RestIsPartial`, `UnderstoodAsMeant`, `ImplementsFraming`, `ExtractEnds` |
| `bridge` | `MCMowerBridge`, `bridge.cfg` | 2 clients, 4 streams, reads of up to 7 bytes, backlog 1, 2 chunks; 24,417 states | type, `NeverOverflows`, `OnlyFramesToUart`, `SessionIsFraming`, `WaitingIsServed`, `UartIsDrained` |
| `bridge_second` | `bridge_second.cfg` | the same, 1 chunk | violation: a second client is never accepted |
| `uart` | `MCUartMower`, `uart.cfg` | 2 calls of 2 attempts, 3 transports; 5,597 states | `CoherentUnlessHasty`, `LossTakesItsOwn` |
| `coordinator` | `MCMowerCoordinator`, `coordinator.cfg` | 4 commands for 5 fields, 2 of them with events; 165,208 states | `ShownAsDocumented`, `NeverForgets`, `CatchesUp`, `GoesUnavailable` |
| `entity` | `MCIntegration`, `entity.cfg` | 2 services at once, 2 clients at once, fields of 1 and 2 values; 860,320 states | type, `OneClient`, `StartAfterLoneStopIsFull` |
| `calendar` | `MCMowerCalendar`, `calendar.cfg` | schedules of up to 2 of 3 tasks, 2 refreshes at once, days of 2 instants, 9 days; 24,624 states | type, `CachesTheSchedule`, `NextIsFirst`, `EventsCover` |
| `monitor` | `MCStatusMonitor`, `monitor.cfg` | 3 polls of 2 commands with 2 values, 2 frames of no call, with and without `KeepAlive`; 1,551,582 states | type, `LogIsHistory`, `StraysAreLogged` |

Why the bounds are enough. Client: the interesting cases need two calls, one that is
in the other's way; three ids are enough for the counter to wrap between them and to
skip an id in flight; two attempts give a first, a retry and a last. Session: two
connections at once are what two overlapping reconnects make; connection numbers are
used again, so the number made over time is not bounded, and the safety part was
found to hold with three as well, and is proved for any number. Accumulator and bridge:
`MaxFrame` is 24 and 10 where the
code has 512 and one byte of the heartbeat is smaller so that it still reads as the
head of a plausible frame, which is what makes it hard; items are chosen so that each
branch is taken at each cut. The messages are one of each layout, with a value that is
itself a start byte and one that is negative; the debris are damage to a
value, to the command of an event and to a length, heads of frames, and stray bytes. The proofs below hold for the true values. UART: three
transports are one that is closed, one that comes too early and one after both have settled. Coordinator: the
merge treats fields alike but for the events and the times, so two with events, one without, and
a command with two of which one is a time are all kinds there are; their values make the
mower mow, charge and pause, and make one case of `MovesAnyway`; all other values are for the theorem
`ActivityIsDocumented`. Entity: the services tell apart one state and two groups of
activities, and of the states only whether it is paused, which is one value beside None; a third service at once would only do again what two do to each other. Two
clients are the one of this setup and one that a setup before it left behind.
Calendar: two instants a day are before and after, the tasks are one that is past on its
only weekday, one through the night and one of no duration, and nine days reach past
the same weekday of the next week. Status monitor: the third poll is compared with one that was
compared itself, and two commands are a first and a last; the run does not check for deadlock,
because the monitor ends.

### Fairness

- `MowerClient`: timers fire, and tasks that are due run (`Expire`, `Resume`, `Acquire`
  weakly fair). Nothing is assumed of the mower, the link or the callers.
- `WifiSession`: a running task gets to its next await; a task that is due is not due
  for ever without a step. The event loop is a queue, so both hold. The condition
  speaks of `Due`, not of the step being enabled, because no step of a task is enabled
  while another one runs. `Recovers` has a premise of its own, `BridgeUp`: the bridge
  stops refusing attempts at some time.
- `FrameAccumulator`: the loop runs on. `MowerBridge`: ESPHome calls `loop()` for ever.
  `WaitingIsServed` has the premise that clients end, by an end of stream or a reset.
- `MowerCoordinator`: commands end (`EveryCallEnds` of `MowerClient`), a poll whose commands
  have ended is merged, and time passes. That polls are started again, that some get
  through and that the mower is quiet are premises of `CatchesUp` and `ShownAsDocumented`; that nothing comes
  from it is the premise of `GoesUnavailable`.

### What the violations show

1. `send_command` may raise OSError, though its docstring says it returns None on
   errors (`client.py:252`). `_connected` is looked at at the entry only; a call that
   waited for the lock, or retries, sends when the writer is gone.
2. `disconnect()` does not stop a receive task that is reconnecting (`client.py:420`):
   `_close_connection` has already forgotten the task, and its handshake succeeds after
   `disconnect()` has returned.
3. A second client is not accepted while a half-open one is connected, though the
   comment says so (`mower_bridge.cpp:95`): `loop()` calls `try_accept_` without a
   client only.

No run shows three more disagreements, because a property says what does hold instead.
`StartAfterLoneStopIsFull`: a start after a stop may resume, though `docs/ha_component.md:189` says it never does. The flag that
remembers the stop is lost in a restart of Home Assistant, and reset by a start or a dock that
was already under way when stop was called. `ShownAsDocumented`: a movement is shown before the
state, against the table (`MovesAnyway` above). `StraysAreLogged`: short extended frames are not
recorded, against the docstring.

Two properties say less than their names may suggest. `UartIsDrained` is about the UART only: a chunk
that no client was there for, or that did not fit in its send buffer, counts as drained.
`SessionIsFraming` speaks of one session, and would not see bytes left over from the session before by
itself; a bridge that does not empty `tcp_buf_` when a client is closed violates `WaitingIsServed` in
this run.

## Proofs

`tlapm M.tla` for each of the eight modules.

**MowerClientProofs**, for any finite set of callers, any number of ids greater than
that, and any number of attempts. The inductive invariant `IInv` adds to the checked
invariants what they rest on: a call in `wait_for` is registered under its own id or as
the simple one, for as long as the link is up or nothing has woken it (`IsRegistered`),
ids in flight differ (`DistinctTids`), a simple call in `wait_for` holds the lock
(`HoldsLock`), a call has no more answers under way than requests it sent
(`RepliesBounded`), and, for `OwnAnswer`, no late answer bears the id of a call that runs
(`NotLate`). The last is kept because the search for an id passes over the ids it takes,
and answers do not stay under way for a lap; `PassedIsCovered` and `FullLap` are the facts
about the counter this needs. `SearchSucceeds` is a counting argument: fewer ids are in
`_pending` than there are, so the search meets a free one. `LossWakesAll` and
`ForeignIsLate` are action properties from the same invariant: no two simple calls hold
the lock at once, so the call whose answer another one is given has ended before.

**FrameAccumulatorProofs**, for any stream of bytes, cut anyhow, and any constants that
`FramesAssumption` allows (it holds for the values in the code). The core is the lemma
`Stable`: a decision made on the bytes that are there stays the same when more
arrive. From it follow that a step of the loop is a step of the reader of the whole
stream (`Refinement`), that nothing is held back, that frames are whole, and that the
buffer stays shorter than the longest frame (`LeavesPartial`).

**MowerBridgeProofs**, for any clients and streams: the session part of every step of
the bridge is a step of `FrameAccumulator` or leaves it alone, so the lemmas there
carry over; the buffer of 2 * `MaxFrame` bytes cannot overflow because less than a
frame is left between two reads (`BridgeAssumption` bounds the read; 256 <= 513 in
the code).

**AnswerStreamProofs**, for any calls, commands, messages and debris that `AnswerAssumption`
and `MessageAssumption` allow: finitely many commands, ids that are numbers, streams among those
of the accumulator, and messages of the mower (`CanSay`) that are an event of the table, or an
answer to a call under way, with a value that fits each field, in a frame that is not too long. Of the
constants it asks the values in the code, and that no two events of the table have the
same numbers: `commands.json` has three events, all different, and its majors are below 4903.
The module has three parts.

The first holds whatever arrives. `IsAccumulator` maps every step to one of `FrameAccumulator`
or a stutter, so its theorems hold of what the mower says as well (`AnswersAreFramed`). The
inductive invariant `AnswerInv` adds to the accumulator's that whatever was given to a caller or a
handler is what some dispatched frame parses to (`GivenIsReceived`), and that a call that was
given an answer is done (`GivenIsDone`). The step to prove is `Dispatch`: a frame is addressed to
one call at most, none that is done (`OneTaker`), so that what is given of it is finite, in no
order that matters, and holds one answer at most. `NothingUnreceived` follows.

The second is about the layout, without any steps. What is written of fields is read back
(`FieldsAreRead`), by the place of each field in the bytes of all (`PiecesAreLaid`, `Flattened`).
The parts of a frame are where the parsers look for them (`WrappedIs`, `RequestIs`), so that an
answer to a simple request, one to an extended request and an event are each a whole frame that is
for nobody but its addressee and is parsed to the values it was made of (`MeansItself`).
The check sum enters only as a function: both sides take it of the same bytes.

The third puts both together for a stream without debris. The invariant `OrderInv` says that the
accumulator stands at the end of some item (`Progress`), with the calls done that the items before
it answer, and given exactly what is due of them. `NextIs` is the step: what is left of the
stream starts with a heartbeat or a whole frame, so by `Stable` the buffer cannot be taken
for anything else, wherever it was cut. `CleanIsMeant` follows: everything is given, in order, as it
was meant, and nothing more.

`FlattenSeq`, `Ends`, `DueOf` are recursive functions, whose equations have to be proved. The induction
principles of the library take the property as an operator; here the property is a
set of numbers (`Induction`, from the least element of its complement), which is enough for a
function that is defined step by step (`Recursion`).

**StatusMonitorProofs**, for any commands, values and number of polls. `LogIsHistory` speaks of
the time between two polls and says nothing of a poll under way, so it is not inductive:
`LastIsLatest` says what the last line is about all along, namely the last poll that
was logged (`Logged`), and `PollUnderWay` that a poll has a result for each command by the
time it ends. The state and the flag that the next line is compared with are those of
the last line, from which `NoRepetition` follows. `NoFrameIsLost` is inductive with the types: what
is written, followed by what is kept, are the frames of `Kept`, those of no call that are not
short, by their numbers in increasing order; one more frame either is the next of them or
leaves them as they are (`KeptOneMore`).

**TransportProofs**, of the two transports of `Mower`. Of `WifiSession`, for any number of
connections, the invariant that holds always says
only where tasks may be (`Places`). What holds while nothing overlaps (`Alone`) is that at
most one task closes or opens (`Exclusive`), and what the attributes and sockets are at
each of its steps; `Coherence` is part of it. `Refinement` follows step by step: each action
leaves `LinkOf` alone or is one of the three steps of `Link`, unless it makes the overlap.
Of `UartMower`, which has variables of its own, for any calls, attempts and transports: an
open transport is the only one that is open or due as long as no `connect()` was hasty
(`OneAtATime`): otherwise the loss of the one that is due would hit the other. A call that is
idle has made no attempt, which is what bounds its attempts.

**IntegrationProofs**, first of the coordinator, for any commands, fields and values that
`ValuesAssumption` allows (None is not a value, a field is answered by one command). The type
invariant is inductive (`InitType`, `NextType`): results go to the fields they were asked for, and
what is held is what `Cast` makes of an answer (`CastGives`). `DataIsKept` follows step by step.
`ActivityIsDocumented` is about the values alone and assumes nothing: of whatever is known, in any
mode and with any override, the entity shows what the table documents, or it is one of
`MovesAnyway`. What `ShownAsDocumented` adds is that what is known becomes what the mower reports.
Then, on top of these lemmas, of the integration, for any services and clients: `StopStands` ties
the history of the last stop to what the services under way will do to `_task_cancelled`, from
which `StartIsFull` follows; `LifeOK` ties the phase of setup to its client, which is connected and
not abandoned, and makes the abandoned ones stay among the clients (`AbandonedStay`), from which
`OneClientAtATime` follows.

**MowerCalendarProofs**, for any schedules, lengths of the day and number of refreshes: what a
refresh that no edit fell into has collected so far is part of the schedule up to the
number it asks for next; `RefreshCaches` is what that means for the step that stores it. Whatever
is cached is a schedule (`CalTypeOK`), and the rest is proved of any schedule. `MinIsLeast`
gives the least of a set of numbers its meaning, by their well-foundedness. The search looks at
eight days from today, and an event may be the next one and yet begin on a ninth day; but then the
same task has one a week earlier (`WeekBefore`) that has not ended, and is found instead
(`InReach`). So `_next_occurrence` finds the first event of its task if the task has one
within reach (`Occurrence`), `_get_next_event` the first of all (`NextEventIs`), and both
directions between events and instants with mowing give `EventIsFirst` and `PeriodIsCovered`.
`NoEventAssumption` says that the value for "no event" is no event.

Model-checked only: the liveness properties (`EveryCallEnds`, `Recovers`,
`DisconnectReturns`, `ExtractEnds`, `WaitingIsServed`, `UartIsDrained`,
`CatchesUp`, `GoesUnavailable`, `ShownAsDocumented`), which need fairness and ENABLED; and the half of `UnderstoodAsMeant`
that is about streams with debris. It depends on the debris: bytes may be damaged into a
frame with the right sum, and then are taken for one. What holds whatever they are is
`NothingUnreceived`; that none of the damaged frames of the run gets
through its check sum is for TLC to find. Proved only: `SearchSucceeds`, whose formula no mistake in
the code would break in a small instance; `DispatchesFrames`, `CoordTypeCorrect` and
`NothingUnreceived`, which other properties of the runs imply or state of a small instance;
`ActivityIsDocumented`, which is about all values at once; and the
type invariants of the accumulator and of `UartMower`, which TLC has been
found to agree with and need not be checked again on small instances.

## Not modelled

- Rows of `commands.json` (the run uses six of them), the wording of errors, values that do
  not fit the type of their field.
- Bytes the bridge loses on a full send buffer are lost in the model as well, but
  nothing is claimed of the frames that had a gap, beyond `UnderstoodAsMeant` for damaged ones.
- A restart of the client process, after which its ids begin at 1 again.
- `disconnect()` called from several tasks at once, and cancelled while it runs.
- Config flow and sensors: they show or probe, and keep nothing.
- The error table, a list of constants, and the command line client, a dialogue over `send_command`.
- Of the status monitor the buffer of frames by command, which it only clears, and the choice of
  the file to append to.
- Daylight saving in the calendar.

## Plan

The plan the modules were written along, in order: `MowerClient`; `WifiSession`; the frames
and the bridge; the coordinator, its services, the calendar; then the serial transport, the
abstract link between `WifiSession` and `MowerClient`, setup and unload, the protocol, and the
proofs for each. All of it is in place. What would extend it:

1. `MowerClient` over a session in which closing and opening overlap, so that calls are
   checked in the orders `ImplementsLink` leaves out.
2. A restart of the client process beside a bridge that still holds answers, with the first ids
   used again.
3. The bridge and the accumulator of the client back to back, with bytes that the bridge
   drops, and what is claimed of the frames around a gap.
