# Formal models of sony-device-center

This directory holds TLA+ models of the program's own logic (the libraries
`sony-protocol`, `sony-core`, `sony-transport`, the daemon `sonyd` and the Device
Center application), configurations that model-check them with TLC, and proofs
that TLAPS checks. `PROJECT.json` is the index: components, runs, the source lines
each definition stands for, hazards, findings and theorems.

Reading order: section 1 is the inventory of the program, section 2 the modules
there are, section 3 what the runs check, section 4 what is proved, section 5
the disagreements found between code and documentation, section 6 what is not modelled, section 7
the plan. Section 8 says how to run everything.

## 1. The system

```
 sonyctl / Device Center (IPC mode)            Device Center (direct mode)
        |  Unix socket, one request per line           |  queued calls
        v                                              v
   IpcServer: server thread --queue--> executor    DeviceBackend (worker QThread)
                                          |            |
                                          v            v
                                       DeviceService  (one mutex; tick, connect, disconnect)
                                          |
                                       SonyDevice     (feature state, events)
                                          |
                               ProtocolV1 / ProtocolV2 (payloads)
                                          |
                               SonyProtocolSession    (reader thread, ACKs, matching)
                                          |
                               FrameCodec             (escape, checksum)
                                          |
                               ITransport             (RFCOMM: Linux, macOS, Windows; fake)
                                          |
                                       headset
```

| Component | State it keeps | Operations | Talks to | What is hard | What makes it correct |
| --- | --- | --- | --- | --- | --- |
| SonyProtocolSession | `_running`, `_sequence`, `_hasAck`, `_pendingRequest`, `_unmatchedFrames` (32), `_lastSeenDataSeq`, stream buffer | `connect`, `start`, `disconnect`, `send`, `sendAndAwaitResponse`, reader loop | transport below; calls from any thread; notification callbacks from its reader | three kinds of threads, two mutexes, an atomic counter, ACKs and responses that come late, twice or never, a link that dies at any point | one-bit numbers; a call completes on its own evidence; each frame is passed on once and in order, and answers one request at most; nobody waits for ever |
| FrameCodec and stream parser | none; the stream buffer | `encode`, `decode`, `_parseStream` | session | escape sequences and checksums across chunk borders, garbage between frames | decode inverts encode; chunking does not matter; a bad frame costs that frame only |
| ProtocolV1, ProtocolV2 | none | one inquiry or write per feature | session | which opcode answers which; 0x22 means battery in V2, power off in V1 | an answer is asked for by its own opcode |
| DeviceEventDispatcher | listeners | subscribe, dispatch, parse notifications | SonyDevice, GUI | callbacks run on the reader thread while listeners are removed | a removed listener is not called; a notification updates its feature only |
| SonyDevice | feature values and their status, generation, profile, session | `connect`, `disconnect`, `refresh*`, `set*` | DeviceService above, session below | refresh, write and notification race; late answers | a feature is "valid" only with a value of this connection; newer wins |
| DeviceService | target, automatic flag, connection state, backoff, maintenance deadlines | `startAutoConnect`, `connect`, `disconnect`, `tick`, `cancelPending` | SonyDevice, discovery | a connect takes seconds and the radio moves meanwhile; failures at every step; retry schedule | one link, to a wanted headset, driven as its generation; manual disconnect holds; reconnection |
| IpcServer | clients (16), job queue (16), socket, lock file | `start`, `stop`, server loop, executor loop | DeviceService, clients | deadlines against late results, clients leaving, shutdown during native operations | one answer per request; bounds; shutdown ends; only its own socket is removed |
| IpcClient, JSON protocol | request id, buffer | `request`, `isDaemonRunning` | IpcServer | partial reads, deadlines | an answer belongs to its request |
| sonyd | shutdown flag | main loop | IpcServer, DeviceService | order of shutdown | terminates, link closed |
| DeviceBackend, DeviceCenterController | generation, busy flag, notification flag, cached snapshot | commands, poll, snapshots, shutdown | IPC or DeviceService across two threads | obsolete snapshots, coalesced notifications, shutdown while the worker is inside a native call | the last command's result is shown; no notification lost; destructor returns |
| CapabilityDiscovery, CapabilityCache | cache by key, file | `discover`, `get`, `put`, `clear` | protocol | keys, lock order | what was stored is found |
| Transports, connectors | socket or channel | `connect`, `send`, `receive`, `disconnect`, `cancelPending` | operating system | late native callbacks after a cancellation | a cancelled connection stays cancelled |
| Legacy client (ImGui, Linux and Windows) | one future per kind of call, `_synced`, pending edits, features that answered | frames; connect, disconnect, refresh, probe, poll, send | `BluetoothWrapper` over the native connector | six kinds of asynchronous calls around one mutex that is held for a whole exchange; inquiries nobody answers; a call of an old connection that goes on with the next | the GUI goes on drawing; the first reading ends whatever is not answered |

The hazards that follow from this, each at its line, are in `PROJECT.json`; the
properties below exist because of them.

## 2. Modules

| Module | What it is |
| --- | --- |
| `SonyProtocolSession` | the protocol session: callers, reader thread, owner, transport, headset |
| `OrderedDelivery` | abstract: the frames of one connection are passed on once and in order, and answer requests by opcode in order |
| `SonySessionProperties` | type invariant, safety and liveness of the session, the refinement mapping |
| `MCSonyProtocolSession` | the session for TLC |
| `SonySessionProofs` | theorems about the session: types, the counter, `_sendMtx` |
| `SonyDeliveryProofs` | theorems about a session's first connection: delivery and evidence |
| `DeviceService` | the connection lifecycle: DeviceService and the connecting part of SonyDevice |
| `ConnectionSupervision` | abstract: what a connection supervisor promises its user |
| `DeviceServiceProperties` | type invariant, safety, action and liveness properties, the refinement mapping |
| `MCDeviceService` | the lifecycle with a history of retry delays, for TLC |
| `DeviceServiceProofs` | theorems about the lifecycle |
| `SonyDevice`, `MCSonyDevice` | the feature state of one headset, under its driver and its reader |
| `SonyDeviceProofs` | theorems about the feature state |
| `IpcEndpoint` | who owns the daemon's socket: lock file, path and inodes of several daemons |
| `IpcServer` | the daemon's request handling over that endpoint (EXTENDS `IpcEndpoint`) |
| `IpcServerProofs` | theorems about the endpoint under the whole server, its queue, connections and answers |
| `DeviceCenter` | the desktop application: GUI thread, worker, the session's reader, a daemon |
| `DeviceCenterProofs` | theorems about commands, notifications and shutdown |
| `FrameCodec` | bytes: escape, checksum, encode, decode and the stream parser, as operators |
| `FrameCodecProofs` | theorems about encoding, decoding and the parser, with the lemmas on sequences they need |
| `RfcommConnector`, `MCRfcomm` | the macOS RFCOMM connector under a session (EXTENDS `FrameCodec`) |
| `RfcommProofs` | theorems about its buffers, sends, channels and frames (EXTENDS `FrameCodecProofs`) |
| `LegacyClient`, `MCLegacyClient` | the ImGui client of Linux and Windows |

How they compose: each module sees the one below through what its code relies on, and
the property that discharges it is stated there. `SonyDevice` takes a session that matches
late answers (`SonyProtocolSession`), `DeviceService` a device that may fail at any step
(`SonyDevice`), and it needs `tick()` again and again, which is `Ticks` of `IpcServer`.
`IpcServer` extends `IpcEndpoint` and is checked and proved together with it, as
`RfcommConnector` is with `FrameCodec`.

Definitions named `Wrong...` are what a plausible mistake would make of the
definition that follows each. No action uses them; substituting one must make TLC
find the property violated that `PROJECT.json` lists with it.

### SonyProtocolSession

The state is grouped by who owns it: `session` (the members the threads share),
`sendMtx`, `caller` (program counter, call number, expected response opcode and the
local register of `nextSequenceNumber`, per calling thread), `reader`, `owner` (the
thread in `connect`/`disconnect`/`start`), `net` (the transport with frames in flight
in both directions) and `dev` (the headset). The rest counts the bounds and keeps
history for the properties.

One action is one step between two points where another thread can come in:

* a call is `Call`, `Lock` (`_sendMtx`), `LoadSequence`, `StoreSequence`,
  `FetchSequence` (the three atomic accesses of `nextSequenceNumber`, lines 423-430),
  `Arm` (registering the request under `_sessionMtx`, with the search of
  `_unmatchedFrames`), `WriteRequest` or `WriteTimesOut` or `WriteFails`, then the
  wait: `FindNotReady` and `Park` separate the check of the predicate from
  the block, so that a notification sent without the mutex can fall in between;
  `Finish` and `TimeOut` end the call;
* the reader is `Receive`, then per frame `HandleAck`, or `AckData` followed by
  `DropDuplicate`, `RememberSequence`, `MatchRequest`, `KeepUnmatched` or `Dispatch`;
  `StopReceiving`, `ReaderStops` and `ReaderNotifies` are its end;
* `Connect`, `BeginDisconnect`, `StopReader`, `JoinReader`, `ClearSession`,
  `OpenTransport`, `ConnectFails`, `Start`, `SpawnReader` are `connect()`, `start()` and
  `disconnect()`, whole;
* `DeviceTakesRequest`, `DeviceTakesAck`, `DeviceNotifies`, `DeviceSends`, `LoseFrame`
  and `LinkBreaks` are the headset and the link, modelled from what the code relies
  on: a FIFO in both directions, a headset with the mirror image of the one-bit ARQ,
  frames lost to a bad checksum, a link that fails.

A payload is its opcode and the number of the call it answers. Frames arrive whole.
The sequence number keeps its eight bits: `SeqModulus` is 256 in every run.

### DeviceService

`automatic`, `target`, `selected`, `connectionState`, `wasConnected` and `retrySeconds` are
the members of that name. The three deadlines are the time left to them in clock
units, so that the state space is finite without a bound on time. `session`,
`version` and `link` are SonyDevice's `_session` and `_version` and the headset the
transport is open to; `session = "running"` with `link` closed, and `session = "ended"`
with `link` open, are the two ways a link dies (the transport says so at once, or
only the reader noticed: the Linux transport reports an open connection until
`disconnect()`).

The service mutex is held for a whole call, so calls do not interleave with each
other. They do interleave with the radio, hence a call that opens a connection is
several steps: `Connect` or `BeginRound`/`TryCandidate` up to the transport's
`connect` (closing what there was, resolving the generation, destroying the old
session: SonyDevice.cpp 23-61), `OpenLink` (62-63), then `Established` when the
inquiries are over and the link is still there, or `RequestFails`/`CandidateFails`.
`RoundFails` schedules the next round. `Maintain` is `tick()` on a connected device;
of the inquiries it makes only the deadlines matter here. `Advance`, `ComesAndGoes` and
`LinkBreaks` are the clock, the headsets and the link; `cancelPending()` takes no lock
and appears as a fault: it breaks the link or the attempt at any step.

Candidates are tried in the order `discoverDevices()` sorts them (`Before`: system
connection first, then address); the set of headsets with a system connection is
chosen anew at each discovery. `_lastError` and logging are wording and left out.

### SonyDevice

The *driver* is whoever calls the device, one call at a time (the server's executor or
the GUI's worker, under the service mutex); the *reader* is the session's thread. Both
write the feature state, and `_stateMutex` protects single assignments only.

`value`, `availability` and `succeeded` are `_state`; `origin` remembers on which
connection a feature was last confirmed. A call is a script of messages (`InitScript`, `GetScript`,
`SetScripts`, from `ProtocolV1` and `ProtocolV2`): `Send` writes the next one and
registers for its answer, `Receive` or `Acknowledged` go on, `TimeOut` is the 2.5 seconds,
`KeepReading` stores what was learned and `DriverAnnounces` tells the listeners, two steps
because the reader can come in between. `NoReading` and `WriteFails` are what an exception
leaves. `RefreshSettingsStep` is the rotation of `_refreshStep` with `IsDue`, `RefreshBattery` the
other periodic inquiry. `Connect`, `Initialised`, `Open`, `OpenFails`, `Disconnect`, `Leave`
and `ResetState` are the connection. The reader has `TakeAck`, `TakeAnswer` (for whoever waits),
`TakeUnmatched` (kept for a later inquiry *and* handed on as a notification),
`OnNotification` and `ReaderAnnounces`. A write comes by one of two ways in: the JSON commands check `supported()`
(`JsonSettings`), the text commands do not (`TextSettings`), so a feature the profile lacks may be written and
is acknowledged by the headset, which has no such setting; what V1 cannot write at all throws before anything is sent
(`Refused`). The session is here as its callers see it: an
inquiry takes an answer that was left unmatched at once, a command waits for any ACK.

### IpcEndpoint and IpcServer

The endpoint takes one system call per action: `LockFile`, `Probe`, `RemoveStale`, `Bind`,
`Record`, `Listen` are `start()`; `CloseSocket`, `CheckFile`, `Unlink`, `Unlock` the end of
`stop()`; `Killed` gives up lock and descriptors at any point and leaves the file.
An older daemon that knows no lock may listen from the start (`OlderEnds`).

The server thread is `Accept`, `ReadLine`, `ReadTooMuch`, `TakeResult`, `WriteResult`, `Deadline`,
`HangsUp`, `PollFails` and `ServerStops`; the events of one `poll()` are taken one by one and in any
order. The executor is `Pop`, `Block`, `WakeUp`, `Perform`, `SetResult`, `Idle`, `Decide`, `Ticked`: the
check of its predicate and the wait are two steps, because `stop()` notifies without the mutex, and
`job->cancelled` is read in `Pop`, a step before the command is performed. `BeginStop`, `Notify`,
`Join` are `stop()`. Of a client only what it sends, when it leaves and what it learns is kept.

### DeviceCenter

The GUI thread is `Act` and `RefreshDiscovered` (a new generation, busy, a posted command), `Receive`
(a signal with the generation it belongs to), and the destructor: `RequestStop`,
`PostShutdown`, `CancelAgain` every 20 ms, `Joined`. The worker takes posted events in order and
the timer when it is due: `BeginStart` to `Started`, `BeginCommand`, `NativeBegins`,
`CommandSucceeds`/`CommandFails`/`CommandReplies`, `Ticked` and `PollPublishes`, `Notified`,
`BeginShutdown` and `Disconnect`. `NativeBegins` is a step of its own since a cancellation between the check of
`_stopRequested` and the native operation cancels nothing. The reader's callback is `Dispatch` (a
copy of the list), `Called`, `PostNotification`. In IPC mode `DaemonChanges` lets the daemon die, come back, or come
back in a version that refuses the requests. What a snapshot says is one version number.

### FrameCodec and RfcommConnector

The bytes are the real ones: markers 60, 61, 62, the checksum modulo 256, four bytes of
size. `Wire` is what `encode()` writes and `Encode` refuses what is longer than `MaxFrameSize`. The parser is
stated by what its loop does at each end marker (`Found`: the frame between it and the start marker before
it, when no marker lies between) and with what is left (`Kept`); `Rest` is that with the cut at twice `MaxFrameSize`, and
`Parse` is one call of `_parseStream`.

A headset's input (`Transmissions`) is a list of encoded frames with any bytes before, between and after
them in which there is no whole frame: noise, halves of frames, damaged or endless ones. A damaged frame whose
checksum happens to fit is a frame to the code, too, and is not noise.

The connector has the caller (`BeginConnect`, `StartOwner`, `OpenReturns`/`OpenFails`, `Send`,
`SendReturns`/`SendFails`, `BeginDisconnect`, `Joined`), the session's reader (`Receive`,
`ReaderWaits`), the native owner thread (`OwnerStarts`, `TakeWrite` and `GiveWrite`, `OwnerLeaves`/`OwnerFails`,
`FinalCancel`, `CloseChannel`) and the delegate's callbacks (`OpenCompletes` and `Opened`, `HeadsetCloses`,
`DataArrives`, `WriteCompletes`). `Cancel` takes no mutex in the code, so it falls between the test
and the wait of a condition (`Waits`), between the test and the assignment of an open completion, and between
`TakeWrite`, which marks a write as started under the mutex, and `GiveWrite`, which hands it to `writeAsync` without
(mm:133-150): a write may be given to the channel of a connection that has just been cancelled.

After `CloseChannel` the model has no more callbacks of that connection. The code does not wait for a write the channel was
working on: it keeps the delegate, and with it the connection's state and the bytes, until the main run loop has
turned (`releaseLater`, mm:77-83, 159-165). A completion within that turn touches the old state only, which nobody
reads any more, since each connection has a `MacOSBluetoothState` of its own; that the framework delivers none later is an
assumption about it, and not checked.

### LegacyClient

A frame of the GUI is `DrawDiscovery`, `ClickDisconnect`, `TakeConnect` or `ClickConnect`, then `Pump` (start
what is due, take what is ready), `DrawModes`, the clicks, and `SendPending`. Only `Disconnect` waits for the
mutex. A call has the commands still to send in `todo`; `Transmit` takes the mutex for one
exchange, `Read`, `TimeOut` and `ReadFails` are in it, `StoreAnswer` and `StoreFeature` come after
it has been given up. `setChanges()` reads the settings again before and after it sends
(`CheckAmbient`, `ReadLevel`, `Fulfil`, `CheckSurround`, `ReadPreset`, `FulfilSurround`), with the GUI in
between. `Throw` is an exception: a RecoverableException may disconnect, any other is only shown. A damaged frame may
fail either way (`Failures`: CommandSerializer.cpp:59-70). Frame numbers are left out:
nothing in this client compares them.

## 3. What is model-checked

| Run | Specification | Result | States | Shows |
| --- | --- | --- | --- | --- |
| `session_wire` | `Spec` | holds | 1,127,521 | the ARQ, request matching, and where each frame of one connection goes: callbacks, a request, its caller |
| `session_stop` | `FairSpec` | holds | 290,765 | waiters are woken and `connect()`/`disconnect()` return without any deadline passing |
| `session_calls` | `TimedSpec` | holds | 183,250 | two callers behind `_sendMtx` and a disconnect: every call returns |
| `session_ack` | `Spec` | violated | - | finding 1 |
| `service_links` | `FairSpec` | holds | 442,912 | which links are opened, how they are driven, when they are given up; refinement of the supervisor; reconnection |
| `service_delays` | `SpecHistory` | violated | - | finding 2 |
| `device_features` | `FairSpec` | holds | 485,894 | what refreshes, writes, notifications, late answers and reconnections leave in the feature state |
| `ipc_daemon` | `FairSpec` | holds | 481,914 | who owns the endpoint; truthful answers; every connection, tick and `stop()` comes to its end |
| `device_center` | `FairSpec` | holds | 349,981 | what the user sees is the outcome of the last action; shutdown returns |
| `center_ipc` | `FairSpec` | violated | - | finding 3 |
| `rfcomm` | `FairSpec` | holds | 457,694 | frames survive chunks and damage; writes, channels and waits end well |
| `legacy_client` | `FairSpec` | holds | 134,327 | the GUI is never held up for good; the first reading ends |

### Session properties

* `TypeOK` (with the cap of `_unmatchedFrames`).
* `OneBitSequence`: each written data frame carries 0 or 1, although the reader may
  store an ACK's bit between any two accesses of `nextSequenceNumber`.
* `FreshRequestBit`: while a session's first connection runs, the headset never takes a new
  request for a repetition, as long as no call has timed out. Both exceptions are real: the late ACK
  of a call that timed out rewinds `_sequence` (line 202); and when the session has been stopped, callers
  that queue behind `_sendMtx` write one after the other without waiting, so that after
  a lost frame two with the same bit follow each other.
* `OwnEvidence`: on a session's first connection a call that returns normally took the ACK or response of its own
  request, as long as no call has timed out (see finding 1).
* `NoOrphanRequest`: a registered request is that of the caller inside `_sendMtx`,
  or was left behind by a failed write.
* `ConfirmedIsDelivered`: what the headset saw ACKed the reader has in hand, or the callbacks have seen, or a
  request took. A frame a request took (`passed` with route "request", stored in `_pendingRequest->response`) has
  not reached anybody yet: the request must still hold it, or its caller have returned it (`answers`). Two ways to
  lose it are the code's own and are excepted: the connection ends before the waiter looks, which then throws although
  the response is there (SonyProtocolSession.cpp:403-405), and the write of the request timed out, so that nobody waits for
  what it holds (395). The property is stated for a session's first connection, because
  `connect()` on a dead session opens the transport before the old reader is joined;
  SonyDevice makes one session per connection, so the program does not get there.
* `DeliversInOrder`: the session implements `OrderedDelivery`. `passed` is what the reader did with each frame, in
  order and once: `Dispatch` shows it to the callbacks, `MatchRequest` gives it to the request that waits. `answers` is
  what calls return (`Finish`), and is a sequence of its own, because a frame the callbacks have seen also waits in
  `_unmatchedFrames` and may answer a later request (383-391), out of order with what was passed since. What holds of
  it is that no frame answers two requests and that the answers to one opcode come in the order of the frames.
* `WokenWhenStopped`, `OwnerReturns`, `CallsReturn`: liveness.

### Lifecycle properties

* `TypeOK`.
* `NeverPowersOff`: no link to a V1 headset is driven as V2, whatever was connected
  before and whether or not a name is known.
* `OpensFromClosed`: the transport is opened only when closed, with no session alive
  that could close the new link when it is destroyed.
* `NoStrayLink`: between calls an open link goes to the selected (and, if there is
  one, the targeted) headset, and the service wants it and remembers it.
* `KeepsWorkingLink` (a step property): only a client's request, the headset's
  absence or a radio failure ends a working link.
* `Supervises`: refinement of `ConnectionSupervision`. A link is visible when no call
  is in progress and the session runs; the time to wait is 0 for a lost link and
  for a request under way; the number of failed rounds is read off `_retrySeconds`; `asked` is a client's request
  in progress. A round that fails waits the next delay of the schedule; only the failure of a request itself, once
  for each request, waits the first delay and does not step on (finding 2). A service whose delay does not double is
  no refinement: that is the property's mutant.
  The real delays (1, 2, 4, 8, 16, 30 s) are used, half a second being one unit.
* `Reconnects`: a wanted headset that stays in range is connected again and again.

### Feature properties

* `ValidIsOurs`: "valid" means confirmed on the connection there is now, although the reader of the last
  one may still be storing when the state is reset.
* `ReadingsAreRecent`: a response after its deadline stays in `_unmatchedFrames` and answers the *next*
  inquiry, so readings can lag; they lag by no more inquiries than deadlines were missed.
* `NoSilentChange`: a change no listener knows of is about to be announced.
* `Converges`: the lost updates there are (a write or a refresh that stores over a newer
  notification) are repaired by the rotation, as long as the connection lasts.

### Daemon properties

* `TypeOK`: the bounds of queue and connections, among others.
* `OutcomeIsTrue`: "ok" means executed once, "busy" not executed, and nothing is executed twice. A
  connection that was closed without an answer says nothing: the executor looks at the mark once.
* `Reachable`: whoever serves listens at the path, and nobody else serves.
* `ConnectionsEnd`, `StopReturns`: liveness, with clients that send half a line or never read.
* `Ticks`: an executor that goes on comes round to `tick()`. The clients are finitely many: an endless
  stream of requests does starve `tick()`, since it is called only when the queue is empty
  (IpcServer.cpp:104).

### Device Center properties

* `OutcomeIsOwn`: busy ends with the last action and not with an obsolete one; an error
  is that of the last action; after its success the display includes what it did.
* `NotificationIsPublished`: coalescing loses no notification.
* `CallbackIsSafe`: no listener runs after the backend is gone. `removeListener()` does
  not wait for a callback under way; it is `disconnect()`, joining the reader, that does.
* `BusyEnds`, `CatchesUp`, `DestructorReturns`: liveness. `CatchesUp` has one exception, `StartFailed`: the timer that
  polls is made after the first `publish()` of `start()`, so when that throws (a daemon that answered and was gone, or
  of another version, an instant later) nothing is ever polled (section 5). `DestructorReturns` rests on the repeated
  `cancelPending()`, which ends a native operation on macOS and Windows. On Linux it is a no-op
  (IBluetoothConnector.h:52): there an operation ends by its own deadlines (2.5 s on the socket; the lookups by
  the system's), and a cancelled operation that ends stands for that.

### Connector properties

* `TypeOK`: the bounds of the two byte buffers.
* `FramesSurvive`: the frames are those of all the bytes taken, however they were cut, and at the end those
  that were sent: a damaged or endless frame costs itself only.
* `SendIsWritten`: a send that returns was written; the buffer of a write that timed out
  lives until the channel is done with it.
* `OneChannel`: a channel is opened when the last one is closed, however calls and cancellations fall.
* `NothingLingers`: every wait ends although a cancellation may be missed by who is about
  to wait, and a cancelled connection does not come back for good. (It does for a moment: `Opened` may set
  `connected` after `Cancel` has cleared it, and `FinalCancel` undoes that.)

### Legacy client properties

* `FramesGoOn`: `Disconnect` gets the mutex and frames go on.
* `Synchronises`: a connected client gets past its first reading, whatever is not answered.

Both make one exception, which their comments name: a link the headset has ended, on which `recv()` returns 0 for
ever (section 5).

### Bounds, and why they are enough

Session: one or two callers are enough because `_sendMtx` admits one call at a time
and a waiting caller has no state; three calls on one connection let a bit return
to the value it had, so that a repeated, a late and a fresh frame are told apart; one fault
(a lost or doubled frame, a write timeout or a broken link) at any point, since
one suffices to desynchronise an alternating bit. Two connections let state of
the first leak into the second. `MaxUnmatched` is 2 rather than 32: cutting the queue
happens within the bound.

Lifecycle: three headsets, one V1, one listed V2, one V2 that discovery does not list;
each initial target; two client requests (a disconnect and the request that
revokes it, or two switches); one unexplained fault besides unlimited coming and
going of headsets. The retry delays are the real ones; `SettingsDelay` and
`BatteryPeriod` are one second instead of 5 and 30, because nothing but `Maintain`
looks at them.

Features: a V1 over-ear and the WF-1000XM4, whose battery has parts, so that both
generations' scripts and both shapes of a reading occur; two values; two connections; any two writes, changes on the
headset or faults (a missed deadline, a lost request, a broken link), since a race takes two.

Daemon: two daemons and an older one, two starts, so that a daemon is killed and
started again, or two of them start at once; two clients for one place in the queue and one
open connection, so that the second is refused, or finds the cancelled job of the first still queued.

Device Center: two actions (an obsolete one and the last), two changes, two faults of the daemon. The
timer does not fire while the GUI has unread signals (`MaxInbox` 0), which bounds the queue between
two event loops; one event of the worker still posts several.

Connector: two whole frames around one damaged in one of ten ways (a byte lost or
changed into each marker or an ordinary byte, at the places where it matters) or around an
endless one, cut in pieces of 1 and 6 bytes; buffers of 14 instead of 65536 bytes, which frames and chunks can
overflow. Two connections, two sends.

Legacy client: a headset of each generation, each answering some inquiries and not others; two
connections; one other event. `MaxReads` is 3 rather than 16: an inquiry gives up within it.

Deadlock is checked for the lifecycle, which never stops. The other runs set
`CHECK_DEADLOCK FALSE`: a session, a device, a daemon, an application or a connector that is closed and whose bounded
connections are used up has nothing left to do, and a legacy call may be caught by a link that has ended.

### Fairness

`FairSpec` of the session: each caller's own steps, the reader and an owner that has begun
are weakly fair, as threads are; `Park`, waking and joining need nothing
more. Deadlines are not in it, so `session_stop` shows that the end of a session
wakes everybody by notification. `TimedSpec` adds that deadlines pass (`wait_until`
has one everywhere), which a lost frame needs. Nothing is assumed of the headset.

`FairSpec` of the lifecycle: `tick()` is called again and again (the executor calls it
when its queue is empty, at least every 100 ms; the GUI's timer every 500 ms), each
step of a call ends, and time passes. That the transport's `connect` ends is the operating
system's promise: docs/ipc-and-lifecycle.md says there is no deadline for a
whole attempt. That the executor ticks is `Ticks` of
`ipc_daemon`.

The other specifications:

* `SonyDevice`: the two threads and the headset's answers are weakly fair; a settings step (every 5
  s) and a battery refresh (every 30 s) come round whenever the driver is free again and again, hence strong
  fairness of the two.
* `IpcServer`: the executor's steps; the end of a poll or of a deadline; the owner once in `stop()`. Nobody has to connect, send,
  read, start or stop. That `Perform` ends is what the deadlines of the session and the transport promise.
* `DeviceCenter`: both event loops run, and the worker's takes posted events and the timer both
  (strong fairness of each, as an event loop serves both sources). A native operation that was not
  cancelled need not end; requests to a daemon have deadlines.
* `RfcommConnector`: the caller and the owner thread compete for a mutex and get it in the end (strong
  fairness); all waits have deadlines. Nothing is assumed of the channel or the headset.
* `LegacyClient`: every thread runs and the headset serves what it receives, all weak: the mutex may go to
  the others for ever, and the properties hold all the same.

## 4. What is proved

All theorems hold for every value of the constants under the named assumptions
`SessionAssumption` (a modulus above 4, natural bounds, `None` distinct from all values), `NoneAssumption`
(`None`, the code's `nullopt`, is no frame and no request),
`ServiceAssumption` (addresses are ordered as numbers, there is a headset, `Second` is
even and positive), `EndpointAssumption` (`Nobody` is no daemon),
`ServerAssumption` (`Self` is a daemon, the bounds are positive), `DeviceAssumption` (settings have
values, `NoValue` is none of them, a V1 profile lacks the V2 features), `CenterAssumption` (natural bounds),
`CodecAssumption` (four bytes can hold the length of the longest frame) and
`ConnectorAssumption` (the frames sent are such as `encode()` accepts, what lies between them is bytes
without a whole frame, sizes are positive, a chunk is not longer than the buffer and one). TLC
evaluates each in the runs of its module. In each module the invariant that is proved was
first checked by TLC on the instance of the module's run.

Session:

* `TypeCorrect`: `Spec => []TypeOK`. The inductive invariant `TypeInv` adds `HandsFull`
  (the reader holds a frame while it handles one), `Numbered` (a call under way
  has a number) and `InFlight` (a frame in flight heads the headset's queue), because
  `Head`, `Tail` and the call number would otherwise have no type.
* `RequestsCarryOneBit`, `PendingIsOwned`, `SendMutexExcludes` follow from `SendInv`:
  `TypeInv`, mutual exclusion of `_sendMtx`, `CounterInv` and
  `OwnedRequest`. `OneBitSequence` alone is not inductive: the number of a frame
  comes from a register filled two steps earlier. `CounterInv` says the counter is at most 2
  (1 after a fold or an ACK, then fetched) and is folded when a caller is about to
  fetch; mutual exclusion keeps a second caller from adding to it in between.

A session's first connection (`SonyDeliveryProofs`):

* `PhaseInv` says what goes with each stage of the owner: before there is a reader nobody calls and nothing was read
  (`Pristine`); a join ends with an empty batch. It is what the two invariants below start from.
* `AckedIsDelivered` (`ConfirmedIsDelivered`) and `ReceiveHalfIsOrdered` (`DeliversInOrder`, a refinement of
  `OrderedDelivery`) come from `DeliveryInv`, `StashInv` and, for the first, `LiveInv`. The bit of the headset's next frame is the parity of the frames it has seen
  ACKed; the application has as many, one more, or the one in the reader's hand. `Frames` says that what is on
  its way to the reader (`Inbound`: the channel, the batch, the frame at hand) is the frame at the head of the headset's queue or
  copies of the one before, never in the other order, and `Echoes` the same of the ACKs on their way to the headset. A frame that
  `_lastSeenDataSeq` calls a duplicate is then one, and no other. Losses and repetitions only thin or grow these sequences
  (`Thinned`, `Grown`), so one lemma for each covers every action that moves a frame. `StashInv` is about what may still
  answer: the frames in `_unmatchedFrames` and the response a request holds are frames passed on, in order for each opcode, and
  newer than the answers of their opcode, so that no frame answers twice. `LiveInv` says that a response a request
  took has a caller that will return it, as long as the connection lasts and no write has timed out.
* `EvidenceIsOwn` (`OwnEvidence`) and `RequestsAlternate` (`FreshRequestBit`) come from `CalmInv`: as long as no call has timed
  out and the connection runs, what there is of requests, ACKs and responses belongs to one outstanding request (`CalmOK`): its
  frame, the ACK it causes, its response in the headset's queue, on the way or taken. When the call
  ends all of these are gone, or are a repetition that the duplicate check drops, and the counter has the bit the headset expects
  next (`NextBit`). The session's own state does not suffice: that no foreign ACK comes is a fact
  about both channels and the headset.

Both were checked by TLC on the instance of `session_wire` first. They end with the connection because the code ends with it:
on a second `connect()` of one session the old reader may still be running.

Lifecycle, from `LinkInv` = types and
`Progress` (a call in progress wants a link), `Opening` (the link being opened and its
generation), `Round` (a round was due and its candidates are wanted), `Request`,
`Remembered` (a session left running will be closed), `NeverPowersOff`,
`NoStrayLink`:

* `ServiceTypeCorrect`, `LegacyStaysOn`, `OneLinkAtATime`, `LinksAreOwned`;
* `LinksAreKept`: the step property, by showing that with an open working link and no
  outside event only `Established`, `Maintain`, `Advance` and `ComesAndGoes` are possible;
* `ServiceSupervises`: the refinement. `Schedule` proves that the code's doubling
  is the documented list, element by element; each action is then one abstract step or a
  stutter. `asked` holds exactly while a request is carried out, so a failure is off the schedule only if a request
  failed, and only once for it.

`Remembered` is what makes `OpensFromClosed` inductive: without it a round could begin
with a session that still runs and was forgotten.

Daemon: `DaemonIsReachable`, `Spec => []Reachable` for `IpcServer` with any number of daemons, starts,
kills and clients. `Reachable` is not inductive: it speaks of daemons that serve, and what threatens
them are those that start or stop. `EndpointInv` adds

* `HolderOnly`: whoever is past the lock file, has a socket or remembers an inode holds the lock;
* `AtThePath` and `Listens`: from `Bind` on the file at the path is one's own, from `Listen` on one listens there;
* `OwnFileOnly` and `Closed`: who is about to unlink unlinks its own file, and has closed its socket;
* `OlderFirst`: while an older daemon listens its file is at the path and nobody got past `Probe`;

and `EndpointType`. There is one lemma per endpoint action, one that the server's moves between phases
keep it, and one that its threads and clients do not touch it.

Answers of the daemon, from `JobInv` and the files of `EndpointInv`: `AnswersAreTrue` (`OutcomeIsTrue`) and
`BoundsAreKept` (`TypeOK`). A client's job is in one place at a time: not made yet (`NotYet`), in the queue
(`Fresh`), in the executor's hands (`InHands`), or over (`Result`). `OutcomeIsTrue` alone allows a job
that is queued twice, or that is answered while the executor holds it; these four do not, and
`Told` says that an answer is a copy of the result. The bounds need that a line is read on an open connection
only, and that a new inode is made only by whoever holds the lock.

Features, from `DeviceInv` of `SonyDeviceProofs`:

* `ValidFeaturesAreOurs` (`ValidIsOurs`). `SessionInv` ties the stage of the driver's call and a reader with a frame
  in hand to a session that lasts: `ResetState` and `Leave` wait for the reader, so nothing of the
  old session is stored after them, and when the next connection opens nothing is valid.
* `ReadingsLagByFaults` (`ReadingsAreRecent`). The count of answers nobody has taken changes in every action that
  moves a message, so the lemmas count in sequences (`NumberAppend`, `NumberTail`, `NumberRemove`).
  The inequality is not inductive. A deadline that passes with nothing on its way must leave nothing behind,
  which holds because an inquiry that waits without an answer has found nothing kept under its key and what
  comes goes to it first (`PendingInv`); and the one answer a driver may be ahead by counts only while the link is up
  (`Expected`), since a lost link is a fault itself.
* `ChangesAreAnnounced` (`NoSilentChange`), which is inductive.

Device Center, from `Inv` of `DeviceCenterProofs`:

* `UserSeesTheOutcome` (`OutcomeIsOwn`). The property speaks of the GUI and of what it has not read yet; the invariant
  of the worker and of what is posted to it. Commands to come have growing generations above the worker's and up to
  the GUI's (`CommandInv`); while a command is performed, no signal of its generation is in the
  GUI's queue, and afterwards the error or the snapshot is ahead of the completion (`DisplayInv`).
* `NoNoticeIsLost` (`NotificationIsPublished`): while the pending flag is up the event that clears it is still to come
  (`NoticeInv`), so a notification that finds the flag up may rely on that event.
* `ListenerIsGone` (`CallbackIsSafe`): after `disconnect()` has joined the session's reader no callback starts (`CallInv`).

Connector, from `ConnectorInv` of `RfcommProofs`:

* `SendsAreWritten` (`SendIsWritten`). `WriteInv` says whose a write in flight is: that of the caller that waits, as long as the
  connection lasts. When it has given up, `connected` is false, and it stays false because a late completion
  (`Opened`) belongs to a channel that has not carried a write yet (`ChannelInv`).
* `ChannelIsAlone` (`OneChannel`): the owner that starts finds the last channel closed.
* `BuffersAreBounded` (`TypeOK`). The stream buffer is not bounded by its own length: a frame that is too long loses its
  start marker and stays, and it is the absence of a marker (`BufferInv`) that makes the next read drop it.

* `FramesSurviveDelivery` (`FramesSurvive`). The property alone is not inductive: the next read depends on the buffer. `StreamInv`
  adds that no byte is lost between the channel and the reader while the connection lasts (an overflow ends it), and
  that the buffer holds (`Holds`) what is kept of all the bytes taken, or, when that is too long to become a frame,
  something in which no frame begins. `ReadsGoOn` is its step.

Wire format, in `FrameCodecProofs`, for every frame and every byte string:

* `DecodeInvertsEncode`: escaping is undone by unescaping piece by piece (`UnescapeConcat`: nothing is carried
  from a piece that does not end in an escape marker to the next), the size is read back as written
  (`SizeIs`), and no marker is left inside the body (`UnescapeEscape`).
* `Resynchronises`, `CutAnywhere` and `ReadsGoOn`. Which frame is open at a position depends on the bytes since the last
  marker only (`OpenConcat`). So a stream falls apart wherever no frame is open or the next one starts (`ParsedSplits`),
  what is kept stands for all that was before it, and bytes in which a frame has been open for more than
  `MaxFrameSize` can be forgotten (`OverlongIsLost`).

These are facts about all sequences and need induction. The library's induction theorems take an operator as a
parameter, which the installed provers cannot instantiate; `SeqInduction` says the same of a *set* of sequences (it has
the empty one and is closed under `Append`), and is derived from two library theorems without such a parameter: every
non-empty set of numbers has a least one. `FlattenSeq`, a fold, is tied to its values by what it is for
a sequence and one element more (`FlattenAppend`).

Only model-checked:

* all liveness (`WokenWhenStopped`, `OwnerReturns`, `CallsReturn`, `Reconnects`, `Converges`, `ConnectionsEnd`, `Ticks`,
  `StopReturns`, `BusyEnds`, `CatchesUp`, `DestructorReturns`, `NothingLingers`, `FramesGoOn`, `Synchronises`): TLAPS does not
  prove liveness under fairness nor reason about `ENABLED`. The legacy client has only such properties.

## 5. Where code and documentation disagree

1. `session_ack`. docs/ipc-and-lifecycle.md:106 says that a transport ACK confirms
   acceptance. The session takes any ACK for the waiting call (`_expectedAckSeq` is
   stored and never compared). After one `send()` has timed out, its late ACK
   completes the next `send()`, whose frame the headset may never see.
2. `service_delays`. docs/ipc-and-lifecycle.md:19 says failures retry after 1, 2, 4,
   8, 16, then 30 seconds. After a failed `connect()` the delays are 1, 1, 2, 4, ...:
   the request's own failure waits a second without doubling. After
   `startAutoConnect()` they are as documented (`Supervises` shows it).

3. `center_ipc`. DeviceBackend.cpp:86 says that "In IPC mode a dead daemon must not leave the GUI
   displaying live data." The branch it stands in is not reached once `_incompatible` is set, because `poll()`
   returns at its first line (DeviceBackend.cpp:80), and nothing clears the flag: a daemon that came back in
   another version and then dies leaves the last live snapshot on the screen.

Seen while modelling; no run is about them:

* DeviceBackend.cpp:37-44 against docs/ipc-and-lifecycle.md:114-115 (daemon snapshots are polled once per second): the
  timer is made after the first `publish()`. When that one fails, `start()` reports the error and there is no timer, so
  an application that found a daemon and lost it in that instant never polls, though the daemon comes back. This
  is the exception in `CatchesUp`.
* SonyProtocolSession.cpp:403-405 and 395: a response that a request took just before the connection ended, or
  whose request had timed out in its write, was ACKed and reaches nobody: neither the caller nor the callbacks. And a frame
  the callbacks have seen stays in `_unmatchedFrames` (383-391) and answers a later request for its opcode, however old.
* IpcProtocol.cpp:231-365: the text commands call the setters without asking `supported()`, which the JSON commands
  ask. A feature the profile lacks is then written, and the headset's ACK, which says nothing about the feature, makes it "valid".
* `createPlatformTransport()` can throw inside `DeviceBackend::start()` on Windows only (WSAStartup); the service
  then stays null. Not modelled.
* Headphones.h:123: on a V2 headset the edit {OUT_OF_RANGE, OFF} of the surround setting is never fulfilled, so
  `isChanged()` stays true and the client sends in every other frame. A poll that ends meanwhile is not
  shown, and the next frame pushes the old value back over what the wearer chose (against the comment
  at CrossPlatformGUI.cpp:228).
* `fulfill()` after a send marks an edit made *during* the send as sent.
* Headphones.h:74: the `_has...` flags outlive a connection, and a second headset gets commands for features only the first
  one answered for.
* A `recv()` that returns 0 (the peer closed in order) makes `_readMessage` loop with `_connectorMtx` held, and
  a disconnect blocks the GUI. This is the exception in the legacy client's two properties.
* The legacy `sendCommand` takes any message as its acknowledgement; a refresh of the old connection goes on
  with the new one, and `_synced` may be set without a reading; a click during a send of the same kind is dropped though
  the widget has changed.
* CapabilityCache.cpp:96: `put()` and `clear()` with a storage path lock their mutex twice. No program gives it one.
* sonyd's main.cpp:205: `stop()` gives up the lock before the headset is disconnected, so a daemon started
  at once finds a headset that is still taken, and its retries take care of it.
* docs/ipc-and-lifecycle.md:28 against V1 `initDevice()`, which asks for noise control even under an unknown profile.

## 6. What is not modelled

* Vendored code: `stb_image.h`, the JSON library, ImGui, the font.
* Data without control: the layout of payloads and of JSON and text messages (`CommandSerializer`, `JsonProtocol`,
  `IpcProtocol`), device tables and equalizer presets, translations, QML, textures and theme. `IpcProtocol::execute()` and
  the command line client are one guarded call of the service each, which `IpcServer` and
  `SonyDevice` take as such.
* `CapabilityDiscovery` and `CapabilityCache`: no program uses them with a storage path, and without one
  they are a map behind a mutex.
* The system calls inside the Linux and Windows connectors (DBus, SDP, socket options, lookup of devices): the models
  use what `connect`, `send` and `recv` return and throw.
* The Cocoa bridge over the legacy wrapper: the calls of `LegacyClient` behind a serial queue and
  without pending frames.
* The simulated headset and the fake transport, option parsing, the device filter, the logger, and
  the pause after EMFILE, which only delays an accept.

The status of each part is in `PROJECT.json`.

## 7. Plan

Done, in this order: the session with `OrderedDelivery`; `DeviceService` with `ConnectionSupervision`;
`SonyDevice`; `IpcServer` and `IpcEndpoint`; `DeviceCenter`; `FrameCodec` with the macOS connector;
the legacy client.

Left: the capability cache, when a program gives it a storage path. Every safety and action
property of a passing run has a theorem; what is left to TLC is liveness (section 4).

Each run has its own question; instances stay below a minute or two.

## 8. Running

In this directory:

```
tlc -workers 2 -config session_wire.cfg MCSonyProtocolSession
tlc -workers 2 -config service_links.cfg DeviceServiceProperties
tlc -workers 2 -config device_features.cfg MCSonyDevice
tlc -workers 2 -config ipc_daemon.cfg IpcServer
tlc -workers 2 -config device_center.cfg DeviceCenter
tlc -workers 2 -config rfcomm.cfg MCRfcomm
tlc -workers 2 -config legacy_client.cfg MCLegacyClient
tlapm SonySessionProofs.tla
tlapm SonyDeliveryProofs.tla
tlapm DeviceServiceProofs.tla
tlapm SonyDeviceProofs.tla
tlapm IpcServerProofs.tla
tlapm DeviceCenterProofs.tla
tlapm FrameCodecProofs.tla
tlapm RfcommProofs.tla
```
