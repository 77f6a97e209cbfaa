-------------------------- MODULE RfcommConnector --------------------------
(***************************************************************************)
(* The macOS transport under a protocol session: MacOSBluetoothConnector   *)
(* behind BluetoothConnectorTransport, with the session's reader on one    *)
(* side and the native RFCOMM channel on the other.                        *)
(*                                                                         *)
(* Each connection has an owner thread, which opens and closes the channel *)
(* and in whose run loop the channel's callbacks run, and a state shared   *)
(* under a mutex with the caller (connect, send, disconnect) and with the  *)
(* reader (recv).  cancel() may come from any thread: it takes no mutex,   *)
(* so it falls between any two steps of the others, between the test and   *)
(* the wait of a condition and between the test and the assignment of      *)
(* rfcommChannelOpenComplete.  Its stores and its notification are one     *)
(* step here.                                                              *)
(*                                                                         *)
(* A callback that is late for its connection touches that connection's    *)
(* own state, which nobody reads any more, and is left out (CloseChannel). *)
(* A send is of what one native write takes (the MTU); the session sends   *)
(* the rest in another.                                                    *)
(***************************************************************************)
EXTENDS FrameCodec

CONSTANTS
  Transmissions, \* what a headset may send: bytes with no whole frame in them, then frames,
                 \* each followed by such bytes; and (a bound) how often we send meanwhile
  Chunks,        \* sizes in which the channel delivers them
  ReadSize,      \* 1024: the reader's buffer
  MaxReceived,   \* 65536: what the connector keeps for the reader
  MaxAttempts    \* bound: connect() calls

IsNoise(bytes) == bytes \in Seq(Byte) /\ Parsed(bytes) = <<>>
IsSent(s) == s.frame \in Frame /\ Encode(s.frame) # <<>> /\ IsNoise(s.then)

ASSUME ConnectorAssumption ==
  /\ \A t \in Transmissions :
       /\ IsNoise(t.before) /\ Len(t.sent) \in Nat /\ t.sends \in Nat
       /\ \A i \in 1 .. Len(t.sent) : IsSent(t.sent[i])
  /\ {ReadSize, MaxReceived, MaxFrameSize} \subseteq Nat \ {0} /\ MaxAttempts \in Nat
  /\ Chunks \subseteq 1 .. MaxReceived + 1

VARIABLES
  input, attempts, sends,
  caller, reader, owner,          \* the three threads
  channel,                        \* the native channel
  stop, connected, opened,        \* the shared state
  received, write,
  inflight,                       \* the write the channel works on
  arrived,                        \* how much of the input the channel has delivered
  consumed, buffer, frames,       \* the reader: bytes taken, _streamBuffer, frames
  reported, written               \* sends that succeeded, writes the headset took

stateVars == <<stop, connected, opened, received, write>>
readerVars == <<consumed, buffer, frames>>
countVars == <<reported, written>>
vars == <<input, attempts, sends, caller, reader, owner, channel, stop, connected, opened, received, write,
          inflight, arrived, consumed, buffer, frames, reported, written>>

Piece(s) == Wire(s.frame) \o s.then
Bytes(t) == t.before \o FlattenSeq([i \in 1 .. Len(t.sent) |-> Piece(t.sent[i])])
Frames(t) == [i \in 1 .. Len(t.sent) |-> t.sent[i].frame]
Inputs == {[bytes |-> Bytes(t), intact |-> Frames(t), sends |-> t.sends] : t \in Transmissions}

NoWrite == [id |-> 0, at |-> "none"]

Init ==
  /\ input \in Inputs /\ attempts = 0 /\ sends = 0
  /\ caller = "idle" /\ reader = "none" /\ owner = "none" /\ channel = "none"
  /\ stop = FALSE /\ connected = FALSE /\ opened = "no" /\ received = <<>> /\ write = NoWrite
  /\ inflight = 0 /\ arrived = 0
  /\ consumed = 0 /\ buffer = <<>> /\ frames = <<>>
  /\ reported = 0 /\ written = 0

\* Held over several steps only by openComplete and by a waiter that is about to wait.
MutexFree == owner # "callback" /\ caller \notin {"openChecked", "sendChecked"} /\ reader # "checked"

\* notify_all() reaches those that wait, not those about to.
Woken(thread) == CASE thread = "openParked" -> "opening" [] thread = "sendParked" -> "sending"
                   [] thread = "parked" -> "check" [] OTHER -> thread
Notify == caller' = Woken(caller) /\ reader' = Woken(reader)
Cancel == stop' = TRUE /\ connected' = FALSE /\ UNCHANGED <<opened, received, write>>

----------------------------------------------------------------------------
(* The caller.                                                             *)

callerKeeps == <<input, attempts, sends, owner, channel, inflight, arrived, readerVars, countVars>>

\* connect() cancels and joins whatever there was.
BeginConnect ==
  /\ caller = "idle" /\ reader = "none" /\ attempts < MaxAttempts
  /\ attempts' = attempts + 1 /\ caller' = "joining"
  /\ Cancel
  /\ UNCHANGED <<input, sends, owner, channel, inflight, arrived, reader, readerVars, countVars>>

WrongCanJoin == TRUE
CanJoin == owner \in {"none", "ended"}

\* A new state and a new thread.
StartOwner ==
  /\ caller = "joining" /\ CanJoin
  /\ stop' = FALSE /\ connected' = FALSE /\ opened' = "no" /\ received' = <<>> /\ write' = NoWrite
  /\ owner' = "starting" /\ caller' = "opening"
  /\ arrived' = 0 /\ consumed' = 0 /\ buffer' = <<>> /\ frames' = <<>>
  /\ reported' = 0 /\ written' = 0 /\ sends' = 0
  /\ UNCHANGED <<input, attempts, reader, channel, inflight>>

\* Connected: the session starts its reader.
OpenReturns ==
  /\ caller = "opening" /\ MutexFree /\ connected
  /\ caller' = "idle" /\ reader' = "check"
  /\ UNCHANGED <<callerKeeps, stateVars>>

\* Cancelled, closed or failed, or the deadline passed: cancel, join and throw.
OpenFails ==
  /\ \/ caller = "opening" /\ stop
     \/ caller = "openParked"
  /\ MutexFree /\ ~connected
  /\ caller' = "failing" /\ Cancel
  /\ UNCHANGED <<callerKeeps, reader>>

\* The caller waits: its condition is tested, and then it lets go of the mutex.
Waits(from, about, parked, condition) ==
  \/ caller = from /\ MutexFree /\ ~condition /\ caller' = about
  \/ caller = about /\ caller' = parked
CallerWaits ==
  /\ \/ Waits("opening", "openChecked", "openParked", connected \/ stop)
     \/ Waits("sending", "sendChecked", "sendParked", write.at \in {"done", "failed"} \/ stop)
  /\ UNCHANGED <<callerKeeps, stateVars, reader>>

\* send() of one piece, with the transport's own test.
Send ==
  /\ caller = "idle" /\ connected /\ MutexFree /\ sends < input.sends
  /\ sends' = sends + 1
  /\ write' = [id |-> sends', at |-> "queued"]
  /\ caller' = "sending" /\ reader' = Woken(reader)
  /\ UNCHANGED <<input, attempts, owner, channel, inflight, arrived, stop, connected, opened, received,
                 readerVars, countVars>>

WrongIsWritten == write.at = "done" \/ stop
IsWritten == write.at = "done"
SendReturns ==
  /\ caller = "sending" /\ MutexFree /\ IsWritten
  /\ caller' = "idle" /\ write' = NoWrite /\ reported' = reported + 1
  /\ UNCHANGED <<input, attempts, sends, owner, channel, inflight, arrived, stop, connected, opened,
                 received, reader, readerVars, written>>

\* It failed, was cancelled, or took 2.5 seconds.  The write stays in the state:
\* the channel may still be reading its bytes.
WrongSendFails ==
  /\ \/ caller = "sending" /\ (write.at = "failed" \/ stop)
     \/ caller = "sendParked"
  /\ MutexFree /\ ~IsWritten
  /\ caller' = "idle" /\ reader' = Woken(reader)
  /\ stop' = TRUE /\ connected' = FALSE /\ write' = NoWrite
  /\ UNCHANGED <<callerKeeps, opened, received>>
SendFails ==
  /\ \/ caller = "sending" /\ (write.at = "failed" \/ stop)
     \/ caller = "sendParked"
  /\ MutexFree /\ ~IsWritten
  /\ caller' = "idle" /\ reader' = Woken(reader) /\ Cancel
  /\ UNCHANGED callerKeeps

\* disconnect() joins the owner; then the session joins its reader.
BeginDisconnect ==
  /\ caller = "idle" /\ owner # "none"
  /\ caller' = "leaving" /\ reader' = Woken(reader) /\ Cancel
  /\ UNCHANGED callerKeeps

Joined ==
  /\ \/ caller = "leaving" /\ reader = "none"
     \/ caller = "failing"
  /\ owner \in {"none", "ended"}
  /\ caller' = "idle"
  /\ UNCHANGED <<callerKeeps, stateVars, reader>>

\* cancelPending() from another thread.
CancelPending ==
  /\ attempts > 0 /\ Cancel /\ Notify
  /\ UNCHANGED callerKeeps

----------------------------------------------------------------------------
(* The reader: recv() in the session's loop.                               *)

readerKeeps == <<input, attempts, sends, caller, owner, channel, stop, connected, opened, write, inflight,
                 arrived, countVars>>

WrongParse(bytes) ==
  /\ frames' = frames \o Parsed(bytes)
  /\ buffer' = <<>>
Parse(bytes) ==
  /\ frames' = frames \o Parsed(bytes)
  /\ buffer' = Rest(bytes)

Receive ==
  /\ reader = "check" /\ MutexFree /\ connected /\ ~stop /\ received # <<>>
  /\ LET n == IF Len(received) < ReadSize THEN Len(received) ELSE ReadSize IN
     /\ received' = SubSeq(received, n + 1, Len(received))
     /\ consumed' = consumed + n
     /\ Parse(buffer \o SubSeq(received, 1, n))
  /\ UNCHANGED <<readerKeeps, reader>>

\* The session's reader ends with the connection; a receive that timed out is tried again.
ReaderWaits ==
  /\ \/ reader = "check" /\ MutexFree /\ (stop \/ ~connected) /\ reader' = "none"
     \/ reader = "check" /\ MutexFree /\ connected /\ ~stop /\ received = <<>> /\ reader' = "checked"
     \/ reader = "checked" /\ reader' = "parked"
     \/ reader = "parked" /\ MutexFree /\ reader' = "check"
  /\ UNCHANGED <<readerKeeps, received, readerVars>>

----------------------------------------------------------------------------
(* The owner: runConnection().                                             *)

ownerKeeps == <<input, attempts, sends, inflight, arrived, readerVars, countVars>>

OwnerStarts ==
  /\ owner = "starting"
  /\ \/ /\ ~stop /\ owner' = "loop" /\ channel' = "opening"
        /\ UNCHANGED <<stateVars, caller, reader>>
     \/ /\ MutexFree /\ owner' = "leaving" /\ UNCHANGED channel       \* it has no such service
        /\ Cancel /\ Notify
  /\ UNCHANGED ownerKeeps

OwnerLeaves ==
  /\ owner \in {"starting", "loop"} /\ stop
  /\ owner' = "leaving"
  /\ UNCHANGED <<ownerKeeps, channel, stateVars, caller, reader>>

\* The channel was refused, or its deadline passes.
OwnerFails ==
  /\ owner = "loop" /\ MutexFree /\ ~connected
  /\ owner' = "leaving" /\ Cancel /\ Notify
  /\ UNCHANGED <<ownerKeeps, channel>>

\* A write is started under the mutex ...
TakeWrite ==
  /\ owner = "loop" /\ MutexFree /\ ~stop /\ connected /\ write.at = "queued"
  /\ owner' = "writing" /\ write' = [write EXCEPT !.at = "started"]
  /\ UNCHANGED <<ownerKeeps, caller, reader, channel, stop, connected, opened, received>>

\* ... and given to the channel without it, also when it was cancelled in between:
\* writeAsync() takes the bytes or not, or the channel has no MTU.
GiveWrite ==
  /\ owner = "writing"
  /\ \/ /\ owner' = "loop" /\ inflight' = write.id
        /\ UNCHANGED <<stateVars, caller, reader>>
     \/ /\ MutexFree /\ owner' = "loop" /\ write' = [write EXCEPT !.at = "failed"]
        /\ stop' = TRUE /\ connected' = FALSE /\ Notify
        /\ UNCHANGED <<opened, received, inflight>>
     \/ /\ MutexFree /\ owner' = "leaving" /\ Cancel /\ Notify /\ UNCHANGED inflight
  /\ UNCHANGED <<input, attempts, sends, channel, arrived, readerVars, countVars>>

WrongFinalCancel ==
  /\ owner = "leaving" /\ owner' = "closing"
  /\ UNCHANGED <<ownerKeeps, channel, stateVars, caller, reader>>
FinalCancel ==
  /\ owner = "leaving" /\ owner' = "closing"
  /\ Cancel /\ Notify
  /\ UNCHANGED <<ownerKeeps, channel>>

\* The channel is closed without a delegate.  Of a write it was working on, a completion
\* may still be queued: the delegate and with it this connection's state are kept until
\* the main run loop has turned (releaseLater), and the next connection has a state of
\* its own.  That the framework reports nothing after that turn is assumed.
CloseChannel ==
  /\ owner = "closing" /\ owner' = "ended"
  /\ channel' = "closed" /\ inflight' = 0
  /\ UNCHANGED <<input, attempts, sends, caller, reader, stateVars, arrived, readerVars, countVars>>

----------------------------------------------------------------------------
(* The channel's callbacks, in the owner's run loop.                       *)

\* openComplete: the test of stop, and (Opened) the assignment.
OpenCompletes ==
  /\ owner = "loop" /\ channel = "opening" /\ MutexFree
  /\ \/ /\ opened' = "ok" /\ channel' = "open"
        /\ owner' = IF stop THEN "loop" ELSE "callback"
     \/ opened' = "failed" /\ channel' = "closed" /\ UNCHANGED owner
  /\ Notify
  /\ UNCHANGED <<ownerKeeps, stop, connected, received, write>>

Opened ==
  /\ owner = "callback" /\ owner' = "loop"
  /\ connected' = TRUE /\ Notify
  /\ UNCHANGED <<ownerKeeps, channel, stop, opened, received, write>>

HeadsetCloses ==
  /\ owner = "loop" /\ channel = "open"
  /\ channel' = "closed" /\ inflight' = 0
  /\ Cancel /\ Notify
  /\ UNCHANGED <<input, attempts, sends, owner, arrived, readerVars, countVars>>

DataArrives(n) ==
  /\ owner = "loop" /\ channel = "open" /\ MutexFree /\ ~stop
  /\ n <= Len(input.bytes) - arrived
  /\ IF Len(received) + n > MaxReceived
     THEN stop' = TRUE /\ connected' = FALSE /\ UNCHANGED received
     ELSE /\ received' = received \o SubSeq(input.bytes, arrived + 1, arrived + n)
          /\ UNCHANGED <<stop, connected>>
  /\ arrived' = arrived + n /\ Notify
  /\ UNCHANGED <<input, attempts, sends, owner, channel, opened, write, inflight, readerVars, countVars>>

WriteCompletes ==
  /\ owner = "loop" /\ inflight # 0 /\ MutexFree
  /\ inflight' = 0
  /\ \/ /\ written' = written + 1
        /\ write' = IF write.id = inflight THEN [write EXCEPT !.at = "done"] ELSE write
        /\ UNCHANGED <<stop, connected>>
     \/ /\ UNCHANGED written
        /\ IF write.id = inflight
           THEN write' = [write EXCEPT !.at = "failed"] /\ stop' = TRUE /\ connected' = FALSE
           ELSE UNCHANGED <<write, stop, connected>>
  /\ Notify
  /\ UNCHANGED <<input, attempts, sends, owner, channel, opened, received, arrived, readerVars, reported>>

----------------------------------------------------------------------------
CallerStep == StartOwner \/ OpenReturns \/ OpenFails \/ CallerWaits \/ SendReturns \/ SendFails \/ Joined
ReaderStep == Receive \/ ReaderWaits
OwnerStep == OwnerStarts \/ OwnerLeaves \/ OwnerFails \/ GiveWrite \/ FinalCancel \/ CloseChannel \/ Opened
User == BeginConnect \/ Send \/ BeginDisconnect \/ CancelPending
Native == OpenCompletes \/ HeadsetCloses \/ (\E n \in Chunks : DataArrives(n)) \/ WriteCompletes

Next == User \/ CallerStep \/ ReaderStep \/ OwnerStep \/ TakeWrite \/ Native

Spec == Init /\ [][Next]_vars

\* The three threads run, and their waits have deadlines (OpenFails, SendFails,
\* ReaderWaits, OwnerFails); who wants the mutex gets it.  The channel owes nothing.
Fairness == SF_vars(CallerStep) /\ WF_vars(ReaderWaits) /\ SF_vars(OwnerStep)
FairSpec == Spec /\ Fairness

----------------------------------------------------------------------------
(* Properties.                                                             *)

\* The two byte buffers keep their bounds, whatever the headset sends.
TypeOK ==
  /\ caller \in {"idle", "joining", "opening", "openChecked", "openParked", "failing", "sending",
                 "sendChecked", "sendParked", "leaving"}
  /\ reader \in {"none", "check", "checked", "parked"}
  /\ owner \in {"none", "starting", "loop", "writing", "callback", "leaving", "closing", "ended"}
  /\ channel \in {"none", "opening", "open", "closed"}
  /\ {stop, connected} \subseteq BOOLEAN /\ opened \in {"no", "ok", "failed"}
  /\ write.at \in {"none", "queued", "started", "done", "failed"}
  /\ Len(received) <= MaxReceived
  /\ Len(buffer) < 2 * MaxFrameSize + ReadSize

\* The frames do not depend on how the bytes were cut, and damaged bytes cost the
\* frame they are in and no other: none is lost, changed, repeated or invented.
FramesSurvive ==
  /\ frames = Parsed(SubSeq(input.bytes, 1, consumed))
  /\ consumed = Len(input.bytes) => frames = input.intact

\* A send that returns was written, and the bytes of a write stay alive as long as
\* the channel may read them, also when the send has given up on it.
SendIsWritten == reported <= written /\ (inflight # 0 => write.id = inflight)

\* A connection opens its channel when the one before it has closed its own, however
\* connect(), disconnect() and cancel() fall between the steps of both.
OneChannel == [][owner = "starting" /\ owner' = "loop" => channel \in {"none", "closed"}]_vars

\* No wait is forever, though a cancel may be missed by who is about to wait for
\* it, and a completion that revives a cancelled connection does so for a moment.
NothingLingers == []<>(caller = "idle") /\ []<>(reader # "parked") /\ []<>~(stop /\ connected)

=============================================================================
