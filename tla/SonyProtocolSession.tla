------------------------ MODULE SonyProtocolSession ------------------------
(***************************************************************************)
(* SonyProtocolSession: one request/acknowledge session over a byte        *)
(* transport.  Three kinds of thread run in it:                            *)
(*   - callers in send() and sendAndAwaitResponse(), one at a time behind  *)
(*     _sendMtx, each parked on a condition variable until its evidence    *)
(*     (the ACK, or the response) arrives;                                 *)
(*   - the reader, which drains the transport, ACKs data frames, drops     *)
(*     duplicates and hands frames to the pending request or to callbacks; *)
(*   - the owner, which connects and disconnects the session.              *)
(* A section under _sessionMtx is one step.  The exception is a waiter's   *)
(* check-then-block, which is two steps with the mutex held in between:    *)
(* a notification sent without the mutex can fall in the gap.              *)
(* The headset and the link are the environment: the link is FIFO, a       *)
(* corrupt frame is dropped by the decoder, and the headset ACKs each data *)
(* frame with the bit it expects next and resends its own frames until     *)
(* they are ACKed.                                                         *)
(*                                                                         *)
(* A definition named Wrong... is what a plausible mistake would make of   *)
(* the definition that follows it; no action uses it.                      *)
(***************************************************************************)
EXTENDS Naturals, Sequences

CONSTANTS
  Callers,        \* threads that call send() and sendAndAwaitResponse()
  Opcodes,        \* response opcodes a request may ask for
  Notice,         \* the opcode of a frame the headset sends unasked
  None,
  SeqModulus,     \* _sequence is a uint8_t: 256
  MaxUnmatched,   \* frames kept for a later request: 32
  MaxCalls,       \* bound: calls made
  MaxFrames,      \* bound: the headset sends unasked while it produced fewer frames
  MaxFaults,      \* bound: frames lost or sent twice, writes timing out, links breaking
  MaxConnects,    \* bound: connections opened
  MaxDisconnects  \* bound: calls of disconnect(), those inside connect() apart

ASSUME SessionAssumption ==
  /\ SeqModulus \in Nat /\ SeqModulus > 4
  /\ MaxUnmatched \in Nat \ {0}
  /\ MaxCalls \in Nat /\ MaxFrames \in Nat /\ MaxFaults \in Nat
  /\ MaxConnects \in Nat /\ MaxDisconnects \in Nat
  /\ Notice \notin Opcodes
  /\ None \notin Nat \cup Opcodes \cup {Notice} \cup Callers

Calls == 1 .. MaxCalls
SeqNo == 0 .. SeqModulus - 1

\* A frame, in either direction.  call is the call a request carries, or the
\* one an ACK or a response answers; id numbers the headset's data frames.
Frame == [type : {"data", "ack"}, seq : SeqNo,
          op : Opcodes \cup {Notice, None}, call : Calls \cup {None}, id : Nat]

\* PendingRequest; orphan marks one whose caller left by a failed write.
Request == [op : Opcodes, call : Calls, response : Frame \cup {None}, orphan : BOOLEAN]

\* nullopt is no frame and no request.
ASSUME NoneAssumption == None \notin Frame \cup Request

VARIABLES
  session,    \* _running, _sequence, _hasAck (the call it is for), _pendingRequest,
              \* _unmatchedFrames, _lastSeenDataSeq
  sendMtx,    \* the holder of _sendMtx
  caller,     \* per caller: control, call number, opcode, local sequence number
  reader,     \* control, frames parsed from the last receive
  owner,      \* control, whether disconnect() runs inside connect()
  net,        \* the transport: link is "up", "down" or "broken" (isConnected() still
              \* true, but failing); frames in flight
  dev,        \* headset: frames to send, whether the head is in flight, its bit,
              \* the bit of the last request, frames produced
  used,       \* how much of each bound is used
  outcome,    \* history, per caller: how its last call ended, on whose evidence
  passed,     \* history: the frames the reader is done with, and where each went: to the
              \* callbacks, or into the pending request
  answers,    \* history: the frames sendAndAwaitResponse() returned, in order
  gaveUp      \* history: where calls of this connection were when they timed out

vars == <<session, sendMtx, caller, reader, owner, net, dev, used, outcome, passed, answers,
          gaveUp>>
history == <<outcome, passed, answers, gaveUp>>

-----------------------------------------------------------------------------
FreshDevice == [queue |-> <<>>, sent |-> FALSE, bit |-> 0, last |-> None, made |-> 0]

Init ==
  /\ session = [running |-> FALSE, sequence |-> 0, hasAck |-> None, pending |-> None,
                unmatched |-> <<>>, lastSeen |-> None]
  /\ sendMtx = None
  /\ caller = [c \in Callers |-> [pc |-> "idle", call |-> None, op |-> None, reg |-> 0]]
  /\ reader = [pc |-> "none", batch |-> <<>>]
  /\ owner = [pc |-> "idle", reopen |-> FALSE]
  /\ net = [link |-> "down", toDev |-> <<>>, toHost |-> <<>>]
  /\ dev = FreshDevice
  /\ used = [calls |-> 0, faults |-> 0, connects |-> 0, disconnects |-> 0]
  /\ outcome = [c \in Callers |-> None] /\ passed = <<>> /\ answers = <<>> /\ gaveUp = {}

\* isConnected(): the session runs and the transport says it is connected.
IsConnected == session.running /\ net.link # "down"

\* _sessionMtx is free: no waiter is between its check and its block.
SessionFree == \A c \in Callers : caller[c].pc # "parking"

\* notify_all, on _ackCv (waiters of send()), _responseCv (the others), or both.
Woken(cs) == [c \in Callers |-> IF caller[c].pc = "parked" /\ c \in cs
                                THEN [caller[c] EXCEPT !.pc = "check"] ELSE caller[c]]
\* The notification at the end of the session: both variables, under the mutex.
WrongNotifyAll == caller' = Woken(Callers)
NotifyAll == SessionFree /\ caller' = Woken(Callers)

Askers == {c \in Callers : caller[c].op # None}

Fault == used.faults < MaxFaults /\ used' = [used EXCEPT !.faults = @ + 1]

-----------------------------------------------------------------------------
(* Callers *)

Goto(c, to) == caller' = [caller EXCEPT ![c].pc = to]
Step(c, from, to) == caller[c].pc = from /\ Goto(c, to)

\* send() (o is None) and sendAndAwaitResponse() check the connection before
\* they take _sendMtx; with none they throw and change nothing.
Call(c, o) ==
  /\ caller[c].pc = "idle" /\ used.calls < MaxCalls
  /\ IsConnected
  /\ used' = [used EXCEPT !.calls = @ + 1]
  /\ caller' = [caller EXCEPT ![c] = [pc |-> "lock", call |-> used.calls + 1, op |-> o,
                                      reg |-> 0]]
  /\ outcome' = [outcome EXCEPT ![c] = None]
  /\ UNCHANGED <<session, sendMtx, reader, owner, net, dev, passed, answers, gaveUp>>

Lock(c) ==
  /\ sendMtx = None /\ sendMtx' = c
  /\ Step(c, "lock", "load")
  /\ UNCHANGED <<session, reader, owner, net, dev, used, history>>

\* nextSequenceNumber() in its three atomic accesses: load, store, fetch_add.
\* The reader may store an ACK's bit between any two of them.
WrongNeedsFold(s) == s > 2 /\ s < SeqModulus - 2
NeedsFold(s) == s > 1 /\ s < SeqModulus - 2

LoadSequence(c) ==
  /\ caller[c].pc = "load"
  /\ caller' = [caller EXCEPT ![c].reg = session.sequence,
                              ![c].pc = IF NeedsFold(session.sequence) THEN "store" ELSE "fetch"]
  /\ UNCHANGED <<session, sendMtx, reader, owner, net, dev, used, history>>

StoreSequence(c) ==
  /\ Step(c, "store", "fetch")
  /\ session' = [session EXCEPT !.sequence = caller[c].reg % 2]
  /\ UNCHANGED <<sendMtx, reader, owner, net, dev, used, history>>

WrongSuccessor(s) == s
Successor(s) == (s + 1) % SeqModulus

FetchSequence(c) ==
  /\ caller[c].pc = "fetch"
  /\ caller' = [caller EXCEPT ![c].reg = session.sequence, ![c].pc = "arm"]
  /\ session' = [session EXCEPT !.sequence = Successor(@)]
  /\ UNCHANGED <<sendMtx, reader, owner, net, dev, used, history>>

\* The buffered frames that answer opcode o, and a sequence without index i.
Buffered(o) == {i \in DOMAIN session.unmatched : session.unmatched[i].op = o}
WrongWithout(s, i) == s
Without(s, i) == SubSeq(s, 1, i - 1) \o SubSeq(s, i + 1, Len(s))

NewRequest(c, response) ==
  [op |-> caller[c].op, call |-> caller[c].call, response |-> response, orphan |-> FALSE]

\* Forget the previous ACK; a request also registers itself, and takes the
\* oldest buffered frame of its opcode as its response.
Arm(c) ==
  /\ Step(c, "arm", "write") /\ SessionFree
  /\ \/ /\ caller[c].op = None
        /\ session' = [session EXCEPT !.hasAck = None]
     \/ /\ caller[c].op # None /\ Buffered(caller[c].op) = {}
        /\ session' = [session EXCEPT !.hasAck = None, !.pending = NewRequest(c, None)]
     \/ /\ caller[c].op # None
        /\ \E i \in Buffered(caller[c].op) :
             /\ \A j \in Buffered(caller[c].op) : i <= j
             /\ session' = [session EXCEPT !.hasAck = None, !.unmatched = Without(@, i),
                                           !.pending = NewRequest(c, session.unmatched[i])]
  /\ UNCHANGED <<sendMtx, reader, owner, net, dev, used, history>>

\* The call returns or throws, and _sendMtx is released.  A frame is answered
\* when a request returns it, not when it is put into _pendingRequest.
Reply == [id |-> session.pending.response.id, op |-> session.pending.op]

Ends(c, out, from) ==
  /\ Goto(c, "idle")
  /\ sendMtx' = None
  /\ outcome' = [outcome EXCEPT ![c] = [out |-> out, call |-> caller[c].call, from |-> from,
                                        op |-> caller[c].op]]
  /\ answers' = IF out = "ok" /\ caller[c].op # None THEN Append(answers, Reply) ELSE answers
  /\ gaveUp' = gaveUp \cup (IF out = "timeout" THEN {caller[c].pc} ELSE {})
  /\ UNCHANGED <<reader, owner, net, dev, passed>>

RequestFrame(c) == [type |-> "data", seq |-> caller[c].reg, op |-> caller[c].op,
                    call |-> caller[c].call, id |-> 0]

WriteRequest(c) ==
  /\ Step(c, "write", "check") /\ net.link = "up"
  /\ net' = [net EXCEPT !.toDev = Append(@, RequestFrame(c))]
  /\ UNCHANGED <<session, sendMtx, reader, owner, dev, used, history>>

\* A failed write throws past the code that resets _pendingRequest.  If the
\* transport reports a timeout the session goes on running; any other failure
\* stops it, save that a transport that already says it is disconnected is
\* refused before the write.
Orphaned(c) == IF caller[c].op # None /\ session.pending # None
               THEN [session.pending EXCEPT !.orphan = TRUE] ELSE session.pending

WriteTimesOut(c) ==
  /\ caller[c].pc = "write" /\ net.link = "up" /\ Fault
  /\ session' = [session EXCEPT !.pending = Orphaned(c)]
  /\ Ends(c, "timeout", None)

WriteFails(c) ==
  /\ caller[c].pc = "write" /\ net.link # "up"
  /\ session' = [session EXCEPT !.pending = Orphaned(c),
                                !.running = @ /\ net.link = "down"]
  /\ Ends(c, "disconnected", None)
  /\ UNCHANGED used

\* What the waiter waits for: the ACK, or a response in its pending request.
Answered == session.pending # None /\ session.pending.response # None
Evidence(c) == IF caller[c].op = None THEN session.hasAck # None ELSE Answered
Ready(c)    == ~IsConnected \/ Evidence(c)
Taken(c)    == IF caller[c].op = None THEN session.hasAck ELSE session.pending.response.call

\* The code after wait_until, with _sessionMtx held.
WrongSettled(c) == session.pending
Settled(c) == IF caller[c].op = None THEN session.pending ELSE None
Conclude(c) ==
  /\ \/ /\ ~IsConnected
        /\ Ends(c, "disconnected", None)
        /\ session' = [session EXCEPT !.pending = Settled(c)]
     \/ /\ IsConnected /\ ~Evidence(c)
        /\ Ends(c, "timeout", None)
        /\ session' = [session EXCEPT !.pending = Settled(c)]
     \/ /\ IsConnected /\ Evidence(c)
        /\ Ends(c, "ok", Taken(c))
        /\ session' = [session EXCEPT !.pending = Settled(c), !.hasAck = None]
  /\ UNCHANGED used

Finish(c) == caller[c].pc = "check" /\ SessionFree /\ Ready(c) /\ Conclude(c)

\* The deadline: wait_until returns the predicate as it is then.
WrongTimeOut(c) == FALSE
TimeOut(c) == caller[c].pc = "parked" /\ SessionFree /\ Conclude(c)

\* The predicate is false: the waiter blocks, and only then frees _sessionMtx.
FindNotReady(c) ==
  /\ Step(c, "check", "parking") /\ SessionFree /\ ~Ready(c)
  /\ UNCHANGED <<session, sendMtx, reader, owner, net, dev, used, history>>

Park(c) ==
  /\ Step(c, "parking", "parked")
  /\ UNCHANGED <<session, sendMtx, reader, owner, net, dev, used, history>>

-----------------------------------------------------------------------------
(* The reader thread *)

Current == Head(reader.batch)

\* The frame is done: on to the next of the batch, or to the top of the loop,
\* which leaves when the session stopped.
NextFrame ==
  reader' = [pc |-> IF Len(reader.batch) > 1 THEN "frame"
                    ELSE IF session.running THEN "receive" ELSE "exit",
             batch |-> Tail(reader.batch)]

ReaderAt(from, to) == reader.pc = from /\ reader' = [reader EXCEPT !.pc = to]

\* receive() returns some of the bytes that arrived, parsed into whole frames.
Receive ==
  /\ reader.pc = "receive" /\ net.link # "down" /\ SessionFree
  /\ \E n \in 1 .. Len(net.toHost) :
       /\ reader' = [pc |-> "frame", batch |-> SubSeq(net.toHost, 1, n)]
       /\ net' = [net EXCEPT !.toHost = SubSeq(@, n + 1, Len(@))]
  /\ UNCHANGED <<session, sendMtx, caller, owner, dev, used, history>>

\* receive() times out after the session stopped (otherwise the loop goes on),
\* or fails on a link that is gone.
WrongReceiveEnds == net.link # "up"
ReceiveEnds == ~session.running \/ net.link # "up"

StopReceiving ==
  /\ ReaderAt("receive", "exit") /\ ReceiveEnds
  /\ UNCHANGED <<session, sendMtx, caller, owner, net, dev, used, history>>

\* _handleDecodedFrame() of an ACK: whatever bit it carries, it counts.
HandleAck ==
  /\ reader.pc = "frame" /\ Current.type = "ack" /\ SessionFree
  /\ session' = [session EXCEPT !.hasAck = Current.call,
                                !.sequence = IF Current.seq <= 1 THEN Current.seq ELSE @]
  /\ caller' = Woken(Callers)
  /\ NextFrame
  /\ UNCHANGED <<sendMtx, owner, net, dev, used, history>>

HostAck(f) == [type |-> "ack", seq |-> 1 - (f.seq % 2), op |-> None, call |-> None, id |-> 0]

\* A data frame is ACKed first, duplicate or not; a failure to write the ACK is
\* swallowed (but stops the session, unless it is a timeout).
AckData ==
  /\ ReaderAt("frame", "acked") /\ Current.type = "data"
  /\ \/ /\ net.link = "up"
        /\ net' = [net EXCEPT !.toDev = Append(@, HostAck(Current))]
        /\ UNCHANGED <<session, caller, used>>
     \/ /\ net.link = "up" /\ Fault
        /\ UNCHANGED <<session, caller, net>>
     \/ /\ net.link = "broken"
        /\ session' = [session EXCEPT !.running = FALSE]
        /\ caller' = Woken(Callers)
        /\ UNCHANGED <<net, used>>
     \/ /\ net.link = "down"
        /\ UNCHANGED <<session, caller, net, used>>
  /\ UNCHANGED <<sendMtx, owner, dev, history>>

\* The duplicate check looks at the last data frame's number and no more.
WrongIsDuplicate(f) == FALSE
IsDuplicate(f) == session.lastSeen = f.seq

DropDuplicate ==
  /\ reader.pc = "acked" /\ SessionFree
  /\ IsDuplicate(Current)
  /\ NextFrame
  /\ UNCHANGED <<session, sendMtx, caller, owner, net, dev, used, history>>

RememberSequence ==
  /\ ReaderAt("acked", "fresh") /\ SessionFree
  /\ ~IsDuplicate(Current)
  /\ session' = [session EXCEPT !.lastSeen = Current.seq]
  /\ UNCHANGED <<sendMtx, caller, owner, net, dev, used, history>>

\* The pending request waits for frame f.
WrongAnswers(f) == session.pending # None /\ session.pending.op = f.op
Answers(f) ==
  session.pending # None /\ session.pending.response = None /\ session.pending.op = f.op

Passes(f, to) ==
  passed' = Append(passed, [id |-> f.id, to |-> to]) /\ UNCHANGED <<outcome, answers, gaveUp>>

MatchRequest ==
  /\ reader.pc = "fresh" /\ SessionFree
  /\ Answers(Current)
  /\ session' = [session EXCEPT !.pending = [@ EXCEPT !.response = Current]]
  /\ caller' = Woken(Askers)
  /\ Passes(Current, "request")
  /\ NextFrame
  /\ UNCHANGED <<sendMtx, owner, net, dev, used>>

\* Nobody waits for it: kept for a later request, the oldest making room, and
\* then shown to the notification callbacks, outside every lock.
WrongCapped(s) == s
Capped(s) == IF Len(s) > MaxUnmatched THEN Tail(s) ELSE s

KeepUnmatched ==
  /\ ReaderAt("fresh", "dispatch") /\ SessionFree
  /\ ~Answers(Current)
  /\ session' = [session EXCEPT !.unmatched = Capped(Append(@, Current))]
  /\ UNCHANGED <<sendMtx, caller, owner, net, dev, used, history>>

Dispatch ==
  /\ reader.pc = "dispatch"
  /\ Passes(Current, "callbacks")
  /\ NextFrame
  /\ UNCHANGED <<session, sendMtx, caller, owner, net, dev, used>>

\* The loop's end: the store to _running is not under the mutex, the
\* notification is.
ReaderStops ==
  /\ ReaderAt("exit", "bye")
  /\ session' = [session EXCEPT !.running = FALSE]
  /\ UNCHANGED <<sendMtx, caller, owner, net, dev, used, history>>

ReaderNotifies ==
  /\ ReaderAt("bye", "done") /\ NotifyAll
  /\ UNCHANGED <<session, sendMtx, owner, net, dev, used, history>>

-----------------------------------------------------------------------------
(* The owner: connect() and disconnect() *)

OwnerAt(from, to) == owner.pc = from /\ owner' = [owner EXCEPT !.pc = to]

\* connect() takes down a session that still runs; with a dead one it goes
\* straight to the transport, and disconnect()'s resets do not happen.
Connect ==
  /\ owner.pc = "idle" /\ used.connects < MaxConnects
  /\ used' = [used EXCEPT !.connects = @ + 1]
  /\ owner' = IF session.running THEN [pc |-> "disconnect", reopen |-> TRUE]
                                 ELSE [pc |-> "open", reopen |-> FALSE]
  /\ UNCHANGED <<session, sendMtx, caller, reader, net, dev, history>>

\* disconnect(): stop, and ask the transport to abandon what it is doing (which
\* some transports ignore and others answer by closing) ...
BeginDisconnect ==
  /\ \/ owner.pc = "disconnect" /\ UNCHANGED used
     \/ /\ owner.pc = "idle" /\ used.disconnects < MaxDisconnects
        /\ used' = [used EXCEPT !.disconnects = @ + 1]
  /\ owner' = [owner EXCEPT !.pc = "stop"]
  /\ session' = [session EXCEPT !.running = FALSE]
  /\ \E l \in {net.link, "down"} : net' = [net EXCEPT !.link = l]
  /\ UNCHANGED <<sendMtx, caller, reader, dev, history>>

\* ... _stopReader() notifies under the mutex ...
StopReader ==
  /\ OwnerAt("stop", "join") /\ NotifyAll
  /\ UNCHANGED <<session, sendMtx, reader, net, dev, used, history>>

\* ... and joins the reader; only then is the transport closed ...
Joined == reader.pc \in {"none", "done"}

JoinReader ==
  /\ OwnerAt("join", "clear") /\ Joined
  /\ net' = [net EXCEPT !.link = "down"]
  /\ UNCHANGED <<session, sendMtx, caller, reader, dev, used, history>>

\* ... and everything is forgotten.
ClearSession ==
  /\ owner.pc = "clear" /\ NotifyAll
  /\ owner' = [pc |-> IF owner.reopen THEN "open" ELSE "idle", reopen |-> FALSE]
  /\ session' = [running |-> session.running, sequence |-> 0, hasAck |-> None,
                 pending |-> None, unmatched |-> <<>>, lastSeen |-> None]
  /\ UNCHANGED <<sendMtx, reader, net, dev, used, history>>

\* The transport connects: a new link, to a headset that starts afresh ...
OpenTransport ==
  /\ OwnerAt("open", "start")
  /\ net' = [link |-> "up", toDev |-> <<>>, toHost |-> <<>>]
  /\ dev' = FreshDevice
  /\ passed' = <<>> /\ answers' = <<>> /\ gaveUp' = {}
  /\ UNCHANGED <<session, sendMtx, caller, reader, used, outcome>>

\* ... or it throws, out of connect().
ConnectFails ==
  /\ OwnerAt("open", "idle")
  /\ net' = [net EXCEPT !.link = "down"]
  /\ UNCHANGED <<session, sendMtx, caller, reader, dev, used, history>>

\* start() refuses a link that has gone already; _sequence is left as it was.
Start ==
  /\ \/ /\ net.link = "down" /\ OwnerAt("start", "idle")
        /\ UNCHANGED <<session, caller>>
     \/ /\ net.link # "down" /\ OwnerAt("start", "spawn") /\ NotifyAll
        /\ session' = [session EXCEPT !.hasAck = None, !.pending = None, !.unmatched = <<>>,
                                      !.lastSeen = None]
  /\ UNCHANGED <<sendMtx, reader, net, dev, used, history>>

\* _startReader() joins a reader that ended by itself, then runs a new one.
SpawnReader ==
  /\ OwnerAt("spawn", "idle") /\ Joined
  /\ session' = [session EXCEPT !.running = TRUE]
  /\ reader' = [pc |-> "receive", batch |-> <<>>]
  /\ UNCHANGED <<sendMtx, caller, net, dev, used, history>>

-----------------------------------------------------------------------------
(* The headset and the link, as the session's code relies on them *)

Produce(d, o, call) == [d EXCEPT !.queue = Append(@, [op |-> o, call |-> call, id |-> d.made + 1]),
                                 !.made = @ + 1]

\* A request is ACKed with the bit the headset expects next, then answered.
DeviceTakesRequest ==
  /\ net.link = "up" /\ net.toDev # <<>>
  /\ LET f == Head(net.toDev) IN
       /\ f.type = "data"
       /\ net' = [net EXCEPT !.toDev = Tail(@),
                             !.toHost = Append(@, [HostAck(f) EXCEPT !.call = f.call])]
       /\ dev' = LET d == [dev EXCEPT !.last = f.seq]
                 IN IF f.op = None THEN d ELSE Produce(d, f.op, f.call)
  /\ UNCHANGED <<session, sendMtx, caller, reader, owner, used, history>>

\* The host's ACK of the frame in flight: on to the next, with the other bit.
DeviceTakesAck ==
  /\ net.link = "up" /\ net.toDev # <<>> /\ Head(net.toDev).type = "ack"
  /\ net' = [net EXCEPT !.toDev = Tail(@)]
  /\ dev' = IF dev.sent /\ Head(net.toDev).seq = 1 - dev.bit
            THEN [dev EXCEPT !.queue = Tail(@), !.sent = FALSE, !.bit = 1 - @] ELSE dev
  /\ UNCHANGED <<session, sendMtx, caller, reader, owner, used, history>>

DeviceNotifies ==
  /\ net.link = "up" /\ dev.made < MaxFrames
  /\ dev' = Produce(dev, Notice, None)
  /\ UNCHANGED <<session, sendMtx, caller, reader, owner, net, used, history>>

DeviceSends ==
  /\ net.link = "up" /\ dev.queue # <<>>
  /\ IF dev.sent THEN Fault ELSE UNCHANGED used
  /\ LET h == Head(dev.queue)
         f == [type |-> "data", seq |-> dev.bit, op |-> h.op, call |-> h.call, id |-> h.id]
     IN net' = [net EXCEPT !.toHost = Append(@, f)]
  /\ dev' = [dev EXCEPT !.sent = TRUE]
  /\ UNCHANGED <<session, sendMtx, caller, reader, owner, history>>

\* A corrupt frame is dropped, by either decoder.
LoseFrame ==
  /\ Fault
  /\ \/ net.toDev # <<>> /\ net' = [net EXCEPT !.toDev = Tail(@)]
     \/ net.toHost # <<>> /\ net' = [net EXCEPT !.toHost = Tail(@)]
  /\ UNCHANGED <<session, sendMtx, caller, reader, owner, dev, history>>

\* The headset goes away, or another thread cancels the transport's pending
\* operations; isConnected() may or may not tell.
LinkBreaks ==
  /\ net.link = "up" /\ Fault
  /\ \E l \in {"broken", "down"} : net' = [net EXCEPT !.link = l]
  /\ UNCHANGED <<session, sendMtx, caller, reader, owner, dev, history>>

-----------------------------------------------------------------------------
\* A step of a call that is under way, its deadline apart.
CallStep(c) ==
  \/ Lock(c) \/ LoadSequence(c) \/ StoreSequence(c) \/ FetchSequence(c) \/ Arm(c)
  \/ WriteRequest(c) \/ WriteTimesOut(c) \/ WriteFails(c)
  \/ Finish(c) \/ FindNotReady(c) \/ Park(c)

Reader ==
  \/ Receive \/ StopReceiving \/ HandleAck \/ AckData \/ DropDuplicate \/ RememberSequence
  \/ MatchRequest \/ KeepUnmatched \/ Dispatch \/ ReaderStops \/ ReaderNotifies

Owner ==
  \/ Connect \/ BeginDisconnect \/ StopReader \/ JoinReader \/ ClearSession
  \/ OpenTransport \/ ConnectFails \/ Start \/ SpawnReader

Environment ==
  \/ DeviceTakesRequest \/ DeviceTakesAck \/ DeviceNotifies \/ DeviceSends
  \/ LoseFrame \/ LinkBreaks

Next ==
  \/ \E c \in Callers :
       \/ \E o \in Opcodes \cup {None} : Call(c, o)
       \/ CallStep(c)
       \/ TimeOut(c)
  \/ Reader \/ Owner \/ Environment

Spec == Init /\ [][Next]_vars

\* Threads that can run do run, and receive() returns in the end; nothing is
\* asked of the headset, the link, or the users of the session.
FairSpec ==
  /\ Spec
  /\ \A c \in Callers : WF_vars(CallStep(c))
  /\ WF_vars(Reader)
  /\ WF_vars(Owner /\ owner.pc # "idle")

\* The deadlines of wait_until pass too.
TimedSpec == FairSpec /\ \A c \in Callers : WF_vars(TimeOut(c))

=============================================================================
