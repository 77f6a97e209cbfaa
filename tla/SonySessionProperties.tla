----------------------- MODULE SonySessionProperties -----------------------
(***************************************************************************)
(* What SonyProtocolSession's threads, headset and link keep true.         *)
(***************************************************************************)
EXTENDS SonyProtocolSession

SessionOK ==
  /\ session \in [running : BOOLEAN, sequence : SeqNo, hasAck : Calls \cup {None},
                  pending : Request \cup {None}, unmatched : Seq(Frame),
                  lastSeen : SeqNo \cup {None}]
  /\ Len(session.unmatched) <= MaxUnmatched
CallerOK ==
  /\ sendMtx \in Callers \cup {None}
  /\ caller \in [Callers -> [pc : {"idle", "lock", "load", "store", "fetch", "arm", "write",
                                   "check", "parking", "parked"},
                             call : Calls \cup {None}, op : Opcodes \cup {None}, reg : SeqNo]]
ThreadsOK ==
  /\ reader \in [pc : {"none", "receive", "frame", "acked", "fresh", "dispatch", "exit", "bye",
                       "done"}, batch : Seq(Frame)]
  /\ owner \in [pc : {"idle", "disconnect", "stop", "join", "clear", "open", "start", "spawn"},
                reopen : BOOLEAN]
WireOK ==
  /\ net \in [link : {"up", "broken", "down"}, toDev : Seq(Frame), toHost : Seq(Frame)]
  /\ dev \in [queue : Seq([op : Opcodes \cup {Notice}, call : Calls \cup {None}, id : Nat]),
              sent : BOOLEAN, bit : {0, 1}, last : SeqNo \cup {None}, made : Nat]
HistoryOK ==
  /\ used \in [calls : 0 .. MaxCalls, faults : Nat, connects : Nat, disconnects : Nat]
  /\ outcome \in [Callers -> [out : {"ok", "timeout", "disconnected"}, call : Calls,
                              from : Calls \cup {None}, op : Opcodes \cup {None}] \cup {None}]
  /\ passed \in Seq([id : Nat, to : {"callbacks", "request"}])
  /\ answers \in Seq([id : Nat, op : Opcodes])
  /\ gaveUp \subseteq {"write", "check", "parked"}

\* The values every variable takes; _unmatchedFrames stays within its cap.
TypeOK == SessionOK /\ CallerOK /\ ThreadsOK /\ WireOK /\ HistoryOK

\* Every data frame the session writes carries a one-bit sequence number,
\* although nextSequenceNumber() is three atomic accesses and the reader stores
\* ACK bits between them.
OneBitSequence ==
  \A i \in DOMAIN net.toDev : net.toDev[i].type = "data" => net.toDev[i].seq \in {0, 1}

\* While a session's first connection lasts the headset never takes a new
\* request for a repetition of the last one: the bit of consecutive requests
\* alternates, until a call has timed out (its late ACK then rewinds _sequence).
\* A stopped session lets callers behind _sendMtx write without waiting.
FreshRequestBit ==
  used.connects <= 1 /\ IsConnected =>
    \/ gaveUp # {} \/ net.toDev = <<>>
    \/ Head(net.toDev).type = "ack" \/ Head(net.toDev).seq # dev.last

\* On a session's first connection a call that returns normally took the ACK, or
\* the response, of its own request: neither the unchecked ACK number, nor the
\* frames buffered for later, nor a resent frame make it take another's, until a
\* call has timed out.
OwnEvidence ==
  used.connects <= 1 =>
    gaveUp # {} \/ \A c \in Callers :
      outcome[c] # None /\ outcome[c].out = "ok" => outcome[c].from = outcome[c].call

\* _pendingRequest belongs to the caller inside _sendMtx; only a failed write
\* leaves one behind.
NoOrphanRequest ==
  session.pending # None =>
    \/ session.pending.orphan
    \/ \E c \in Callers : sendMtx = c /\ caller[c].call = session.pending.call

\* What the headset has seen ACKed does not get lost: the reader has it in its
\* hands (it ACKs first), or it was shown to the callbacks, or a request took it,
\* and then that request still holds it or has returned it.  Two of the code's
\* ways to lose a frame a request took are left out: the connection ends before
\* the waiter looks (it throws, response or not), and the write of a request
\* timed out (what it holds, or takes as an orphan, reaches nobody).  This is for
\* a session's first connection: connect() on a dead session opens the transport
\* before the old reader is joined, which may ACK and drop a new frame.
Confirmed == dev.made - Len(dev.queue)
InHand(i) == i = Len(passed) + 1 /\ reader.pc \in {"acked", "fresh", "dispatch"}
HeldFor(i) == Answered /\ session.pending.response.id = i
AnsweredWith(i) == \E k \in DOMAIN answers : answers[k].id = i
ConfirmedIsDelivered ==
  used.connects = 1 =>
    \A i \in 1 .. Confirmed :
      \/ InHand(i)
      \/ /\ i \in DOMAIN passed /\ passed[i].id = i
         /\ passed[i].to = "request" =>
              HeldFor(i) \/ AnsweredWith(i) \/ ~IsConnected \/ "write" \in gaveUp

\* A parked waiter is woken by the end of the session, not by its deadline:
\* _running is cleared in four places, with and without the mutex.
WokenWhenStopped ==
  \A c \in Callers :
    caller[c].pc = "parked" /\ ~session.running ~> caller[c].pc # "parked" \/ session.running

\* disconnect() and connect() return: the reader they join always ends.
OwnerReturns == owner.pc # "idle" ~> owner.pc = "idle"

\* Every call returns, with its evidence or an exception.
CallsReturn == \A c \in Callers : caller[c].pc # "idle" ~> caller[c].pc = "idle"

\* On the session's first connection (SonyDevice makes a session for each) the
\* reader disposes of the headset's frames in order, each once, on one of two
\* routes: the callbacks, or the request that waits.  A frame the callbacks saw
\* may answer a request as well, from _unmatchedFrames, and later: but no frame
\* answers two, and those of one opcode answer in the order they were sent.
Delivery == INSTANCE OrderedDelivery WITH
  produced <- IF used.connects <= 1 THEN dev.made ELSE 0,
  passed   <- IF used.connects <= 1 THEN passed ELSE <<>>,
  answers  <- IF used.connects <= 1 THEN answers ELSE <<>>
DeliversInOrder == Delivery!Spec

\* "A transport ACK confirms acceptance" (docs/ipc-and-lifecycle.md:106): when
\* send() returns, the ACK it took was for the frame it sent.
AckConfirmsAcceptance ==
  \A c \in Callers :
    outcome[c] # None /\ outcome[c].out = "ok" /\ outcome[c].op = None
      => outcome[c].from = outcome[c].call
=============================================================================
