------------------------- MODULE SonyDeliveryProofs -------------------------
(***************************************************************************)
(* Theorems of a session's first connection, which relate both channels,  *)
(* the headset, the reader and the callers.  From the bits of the          *)
(* headset's frames (BitInv): each is passed on once, in order.  From the  *)
(* traces of the outstanding request (CalmInv): a call ends with its own   *)
(* evidence, and the bits of requests alternate.  From where the frames    *)
(* that answer requests are (StashInv, LiveInv): what is ACKed is not      *)
(* lost, and the receive half implements OrderedDelivery.                  *)
(***************************************************************************)
EXTENDS SonySessionProofs

(* The phases of the first connection: when there is a reader. *)

Once == used.connects <= 1

\* A connection that has no reader yet: no call was made, nothing was read.
Pristine ==
  /\ ~session.running /\ session.lastSeen = None /\ session.hasAck = None
  /\ session.pending = None /\ session.unmatched = <<>> /\ session.sequence = 0
  /\ \A c \in Callers : caller[c].pc = "idle" /\ outcome[c] = None
  /\ net.toDev = <<>> /\ dev.last = None /\ passed = <<>> /\ answers = <<>>
  /\ \A i \in DOMAIN net.toHost : net.toHost[i].type = "data"
  /\ \A i \in DOMAIN dev.queue : dev.queue[i].op = Notice

Opening == {"open", "start", "spawn"}
Phases ==
  /\ owner.pc # "idle" => ~session.running
  /\ owner.pc \in Opening => reader.pc = "none" /\ used.connects # 0
  /\ ~owner.reopen /\ owner.pc # "disconnect"
  /\ owner.pc = "clear" => Joined
  /\ used.connects = 0 => reader.pc = "none"
  /\ reader.pc = "none" => Pristine
  /\ reader.pc \notin Busy => reader.batch = <<>>
PhaseInv == Once => Phases

LEMMA OnceBefore == ASSUME TypeInv, Next, Once' PROVE Once
<1> USE DEF TypeInv, TypeOK, HistoryOK, Once
<1>1. CASE Reader
  BY <1>1 DEF Reader, Receive, StopReceiving, HandleAck, AckData, DropDuplicate, RememberSequence,
     MatchRequest, KeepUnmatched, Dispatch, ReaderStops, ReaderNotifies, Fault
<1>2. CASE Owner
  <2>1. CASE Connect
    BY <2>1 DEF Connect
  <2>2. CASE BeginDisconnect
    BY <2>2 DEF BeginDisconnect
  <2>3. CASE ~Connect /\ ~BeginDisconnect
    <3>1. UNCHANGED used
      BY <1>2, <2>3 DEF Owner, StopReader, JoinReader, ClearSession, OpenTransport, ConnectFails, Start,
         SpawnReader
    <3>2. QED
      BY <3>1
  <2>4. QED
    BY <2>1, <2>2, <2>3
<1>3. CASE Environment
  BY <1>3 DEF Environment, DeviceTakesRequest, DeviceTakesAck, DeviceNotifies, DeviceSends,
     LoseFrame, LinkBreaks, Fault
<1>4. ASSUME NEW c \in Callers, CallStep(c) \/ TimeOut(c) \/ \E o \in Opcodes \cup {None} : Call(c, o)
      PROVE  Once
  BY <1>4 DEF CallStep, TimeOut, Call, Lock, LoadSequence, StoreSequence, FetchSequence, Arm,
     WriteRequest, WriteTimesOut, WriteFails, Finish, FindNotReady, Park, Conclude, Fault
<1>5. QED
  BY <1>1, <1>2, <1>3, <1>4 DEF Next

\* With no reader nothing happens but what the owner and the headset do.
LEMMA NoReader ==
  ASSUME TypeInv, reader.pc = "none", Pristine
  PROVE  /\ ~Reader
         /\ \A c \in Callers : ~CallStep(c) /\ ~TimeOut(c)
         /\ \A c \in Callers : \A o \in Opcodes \cup {None} : ~Call(c, o)
         /\ ~DeviceTakesRequest /\ ~DeviceTakesAck
<1>1. ~Reader
  BY DEF Reader, Receive, StopReceiving, HandleAck, AckData, DropDuplicate, RememberSequence,
     MatchRequest, KeepUnmatched, Dispatch, ReaderStops, ReaderNotifies, ReaderAt
<1>2. ASSUME NEW c \in Callers PROVE ~CallStep(c) /\ ~TimeOut(c)
  BY DEF Pristine, CallStep, TimeOut, Lock, LoadSequence, StoreSequence, FetchSequence, Arm, Step,
     WriteRequest, WriteTimesOut, WriteFails, Finish, FindNotReady, Park
<1>3. ASSUME NEW c \in Callers, NEW o \in Opcodes \cup {None} PROVE ~Call(c, o)
  BY DEF Pristine, Call, IsConnected
<1>4. ~DeviceTakesRequest /\ ~DeviceTakesAck
  BY DEF Pristine, DeviceTakesRequest, DeviceTakesAck
<1>5. QED
  BY <1>1, <1>2, <1>3, <1>4

LEMMA PhaseEnvironment == ASSUME TypeInv, Phases, Environment PROVE Phases'
<1>1. UNCHANGED <<session, sendMtx, caller, reader, owner, history>> /\ used'.connects = used.connects
  BY DEF Environment, DeviceTakesRequest, DeviceTakesAck, DeviceNotifies, DeviceSends,
     LoseFrame, LinkBreaks, Fault, TypeInv, TypeOK, HistoryOK
<1>2. reader.pc = "none" => Pristine'
  <2> SUFFICES ASSUME reader.pc = "none", Pristine PROVE Pristine'
    BY DEF Phases
  <2> USE DEF TypeInv, TypeOK, WireOK
  <2>1. net.toHost \in Seq(Frame) /\ dev \in Headset
    BY DEF Headset, Message
  <2>2. CASE DeviceNotifies
    <3>1. dev' = Produce(dev, Notice, None) /\ UNCHANGED net
      BY <2>2 DEF DeviceNotifies
    <3> DEFINE m == [op |-> Notice, call |-> None, id |-> dev.made + 1]
    <3>2. dev'.queue = Append(dev.queue, m) /\ dev'.last = dev.last /\ m.op = Notice
      BY <2>1, <3>1 DEF Produce, Headset
    <3> HIDE DEF m
    <3>3. \A i \in DOMAIN dev'.queue : dev'.queue[i] = m \/ (i \in DOMAIN dev.queue /\ dev'.queue[i] = dev.queue[i])
      BY <2>1, <3>2 DEF Headset
    <3>4. QED
      BY <1>1, <3>1, <3>2, <3>3, SMTT(20) DEF Pristine, history
  <2>3. CASE DeviceSends
    <3> DEFINE f == [type |-> "data", seq |-> dev.bit, op |-> Head(dev.queue).op,
                     call |-> Head(dev.queue).call, id |-> Head(dev.queue).id]
    <3>1. net' = [net EXCEPT !.toHost = Append(@, f)] /\ dev' = [dev EXCEPT !.sent = TRUE]
      BY <2>3 DEF DeviceSends
    <3>2. f.type = "data"
      OBVIOUS
    <3> HIDE DEF f
    <3>3. \A i \in DOMAIN net'.toHost : net'.toHost[i] = f \/ (i \in DOMAIN net.toHost /\ net'.toHost[i] = net.toHost[i])
      BY <2>1, <3>1
    <3>4. dev'.last = dev.last /\ dev'.queue = dev.queue /\ net'.toDev = net.toDev
      BY <2>1, <3>1 DEF Headset
    <3> HIDE DEF TypeInv, TypeOK, WireOK
    <3>5. \A i \in DOMAIN net'.toHost : net'.toHost[i].type = "data"
      BY <3>2, <3>3 DEF Pristine
    <3>6. QED
      BY <1>1, <3>4, <3>5 DEF Pristine, history
  <2>4. CASE LoseFrame \/ LinkBreaks
    <3>1. UNCHANGED dev /\ net'.toDev = <<>>
      BY <2>4 DEF LoseFrame, LinkBreaks, Pristine
    <3>2. net'.toHost = net.toHost \/ (net.toHost # <<>> /\ net'.toHost = Tail(net.toHost))
      BY <2>4 DEF LoseFrame, LinkBreaks
    <3>3. \A i \in DOMAIN net'.toHost : \E j \in DOMAIN net.toHost : net'.toHost[i] = net.toHost[j]
      <4>1. CASE net'.toHost = net.toHost
        BY <4>1
      <4>2. CASE net.toHost # <<>> /\ net'.toHost = Tail(net.toHost)
        <5>1. \A i \in DOMAIN Tail(net.toHost) : i + 1 \in DOMAIN net.toHost /\ Tail(net.toHost)[i] = net.toHost[i + 1]
          BY <2>1, <4>2
        <5>2. QED
          BY <4>2, <5>1
      <4>3. QED
        BY <3>2, <4>1, <4>2
    <3>4. QED
      BY <1>1, <3>1, <3>3 DEF Pristine, history
  <2>5. QED
    BY <2>2, <2>3, <2>4, NoReader DEF Environment
<1>3. QED
  BY <1>1, <1>2 DEF Phases, Joined

LEMMA PhaseOwner == ASSUME TypeInv, Phases, Owner, Once' PROVE Phases'
<1> USE DEF TypeInv, TypeOK, HistoryOK
<1>1. CASE Connect
  <2>1. used.connects = 0 /\ used'.connects = 1
    BY <1>1 DEF Connect, Once
  <2>2. reader.pc = "none" /\ Pristine
    BY <2>1 DEF Phases
  <2>3. owner' = [pc |-> "open", reopen |-> FALSE]
    BY <1>1, <2>2 DEF Connect, Pristine
  <2>4. UNCHANGED <<session, sendMtx, caller, reader, net, dev, history>>
    BY <1>1 DEF Connect
  <2>5. Pristine'
    BY <2>2, <2>4 DEF Pristine, history
  <2>6. QED
    BY <2>1, <2>2, <2>3, <2>4, <2>5 DEF Phases, Opening, Pristine
<1>2. CASE BeginDisconnect
  <2>1. owner' = [owner EXCEPT !.pc = "stop"] /\ session' = [session EXCEPT !.running = FALSE]
    BY <1>2 DEF BeginDisconnect
  <2>2. used'.connects = used.connects
    BY <1>2 DEF BeginDisconnect
  <2>3. UNCHANGED <<sendMtx, caller, reader, dev, history>> /\ net'.toDev = net.toDev /\ net'.toHost = net.toHost
    BY <1>2 DEF BeginDisconnect, WireOK
  <2>4. reader.pc = "none" => Pristine'
    BY <2>1, <2>3 DEF Pristine, Phases, history, SessionOK
  <2>5. QED
    BY <2>1, <2>2, <2>3, <2>4 DEF Phases, Opening, Joined, ThreadsOK, SessionOK
<1>3. CASE StopReader \/ JoinReader \/ ConnectFails
  <2>1. UNCHANGED <<session, sendMtx, reader, dev, used, history>> /\ net'.toDev = net.toDev /\ net'.toHost = net.toHost
    BY <1>3 DEF StopReader, JoinReader, ConnectFails, WireOK
  <2>2. \E from, to \in OwnerPcs \ {"disconnect", "start", "spawn"} :
          OwnerAt(from, to) /\ (to = "clear" => Joined) /\ from # "idle" /\ (from # "open" => to # "open") /\ to # "open"
    BY <1>3 DEF StopReader, JoinReader, ConnectFails, OwnerPcs
  <2>3. caller' = caller \/ caller' = Woken(Callers)
    BY <1>3 DEF StopReader, JoinReader, ConnectFails, NotifyAll
  <2>4. reader.pc = "none" => Pristine'
    BY <2>1, <2>3 DEF Pristine, Phases, history, Woken
  <2>5. QED
    BY <2>1, <2>2, <2>4 DEF Phases, Opening, Joined, ThreadsOK, OwnerAt, OwnerPcs
<1>4. CASE ClearSession
  <2>1. owner.pc = "clear" /\ owner' = [pc |-> "idle", reopen |-> FALSE]
    BY <1>4 DEF ClearSession, Phases
  <2>2. UNCHANGED <<sendMtx, reader, net, dev, used, history>> /\ caller' = Woken(Callers)
    BY <1>4 DEF ClearSession, NotifyAll
  <2>3. session' = [running |-> session.running, sequence |-> 0, hasAck |-> None,
                 pending |-> None, unmatched |-> <<>>, lastSeen |-> None]
    BY <1>4 DEF ClearSession
  <2>4. reader.pc = "none" => Pristine'
    BY <2>2, <2>3 DEF Pristine, Phases, history, Woken
  <2>5. QED
    BY <2>1, <2>2, <2>3, <2>4 DEF Phases, Opening, Joined
<1>5. CASE OpenTransport
  <2>1. reader.pc = "none" /\ Pristine /\ owner.pc = "open" /\ owner' = [owner EXCEPT !.pc = "start"]
    BY <1>5 DEF OpenTransport, OwnerAt, Phases, Opening
  <2>2. UNCHANGED <<session, sendMtx, caller, reader, used, outcome>>
    BY <1>5 DEF OpenTransport
  <2>3. Pristine'
    BY <1>5, <2>1, <2>2 DEF Pristine, OpenTransport, FreshDevice
  <2>4. QED
    BY <2>1, <2>2, <2>3 DEF Phases, Opening, Joined, ThreadsOK
<1>6. CASE Start
  <2>1. reader.pc = "none" /\ Pristine /\ owner.pc = "start"
    BY <1>6 DEF Start, OwnerAt, Phases, Opening
  <2>2. owner' = [owner EXCEPT !.pc = "idle"] \/ owner' = [owner EXCEPT !.pc = "spawn"]
    BY <1>6 DEF Start, OwnerAt
  <2>3. UNCHANGED <<sendMtx, reader, net, dev, used, history>>
    BY <1>6 DEF Start
  <2>4. caller' = caller \/ caller' = Woken(Callers)
    BY <1>6 DEF Start, NotifyAll
  <2>5. session' = session \/ session' = [session EXCEPT !.hasAck = None, !.pending = None, !.unmatched = <<>>, !.lastSeen = None]
    BY <1>6 DEF Start
  <2>6. Pristine' /\ session'.running = session.running
    BY <2>1, <2>3, <2>4, <2>5 DEF Pristine, history, Woken, SessionOK
  <2>7. QED
    BY <2>1, <2>2, <2>3, <2>6 DEF Phases, Opening, Joined, ThreadsOK
<1>7. CASE SpawnReader
  <2>1. owner.pc = "spawn" /\ owner' = [owner EXCEPT !.pc = "idle"]
    BY <1>7 DEF SpawnReader, OwnerAt
  <2>2. reader' = [pc |-> "receive", batch |-> <<>>] /\ UNCHANGED used
    BY <1>7 DEF SpawnReader
  <2>3. QED
    BY <2>1, <2>2 DEF Phases, Opening, Joined, ThreadsOK, Busy
<1>8. QED
  BY <1>1, <1>2, <1>3, <1>4, <1>5, <1>6, <1>7 DEF Owner

LEMMA ReaderPhase ==
  ASSUME TypeInv, Phases, Reader
  PROVE  /\ reader.pc # "none" /\ reader'.pc # "none"
         /\ reader'.pc \notin Busy => reader'.batch = <<>>
         /\ reader.pc # "done"
         /\ session'.running => session.running
         /\ UNCHANGED owner /\ used'.connects = used.connects
<1> USE DEF TypeInv, TypeOK, ThreadsOK, HistoryOK, SessionOK
<1>1. reader.pc # "none"
  BY NoReader DEF Phases
<1>2. reader.pc # "done" /\ UNCHANGED owner /\ used'.connects = used.connects
  BY DEF Reader, Receive, StopReceiving, HandleAck, AckData, DropDuplicate, RememberSequence,
     MatchRequest, KeepUnmatched, Dispatch, ReaderStops, ReaderNotifies, ReaderAt, Fault
<1>3. CASE Receive \/ StopReceiving \/ AckData \/ RememberSequence \/ KeepUnmatched
           \/ ReaderStops \/ ReaderNotifies
  <2>1. reader'.pc \notin Busy => reader.pc \notin Busy /\ reader'.batch = reader.batch
    BY <1>3 DEF Receive, StopReceiving, AckData, RememberSequence, KeepUnmatched, ReaderStops,
       ReaderNotifies, ReaderAt, Busy
  <2>2. reader'.pc # "none"
    BY <1>3 DEF Receive, StopReceiving, AckData, RememberSequence, KeepUnmatched, ReaderStops,
       ReaderNotifies, ReaderAt
  <2>3. session'.running => session.running
    BY <1>3 DEF Receive, StopReceiving, AckData, RememberSequence, KeepUnmatched, ReaderStops,
       ReaderNotifies
  <2>4. QED
    BY <1>1, <1>2, <2>1, <2>2, <2>3 DEF Phases
<1>4. CASE HandleAck \/ DropDuplicate \/ MatchRequest \/ Dispatch
  <2>1. NextFrame /\ reader.pc \in Busy
    BY <1>4 DEF HandleAck, DropDuplicate, MatchRequest, Dispatch, Busy
  <2>2. reader.batch \in Seq(Frame) /\ reader.batch # <<>>
    BY <2>1 DEF HandsFull
  <2>3. Len(reader.batch) <= 1 => Tail(reader.batch) = <<>>
    BY <2>2
  <2>4. reader'.pc # "none" /\ (reader'.pc \notin Busy => reader'.batch = <<>>)
    BY <2>1, <2>2, <2>3 DEF NextFrame, Busy
  <2>5. session'.running = session.running
    BY <1>4 DEF HandleAck, DropDuplicate, MatchRequest, Dispatch
  <2>6. QED
    BY <1>1, <1>2, <2>4, <2>5
<1>5. QED
  BY <1>3, <1>4 DEF Reader

LEMMA PhaseCallers ==
  ASSUME TypeInv, Phases, NEW c \in Callers,
         CallStep(c) \/ TimeOut(c) \/ \E o \in Opcodes \cup {None} : Call(c, o)
  PROVE  /\ Phases' /\ UNCHANGED <<reader, owner, dev, passed>>
         /\ reader.pc # "none" /\ used'.connects = used.connects
         /\ (session'.running => session.running) /\ session'.lastSeen = session.lastSeen
<1> USE DEF TypeInv, TypeOK, HistoryOK, SessionOK
<1>1. UNCHANGED <<reader, owner, dev, passed>> /\ used'.connects = used.connects
  BY DEF CallStep, TimeOut, Call, Lock, LoadSequence, StoreSequence, FetchSequence, Arm, Ends,
     WriteRequest, WriteTimesOut, WriteFails, Finish, FindNotReady, Park, Conclude, Fault, history
<1>2. reader.pc # "none"
  BY NoReader DEF Phases
<1>3. (session'.running => session.running) /\ session'.lastSeen = session.lastSeen
  <2>1. CASE Conclude(c)
    BY <2>1 DEF Conclude
  <2>2. CASE Arm(c)
    BY <2>2 DEF Arm
  <2>3. CASE WriteTimesOut(c)
    BY <2>3 DEF WriteTimesOut
  <2>4. CASE WriteFails(c)
    BY <2>4 DEF WriteFails
  <2>5. CASE StoreSequence(c) \/ FetchSequence(c)
    BY <2>5 DEF StoreSequence, FetchSequence
  <2>6. CASE \/ Lock(c) \/ LoadSequence(c) \/ WriteRequest(c) \/ FindNotReady(c) \/ Park(c)
             \/ \E o \in Opcodes \cup {None} : Call(c, o)
    <3>1. session' = session
      BY <2>6 DEF Lock, LoadSequence, WriteRequest, FindNotReady, Park, Call
    <3>2. QED
      BY <3>1
  <2>7. QED
    BY <2>1, <2>2, <2>3, <2>4, <2>5, <2>6 DEF CallStep, TimeOut, Finish
<1>4. QED
  BY <1>1, <1>2, <1>3 DEF Phases, Joined

LEMMA PhaseNext == ASSUME TypeInv, PhaseInv, Next, Once' PROVE Phases /\ Phases'
<1>1. Phases
  BY OnceBefore DEF PhaseInv
<1>2. CASE Reader
  BY <1>1, <1>2, ReaderPhase DEF Phases, Joined, Opening
<1>3. QED
  BY <1>1, <1>2, PhaseOwner, PhaseEnvironment, PhaseCallers DEF Next

(* Sequences that only lose elements, or gain one at the end. *)
Thinned(t, s) ==
  \E e \in [DOMAIN t -> DOMAIN s] :
    \A i \in DOMAIN t : t[i] = s[e[i]] /\ \A j \in DOMAIN t : i < j => e[i] < e[j]

Grown(t, s, f) ==
  /\ DOMAIN s \subseteq DOMAIN t
  /\ \A i \in DOMAIN s : t[i] = s[i]
  /\ \E n \in DOMAIN t : t[n] = f /\ DOMAIN t = DOMAIN s \cup {n} /\ \A i \in DOMAIN s : i < n

LEMMA ThinSelf == ASSUME NEW S, NEW s \in Seq(S) PROVE Thinned(s, s)
<1> DEFINE e == [i \in DOMAIN s |-> i]
<1>1. e \in [DOMAIN s -> DOMAIN s] /\ \A i \in DOMAIN s : e[i] = i
  OBVIOUS
<1> HIDE DEF e
<1>2. QED
  BY <1>1 DEF Thinned

LEMMA ThinShift ==
  ASSUME NEW S, NEW s \in Seq(S), NEW t \in Seq(S),
         \A i \in DOMAIN t : i + 1 \in DOMAIN s /\ t[i] = s[i + 1]
  PROVE  Thinned(t, s)
<1> DEFINE e == [i \in DOMAIN t |-> i + 1]
<1>1. e \in [DOMAIN t -> DOMAIN s] /\ (\A i \in DOMAIN t : e[i] = i + 1) /\ DOMAIN t = 1 .. Len(t)
  OBVIOUS
<1> HIDE DEF e
<1>2. QED
  BY <1>1, SMTT(20) DEF Thinned

LEMMA ThinTail == ASSUME NEW S, NEW s \in Seq(S), s # <<>> PROVE Thinned(Tail(s), s)
<1>1. Tail(s) \in Seq(S) /\ \A i \in DOMAIN Tail(s) : i + 1 \in DOMAIN s /\ Tail(s)[i] = s[i + 1]
  OBVIOUS
<1>2. QED
  BY <1>1, ThinShift

LEMMA GrowAppend == ASSUME NEW S, NEW s \in Seq(S), NEW f \in S PROVE Grown(Append(s, f), s, f)
<1>1. /\ DOMAIN s = 1 .. Len(s) /\ Len(s) \in Nat /\ DOMAIN Append(s, f) = 1 .. Len(s) + 1
      /\ Append(s, f)[Len(s) + 1] = f /\ \A i \in DOMAIN s : Append(s, f)[i] = s[i]
  OBVIOUS
<1>2. QED
  BY <1>1 DEF Grown

LEMMA Spliced ==
  ASSUME NEW S, NEW s \in Seq(S), NEW t \in Seq(S)
  PROVE  /\ s \o t \in Seq(S) /\ Len(s) \in Nat /\ Len(t) \in Nat
         /\ DOMAIN (s \o t) = 1 .. Len(s) + Len(t)
         /\ \A i \in 1 .. Len(s) : (s \o t)[i] = s[i]
         /\ \A i \in 1 .. Len(t) : (s \o t)[Len(s) + i] = t[i]
         /\ \A i \in 1 .. Len(s) + Len(t) : i <= Len(s) \/ i - Len(s) \in 1 .. Len(t)
OBVIOUS

-----------------------------------------------------------------------------
(* What the headset has sent and the reader has not finished with. *)

Inbound == reader.batch \o net.toHost
Data(s) == {i \in DOMAIN s : s[i].type = "data"}
Acks(s) == {i \in DOMAIN s : s[i].type = "ack"}

LEMMA Channels ==
  ASSUME TypeInv
  PROVE  /\ net.toDev \in Seq(Frame) /\ net.toHost \in Seq(Frame) /\ reader.batch \in Seq(Frame)
         /\ Inbound \in Seq(Frame)
         /\ reader.pc \in Busy => 1 \in DOMAIN Inbound /\ Inbound[1] = Current /\ Current \in Frame
<1>1. net.toDev \in Seq(Frame) /\ net.toHost \in Seq(Frame) /\ reader.batch \in Seq(Frame)
  BY DEF TypeInv, TypeOK, WireOK, ThreadsOK
<1> DEFINE b == reader.batch
           t == net.toHost
<1>2. b \in Seq(Frame) /\ t \in Seq(Frame) /\ Inbound = b \o t
  BY <1>1 DEF Inbound
<1>3. reader.pc \in Busy => b # <<>> /\ Current = Head(b) /\ Current \in Frame
  BY CurrentType DEF TypeInv, HandsFull, Current
<1> HIDE DEF b, t
<1>4. b # <<>> => Head(b) = b[1] /\ 1 \in 1 .. Len(b)
  BY <1>2
<1>5. Inbound \in Seq(Frame) /\ (1 \in 1 .. Len(b) => 1 \in DOMAIN Inbound /\ Inbound[1] = b[1])
  BY <1>2, Spliced
<1>6. QED
  BY <1>1, <1>3, <1>4, <1>5

\* The reader takes over what has arrived.
LEMMA InboundReceive ==
  ASSUME TypeInv, TypeInv', Phases, Receive PROVE Thinned(Inbound', Inbound)
<1>1. PICK n \in 1 .. Len(net.toHost) :
        /\ reader' = [pc |-> "frame", batch |-> SubSeq(net.toHost, 1, n)]
        /\ net' = [net EXCEPT !.toHost = SubSeq(@, n + 1, Len(@))]
  BY DEF Receive
<1> DEFINE t == net.toHost
<1>2. reader.batch = <<>> /\ t \in Seq(Frame) /\ Inbound \in Seq(Frame)
  BY Channels DEF Phases, Busy, Receive
<1>3. Len(t) \in Nat /\ n \in Nat /\ n <= Len(t)
  BY <1>2
<1>4. /\ SubSeq(t, 1, n) \in Seq(Frame) /\ Len(SubSeq(t, 1, n)) = n
      /\ \A i \in 1 .. n : SubSeq(t, 1, n)[i] = t[i]
  BY <1>2, <1>3
<1>5. /\ SubSeq(t, n + 1, Len(t)) \in Seq(Frame) /\ Len(SubSeq(t, n + 1, Len(t))) = Len(t) - n
      /\ \A i \in 1 .. Len(t) - n : SubSeq(t, n + 1, Len(t))[i] = t[n + i]
  BY <1>2, <1>3
<1>6. Inbound' = SubSeq(t, 1, n) \o SubSeq(t, n + 1, Len(t))
  BY <1>1 DEF Inbound, TypeInv, TypeOK, WireOK
<1>7. DOMAIN Inbound' = 1 .. Len(t) /\ \A i \in 1 .. Len(t) : Inbound'[i] = t[i]
  <2> DEFINE a == SubSeq(t, 1, n)
             b == SubSeq(t, n + 1, Len(t))
  <2>1. a \in Seq(Frame) /\ b \in Seq(Frame) /\ Len(a) = n /\ Len(b) = Len(t) - n
    BY <1>4, <1>5
  <2>2. /\ \A i \in 1 .. n : a[i] = t[i]
        /\ \A i \in 1 .. Len(t) - n : b[i] = t[n + i]
    BY <1>4, <1>5
  <2> HIDE DEF a, b
  <2>3. /\ DOMAIN (a \o b) = 1 .. Len(a) + Len(b)
        /\ \A i \in 1 .. Len(a) : (a \o b)[i] = a[i]
        /\ \A i \in 1 .. Len(b) : (a \o b)[Len(a) + i] = b[i]
    BY <2>1, SMTT(20)
  <2>4. DOMAIN (a \o b) = 1 .. Len(t)
    BY <1>3, <2>1, <2>3
  <2>5. ASSUME NEW i \in 1 .. Len(t) PROVE (a \o b)[i] = t[i]
    <3>1. CASE i <= n
      BY <1>3, <2>1, <2>2, <2>3, <3>1
    <3>2. CASE i > n
      <4>1. i - n \in 1 .. Len(t) - n /\ n + (i - n) = i
        BY <1>3, <3>2
      <4>2. (a \o b)[n + (i - n)] = b[i - n] /\ b[i - n] = t[n + (i - n)]
        BY <2>1, <2>2, <2>3, <4>1
      <4>3. QED
        BY <4>1, <4>2
    <3>3. i <= n \/ i > n
      BY <1>3
    <3>4. QED
      BY <3>1, <3>2, <3>3, Zenon
  <2>6. QED
    BY <1>6, <2>4, <2>5 DEF a, b
<1>8. DOMAIN Inbound = 1 .. Len(t) /\ \A i \in 1 .. Len(t) : Inbound[i] = t[i]
  <2>1. <<>> \in Seq(Frame) /\ Len(<<>>) = 0
    OBVIOUS
  <2>2. QED
    BY <1>2, <1>3, <2>1, Spliced DEF Inbound
<1>9. \A i \in DOMAIN Inbound' : i \in DOMAIN Inbound /\ Inbound'[i] = Inbound[i]
  BY <1>7, <1>8
<1> DEFINE e == [i \in DOMAIN Inbound' |-> i]
<1>10. e \in [DOMAIN Inbound' -> DOMAIN Inbound] /\ \A i \in DOMAIN Inbound' : e[i] = i
  BY <1>9
<1> HIDE DEF e
<1>11. QED
  BY <1>9, <1>10 DEF Thinned

\* The reader is done with a frame.
LEMMA InboundNext ==
  ASSUME TypeInv, TypeInv', reader.pc \in Busy, NextFrame, UNCHANGED net
  PROVE  /\ \A i \in DOMAIN Inbound' : i + 1 \in DOMAIN Inbound /\ Inbound'[i] = Inbound[i + 1]
         /\ Thinned(Inbound', Inbound)
<1> DEFINE b == reader.batch
           t == net.toHost
<1>1. b \in Seq(Frame) /\ t \in Seq(Frame) /\ b # <<>> /\ Inbound \in Seq(Frame)
  BY Channels DEF TypeInv, HandsFull
<1>2. Inbound' = Tail(b) \o t /\ Inbound = b \o t
  BY DEF Inbound, NextFrame
<1>3. /\ Tail(b) \in Seq(Frame) /\ Len(Tail(b)) = Len(b) - 1 /\ Len(b) \in Nat \ {0}
      /\ \A i \in 1 .. Len(b) - 1 : Tail(b)[i] = b[i + 1]
  BY <1>1
<1> HIDE DEF b, t
<1>4. ASSUME NEW i \in DOMAIN Inbound' PROVE i + 1 \in DOMAIN Inbound /\ Inbound'[i] = Inbound[i + 1]
  <2>1. i \in 1 .. (Len(b) - 1) + Len(t) /\ Len(t) \in Nat
    BY <1>1, <1>2, <1>3, Spliced
  <2>2. i + 1 \in 1 .. Len(b) + Len(t) /\ DOMAIN Inbound = 1 .. Len(b) + Len(t)
    BY <1>1, <1>2, <1>3, <2>1, Spliced
  <2>3. CASE i <= Len(b) - 1
    <3>1. i \in 1 .. Len(b) - 1 /\ i + 1 \in 1 .. Len(b)
      BY <1>3, <2>1, <2>3
    <3>2. Inbound'[i] = Tail(b)[i] /\ Inbound[i + 1] = b[i + 1]
      BY <1>1, <1>2, <1>3, <3>1, Spliced
    <3>3. QED
      BY <1>3, <2>2, <3>1, <3>2
  <2>4. CASE i > Len(b) - 1
    <3>1. i - (Len(b) - 1) \in 1 .. Len(t) /\ (Len(b) - 1) + (i - (Len(b) - 1)) = i
          /\ Len(b) + (i - (Len(b) - 1)) = i + 1
      BY <1>3, <2>1, <2>4
    <3>2. Inbound'[i] = t[i - (Len(b) - 1)]
      BY <1>1, <1>2, <1>3, <3>1, Spliced
    <3>3. Inbound[i + 1] = t[i - (Len(b) - 1)]
      BY <1>1, <1>2, <1>3, <3>1, Spliced, SMTT(20)
    <3>4. QED
      BY <2>2, <3>2, <3>3
  <2>5. QED
    BY <1>3, <2>1, <2>3, <2>4
<1>5. Inbound' \in Seq(Frame)
  BY <1>1, <1>2, <1>3, Spliced
<1>6. Thinned(Inbound', Inbound)
  BY <1>1, <1>4, <1>5, ThinShift
<1>7. QED
  BY <1>4, <1>6

\* A frame arrives behind the others.
LEMMA InboundGrows ==
  ASSUME TypeInv, TypeInv', reader' = reader, NEW f \in Frame, net'.toHost = Append(net.toHost, f)
  PROVE  Grown(Inbound', Inbound, f)
<1> DEFINE b == reader.batch
           t == net.toHost
<1>1. b \in Seq(Frame) /\ t \in Seq(Frame) /\ Inbound = b \o t /\ Inbound' = b \o Append(t, f)
  BY Channels DEF Inbound
<1>2. /\ Append(t, f) \in Seq(Frame) /\ Len(Append(t, f)) = Len(t) + 1 /\ Append(t, f)[Len(t) + 1] = f
      /\ \A i \in 1 .. Len(t) : Append(t, f)[i] = t[i]
  BY <1>1
<1>3. Len(b) \in Nat /\ Len(t) \in Nat
  BY <1>1
<1> HIDE DEF b, t
<1>4. /\ DOMAIN Inbound = 1 .. Len(b) + Len(t)
      /\ DOMAIN Inbound' = 1 .. Len(b) + (Len(t) + 1)
  BY <1>1, <1>2, Spliced
<1>5. ASSUME NEW i \in DOMAIN Inbound PROVE Inbound'[i] = Inbound[i]
  <2>1. CASE i <= Len(b)
    <3>1. i \in 1 .. Len(b)
      BY <1>3, <1>4, <2>1
    <3>2. QED
      BY <1>1, <1>2, <3>1, Spliced
  <2>2. CASE i > Len(b)
    <3>1. i - Len(b) \in 1 .. Len(t) /\ i - Len(b) \in 1 .. Len(t) + 1 /\ Len(b) + (i - Len(b)) = i
      BY <1>3, <1>4, <2>2
    <3>2. Inbound'[i] = Append(t, f)[i - Len(b)]
      BY <1>1, <1>2, <3>1, Spliced
    <3>3. Inbound[i] = t[i - Len(b)]
      BY <1>1, <3>1, Spliced
    <3>4. QED
      BY <1>2, <3>1, <3>2, <3>3
  <2>3. QED
    BY <1>3, <1>4, <2>1, <2>2
<1>6. Inbound'[Len(b) + (Len(t) + 1)] = f
  <2>1. Len(t) + 1 \in 1 .. Len(Append(t, f))
    BY <1>2, <1>3
  <2>2. QED
    BY <1>1, <1>2, <2>1, Spliced
<1> DEFINE n == Len(b) + (Len(t) + 1)
<1>7. /\ n \in DOMAIN Inbound' /\ DOMAIN Inbound' = DOMAIN Inbound \cup {n}
      /\ \A i \in DOMAIN Inbound : i < n
  BY <1>3, <1>4
<1>8. Inbound'[n] = f /\ DOMAIN Inbound \subseteq DOMAIN Inbound'
  BY <1>6, <1>7
<1> HIDE DEF n
<1>9. QED
  BY <1>5, <1>7, <1>8 DEF Grown

\* A frame is lost before the reader receives it.
LEMMA InboundLoses ==
  ASSUME TypeInv, TypeInv', reader' = reader, net.toHost # <<>>, net'.toHost = Tail(net.toHost)
  PROVE  Thinned(Inbound', Inbound)
<1> DEFINE b == reader.batch
           t == net.toHost
           e == [i \in DOMAIN Inbound' |-> IF i <= Len(b) THEN i ELSE i + 1]
<1>1. b \in Seq(Frame) /\ t \in Seq(Frame) /\ Inbound = b \o t /\ Inbound' = b \o Tail(t)
  BY Channels DEF Inbound
<1>2. /\ Tail(t) \in Seq(Frame) /\ Len(Tail(t)) = Len(t) - 1 /\ Len(t) \in Nat \ {0}
      /\ \A i \in 1 .. Len(t) - 1 : Tail(t)[i] = t[i + 1]
  BY <1>1
<1>3. Len(b) \in Nat
  BY <1>1
<1> HIDE DEF b, t
<1>4. /\ DOMAIN Inbound = 1 .. Len(b) + Len(t)
      /\ DOMAIN Inbound' = 1 .. Len(b) + (Len(t) - 1)
  BY <1>1, <1>2, Spliced
<1>5. ASSUME NEW i \in DOMAIN Inbound'
      PROVE  e[i] \in DOMAIN Inbound /\ Inbound'[i] = Inbound[e[i]]
  <2>1. CASE i <= Len(b)
    <3>1. i \in 1 .. Len(b) /\ e[i] = i /\ i \in DOMAIN Inbound
      BY <1>2, <1>3, <1>4, <2>1
    <3>2. QED
      BY <1>1, <1>2, <3>1, Spliced
  <2>2. CASE i > Len(b)
    <3>1. /\ i - Len(b) \in 1 .. Len(t) - 1 /\ Len(b) + (i - Len(b)) = i
          /\ (i - Len(b)) + 1 \in 1 .. Len(t) /\ Len(b) + ((i - Len(b)) + 1) = i + 1
          /\ ~(i <= Len(b)) /\ i + 1 \in DOMAIN Inbound
      BY <1>2, <1>3, <1>4, <2>2
    <3>2. Inbound'[i] = Tail(t)[i - Len(b)]
      BY <1>1, <1>2, <3>1, Spliced
    <3>3. Inbound[i + 1] = t[(i - Len(b)) + 1]
      BY <1>1, <3>1, Spliced, SMTT(20)
    <3>4. e[i] = i + 1
      BY <3>1
    <3>5. QED
      BY <1>2, <3>1, <3>2, <3>3, <3>4
  <2>3. QED
    BY <1>3, <1>4, <2>1, <2>2
<1>6. \A i, j \in DOMAIN Inbound' : i < j => e[i] < e[j]
  BY <1>3, <1>4
<1>7. e \in [DOMAIN Inbound' -> DOMAIN Inbound]
  BY <1>5
<1> HIDE DEF e
<1>8. QED
  BY <1>5, <1>6, <1>7 DEF Thinned

-----------------------------------------------------------------------------
(* The headset's frames: how many it has seen ACKed, which are on their way,
   which the reader found new, and the bit each carries. *)

\* The bit of the headset's i-th frame.
Bit(i) == (i + 1) % 2

\* The frames the reader has found new, and those it is about to.
Accepted == Len(passed) + IF reader.pc \in {"fresh", "dispatch"} THEN 1 ELSE 0
Received == Accepted + IF reader.pc = "acked" /\ ~IsDuplicate(Current) THEN 1 ELSE 0

\* The ACK that moves the headset on to its next frame.
Good(a) == a.seq = 1 - dev.bit

Counts ==
  /\ Confirmed \in Nat /\ dev.bit = Bit(Confirmed + 1)
  /\ \A j \in DOMAIN dev.queue : dev.queue[j].id = Confirmed + j
  /\ \A i \in DOMAIN passed : passed[i].id = i
  /\ Confirmed <= Received
  /\ Received <= Confirmed + IF dev.sent THEN 1 ELSE 0
HandOK ==
  /\ reader.pc \notin {"none", "done"} =>
       session.lastSeen = IF Accepted = 0 THEN None ELSE Bit(Accepted)
  /\ reader.pc \in {"acked", "fresh", "dispatch"} =>
       Current.type = "data" /\ Current.id = Received
FrameOK(f) ==
  /\ f.id \in Nat \ {0} /\ Received <= f.id /\ f.seq = Bit(f.id)
  /\ f.id <= Confirmed + IF dev.sent THEN 1 ELSE 0
  /\ f.id = Confirmed + 1 => f.op = Head(dev.queue).op /\ f.call = Head(dev.queue).call
Follows(g, f) == f.id <= g.id /\ (f.id = g.id => f.op = g.op)
Frames ==
  /\ \A i \in Data(Inbound) : FrameOK(Inbound[i])
  /\ \A i, j \in Data(Inbound) : i < j => Follows(Inbound[j], Inbound[i])
Echoes ==
  \A i \in Acks(net.toDev) : Good(net.toDev[i]) =>
     /\ Received = Confirmed + 1
     /\ \A j \in Acks(net.toDev) : i < j => Good(net.toDev[j])
BitOK == Counts /\ HandOK /\ Frames /\ Echoes
BitInv == Once => BitOK

LEMMA Bits == \A i \in Nat : /\ Bit(i) \in {0, 1} /\ Bit(i + 1) = 1 - Bit(i)
                             /\ Bit(i) % 2 = Bit(i) /\ Bit(i) \in Nat
BY DEF Bit

LEMMA CountTypes ==
  ASSUME TypeInv
  PROVE  /\ Accepted \in Nat /\ Received \in Nat /\ Len(passed) \in Nat
         /\ dev \in Headset /\ dev.bit \in {0, 1} /\ dev.queue \in Seq(Message)
<1>1. Len(passed) \in Nat
  BY DEF TypeInv, TypeOK, HistoryOK
<1>2. Accepted \in Nat
  BY <1>1 DEF Accepted
<1>3. Received \in Nat
  BY <1>2 DEF Received
<1>4. dev \in Headset
  BY DEF TypeInv, TypeOK, WireOK, Headset, Message
<1>5. QED
  BY <1>1, <1>2, <1>3, <1>4 DEF Headset

\* The frame in the reader's hands is the last one it took, or the next.
LEMMA Verdict ==
  ASSUME TypeInv, BitOK, reader.pc = "frame", Current.type = "data"
  PROVE  /\ FrameOK(Current) /\ Current.id \in {Received, Received + 1}
         /\ Accepted = Received /\ Received = Len(passed)
         /\ IsDuplicate(Current) <=> Current.id = Received
         /\ Current.seq % 2 = Current.seq
<1>1. 1 \in Data(Inbound) /\ Inbound[1] = Current
  BY Channels DEF Busy, Data
<1>2. FrameOK(Current)
  BY <1>1 DEF BitOK, Frames
<1>3. Accepted = Received /\ Received = Len(passed) /\ Received \in Nat
  BY CountTypes DEF Accepted, Received
<1>4. Current.id \in {Received, Received + 1}
  BY <1>2, <1>3 DEF BitOK, Counts, FrameOK
<1>5. Current.seq = Bit(Current.id) /\ Current.seq \in Nat /\ Current.seq % 2 = Current.seq
  BY <1>2, Bits DEF FrameOK
<1>6. session.lastSeen = IF Received = 0 THEN None ELSE Bit(Received)
  BY <1>3 DEF BitOK, HandOK
<1>7. None \notin Nat
  BY SessionAssumption DEF SessionAssumption
<1>8. Current.id \in Nat \ {0} /\ (IsDuplicate(Current) <=> session.lastSeen = Bit(Current.id))
  BY <1>2, <1>5 DEF FrameOK, IsDuplicate
<1>9. CASE Current.id = Received
  <2>1. session.lastSeen = Bit(Received)
    BY <1>3, <1>6, <1>8, <1>9
  <2>2. QED
    BY <1>2, <1>3, <1>4, <1>5, <1>8, <1>9, <2>1
<1>10. CASE Current.id = Received + 1
  <2>1. Bit(Received + 1) = 1 - Bit(Received) /\ Bit(Received) \in {0, 1}
    BY <1>3, Bits
  <2>2. Bit(Received + 1) # Bit(Received) /\ Bit(Received + 1) \in Nat
    BY <2>1
  <2>3. session.lastSeen # Bit(Received + 1)
    BY <1>6, <1>7, <2>2
  <2>4. ~IsDuplicate(Current) /\ Current.id # Received
    <3>1. ~IsDuplicate(Current)
      BY <1>8, <1>10, <2>3
    <3>2. Current.id # Received
      BY <1>3, <1>10
    <3>3. QED
      BY <3>1, <3>2
  <2>5. QED
    BY <1>2, <1>3, <1>4, <1>5, <2>4
<1>11. QED
  BY <1>4, <1>9, <1>10

\* Fewer frames, and the same counts.
LEMMA FramesThin ==
  ASSUME Frames, Thinned(Inbound', Inbound), UNCHANGED dev, Received' = Received
  PROVE  Frames'
<1>1. PICK e \in [DOMAIN Inbound' -> DOMAIN Inbound] :
        \A i \in DOMAIN Inbound' : Inbound'[i] = Inbound[e[i]]
                                   /\ \A j \in DOMAIN Inbound' : i < j => e[i] < e[j]
  BY DEF Thinned
<1>2. \A i \in Data(Inbound') : e[i] \in Data(Inbound) /\ Inbound'[i] = Inbound[e[i]] /\ i \in DOMAIN Inbound'
  BY <1>1 DEF Data
<1>3. Confirmed' = Confirmed
  BY DEF Confirmed
<1>4. ASSUME NEW i \in Data(Inbound') PROVE FrameOK(Inbound[i])'
  BY <1>2, <1>3 DEF Frames, FrameOK
<1>5. ASSUME NEW i \in Data(Inbound'), NEW j \in Data(Inbound'), i < j PROVE Follows(Inbound[j], Inbound[i])'
  <2>1. e[i] < e[j]
    BY <1>1, <1>2, <1>5
  <2>2. QED
    BY <1>2, <2>1 DEF Frames, Follows
<1>6. QED
  BY <1>4, <1>5 DEF Frames

LEMMA EchoesThin ==
  ASSUME Echoes, Thinned(net'.toDev, net.toDev), UNCHANGED dev, Received' = Received
  PROVE  Echoes'
<1>1. PICK e \in [DOMAIN net'.toDev -> DOMAIN net.toDev] :
        \A i \in DOMAIN net'.toDev : net'.toDev[i] = net.toDev[e[i]]
                                   /\ \A j \in DOMAIN net'.toDev : i < j => e[i] < e[j]
  BY DEF Thinned
<1>2. \A i \in Acks(net'.toDev) : e[i] \in Acks(net.toDev) /\ net'.toDev[i] = net.toDev[e[i]] /\ i \in DOMAIN net'.toDev
  BY <1>1 DEF Acks
<1>3. Confirmed' = Confirmed
  BY DEF Confirmed
<1>4. ASSUME NEW i \in Acks(net'.toDev), (Good(net.toDev[i]))'
      PROVE  Received' = Confirmed' + 1 /\ \A j \in Acks(net'.toDev) : i < j => (Good(net.toDev[j]))'
  <2>1. Good(net.toDev[e[i]])
    BY <1>2, <1>4 DEF Good
  <2>2. ASSUME NEW j \in Acks(net'.toDev), i < j PROVE (Good(net.toDev[j]))'
    <3>1. e[i] < e[j]
      BY <1>1, <1>2, <2>2
    <3>2. Good(net.toDev[e[j]])
      BY <1>2, <2>1, <3>1 DEF Echoes
    <3>3. QED
      BY <1>2, <3>2 DEF Good
  <2>3. QED
    BY <1>2, <1>3, <2>1, <2>2 DEF Echoes
<1>5. QED
  BY <1>4 DEF Echoes

\* A request leaves the ACKs as they are.
LEMMA EchoesGrow ==
  ASSUME Echoes, NEW f, f.type # "ack", Grown(net'.toDev, net.toDev, f), UNCHANGED dev, Received' = Received
  PROVE  Echoes'
<1>1. \A i \in Acks(net'.toDev) : i \in Acks(net.toDev) /\ net'.toDev[i] = net.toDev[i]
  BY DEF Grown, Acks
<1>2. Confirmed' = Confirmed
  BY DEF Confirmed
<1>3. QED
  BY <1>1, <1>2 DEF Echoes, Good

-----------------------------------------------------------------------------
(* The steps that leave the frames' counts as they are, and the reader's. *)

\* Nothing is taken or produced: frames may be lost, and requests written.
LEMMA BitKept ==
  ASSUME TypeInv, BitOK, UNCHANGED <<dev, passed, reader>>, session'.lastSeen = session.lastSeen,
         Thinned(Inbound', Inbound),
         Thinned(net'.toDev, net.toDev) \/ \E f : f.type # "ack" /\ Grown(net'.toDev, net.toDev, f)
  PROVE  BitOK'
<1>1. Accepted' = Accepted /\ Current' = Current
  BY DEF Accepted, Current
<1>2. Received' = Received /\ Confirmed' = Confirmed
  BY <1>1 DEF Received, Confirmed, IsDuplicate
<1>3. Counts' /\ HandOK'
  BY <1>1, <1>2 DEF BitOK, Counts, HandOK
<1>4. Frames' /\ Echoes'
  BY <1>2, FramesThin, EchoesThin, EchoesGrow DEF BitOK
<1>5. QED
  BY <1>3, <1>4 DEF BitOK

\* The reader moves on, and takes nothing new.
LEMMA BitRead ==
  ASSUME TypeInv, BitOK, UNCHANGED dev, net'.toDev = net.toDev, Received' = Received,
         Thinned(Inbound', Inbound), HandOK',
         \A i \in DOMAIN passed' : passed'[i].id = i
  PROVE  BitOK'
<1>1. Confirmed' = Confirmed
  BY DEF Confirmed
<1>2. Counts'
  BY <1>1 DEF BitOK, Counts
<1>3. Thinned(net'.toDev, net.toDev)
  BY Channels, ThinSelf
<1>4. Frames' /\ Echoes'
  BY <1>3, FramesThin, EchoesThin DEF BitOK
<1>5. QED
  BY <1>2, <1>4 DEF BitOK

Routes == {"callbacks", "request"}
Pass(to) == passed' = Append(passed, [id |-> Len(passed) + 1, to |-> to])

\* The frames the reader is done with stay in order when the next is added.
LEMMA PassedInOrder ==
  ASSUME TypeInv, BitOK, reader.pc \in {"fresh", "dispatch"}, NEW to \in Routes, Passes(Current, to)
  PROVE  /\ \A i \in DOMAIN passed' : passed'[i].id = i
         /\ Len(passed') = Len(passed) + 1 /\ Accepted = Len(passed) + 1
         /\ Received = Accepted /\ Pass(to) /\ DOMAIN passed' = 1 .. Len(passed) + 1
         /\ passed'[Len(passed) + 1].to = to
         /\ \A i \in DOMAIN passed : i \in DOMAIN passed' /\ passed'[i] = passed[i]
<1>1. Accepted = Len(passed) + 1 /\ Received = Accepted /\ Len(passed) \in Nat
  BY CountTypes DEF Accepted, Received
<1>2. Current.id = Len(passed) + 1
  BY <1>1 DEF BitOK, HandOK
<1>3. Pass(to) /\ passed \in Seq([id : Nat, to : Routes])
  BY <1>2 DEF Passes, Pass, Routes, TypeInv, TypeOK, HistoryOK
<1> DEFINE p == [id |-> Len(passed) + 1, to |-> to]
<1>4. p.id = Len(passed) + 1 /\ p.to = to /\ p \in [id : Nat, to : Routes] /\ passed' = Append(passed, p)
  BY <1>1, <1>3 DEF Pass
<1> HIDE DEF p
<1>5. /\ DOMAIN passed' = 1 .. Len(passed) + 1 /\ Len(passed') = Len(passed) + 1
      /\ passed'[Len(passed) + 1] = p
      /\ \A i \in 1 .. Len(passed) : passed'[i] = passed[i] /\ i \in DOMAIN passed
      /\ DOMAIN passed = 1 .. Len(passed)
  BY <1>1, <1>3, <1>4
<1>6. ASSUME NEW i \in DOMAIN passed' PROVE passed'[i].id = i
  BY <1>1, <1>4, <1>5 DEF BitOK, Counts
<1>7. QED
  BY <1>1, <1>3, <1>4, <1>5, <1>6

LEMMA Advance ==
  ASSUME TypeInv, reader.pc \in Busy, NextFrame
  PROVE  reader'.pc \in {"frame", "receive", "exit"}
BY DEF NextFrame

\* The steps of the reader that leave both ends' counts as they are.
LEMMA BitMoves ==
  ASSUME TypeInv, TypeInv', Phases, BitOK,
         Receive \/ StopReceiving \/ ReaderStops \/ ReaderNotifies
  PROVE  BitOK'
<1>1. /\ UNCHANGED <<dev, passed>> /\ net'.toDev = net.toDev /\ session'.lastSeen = session.lastSeen
      /\ reader.pc \in {"receive", "exit", "bye"} /\ reader'.pc \in {"frame", "exit", "bye", "done"}
  BY DEF Receive, StopReceiving, ReaderStops, ReaderNotifies, ReaderAt, history, TypeInv, TypeOK, WireOK, ThreadsOK, SessionOK
<1>2. Thinned(Inbound', Inbound)
  <2>1. CASE Receive
    BY <2>1, InboundReceive
  <2>2. CASE StopReceiving \/ ReaderStops \/ ReaderNotifies
    <3>1. Inbound' = Inbound
      BY <2>2 DEF Inbound, StopReceiving, ReaderStops, ReaderNotifies, ReaderAt, TypeInv, TypeOK, ThreadsOK
    <3>2. QED
      BY <3>1, Channels, ThinSelf
  <2>3. QED
    BY <2>1, <2>2
<1>3. Accepted' = Accepted /\ Received' = Received
  BY <1>1 DEF Accepted, Received
<1>4. HandOK'
  BY <1>1, <1>3 DEF HandOK, BitOK
<1>5. QED
  BY <1>1, <1>2, <1>3, <1>4, BitRead DEF BitOK, Counts

LEMMA BitDone ==
  ASSUME TypeInv, TypeInv', BitOK, HandleAck \/ DropDuplicate \/ MatchRequest \/ Dispatch
  PROVE  BitOK'
<1>1. /\ reader.pc \in Busy /\ NextFrame /\ UNCHANGED <<dev, net>>
      /\ session'.lastSeen = session.lastSeen
  BY DEF HandleAck, DropDuplicate, MatchRequest, Dispatch, Busy, TypeInv, TypeOK, SessionOK
<1>2. reader'.pc \in {"frame", "receive", "exit"} /\ Thinned(Inbound', Inbound)
  BY <1>1, Advance, InboundNext
<1>3. Accepted' = Len(passed') /\ Received' = Len(passed')
  <2>1. Len(passed') \in Nat
    BY DEF TypeInv, TypeOK, HistoryOK
  <2>2. Accepted' = Len(passed')
    BY <1>2, <2>1 DEF Accepted
  <2>3. QED
    BY <1>2, <2>1, <2>2 DEF Received
<1>4. /\ Accepted' = Accepted /\ Received' = Received
      /\ \A i \in DOMAIN passed' : passed'[i].id = i
  <2>1. CASE HandleAck \/ DropDuplicate
    <3>1. UNCHANGED passed /\ (reader.pc = "frame" \/ (reader.pc = "acked" /\ IsDuplicate(Current)))
      BY <2>1 DEF HandleAck, DropDuplicate, history
    <3>2. Accepted = Len(passed)
      BY <3>1, CountTypes DEF Accepted
    <3>3. Received = Len(passed)
      BY <3>1, <3>2, CountTypes DEF Received
    <3>4. QED
      BY <1>3, <3>1, <3>2, <3>3 DEF BitOK, Counts
  <2>2. CASE MatchRequest \/ Dispatch
    <3>1. reader.pc \in {"fresh", "dispatch"} /\ \E to \in Routes : Passes(Current, to)
      BY <2>2 DEF MatchRequest, Dispatch, Routes
    <3>2. QED
      BY <1>3, <3>1, PassedInOrder
  <2>3. QED
    BY <2>1, <2>2
<1>5. HandOK'
  <2>1. reader.pc \notin {"none", "done"}
    BY <1>1 DEF Busy
  <2>2. QED
    BY <1>1, <1>2, <1>4, <2>1 DEF HandOK, BitOK
<1>6. QED
  BY <1>1, <1>2, <1>4, <1>5, BitRead

LEMMA BitTakes ==
  ASSUME TypeInv, BitOK, RememberSequence \/ KeepUnmatched
  PROVE  BitOK'
<1>1. UNCHANGED <<dev, net, passed>>
  BY DEF RememberSequence, KeepUnmatched, history
<1>2. reader'.batch = reader.batch
  BY DEF RememberSequence, KeepUnmatched, ReaderAt, TypeInv, TypeOK, ThreadsOK
<1>3. Current' = Current /\ Inbound' = Inbound
  BY <1>1, <1>2 DEF Current, Inbound
<1>4. Thinned(Inbound', Inbound)
  BY <1>3, Channels, ThinSelf
<1>5. CASE RememberSequence
  <2>1. reader.pc = "acked" /\ ~IsDuplicate(Current) /\ reader'.pc = "fresh"
    BY <1>5 DEF RememberSequence, ReaderAt, TypeInv, TypeOK, ThreadsOK
  <2>2. session'.lastSeen = Current.seq
    BY <1>5 DEF RememberSequence, TypeInv, TypeOK, SessionOK
  <2>3. Received = Len(passed) + 1 /\ Accepted' = Received /\ Received' = Received /\ Received # 0
    BY <1>1, <2>1, CountTypes DEF Accepted, Received
  <2>4. Current.type = "data" /\ Current.id = Received
    BY <2>1 DEF BitOK, HandOK
  <2>5. Current.seq = Bit(Current.id)
    <3>1. 1 \in Data(Inbound) /\ Inbound[1] = Current
      BY <2>1, <2>4, Channels DEF Busy, Data
    <3>2. QED
      BY <3>1 DEF BitOK, Frames, FrameOK
  <2>6. HandOK'
    BY <1>3, <2>1, <2>2, <2>3, <2>4, <2>5 DEF HandOK
  <2>7. QED
    BY <1>1, <1>4, <2>3, <2>6, BitRead DEF BitOK, Counts
<1>6. CASE KeepUnmatched
  <2>1. reader.pc = "fresh" /\ reader'.pc = "dispatch" /\ session'.lastSeen = session.lastSeen
    BY <1>6 DEF KeepUnmatched, ReaderAt, TypeInv, TypeOK, ThreadsOK, SessionOK
  <2>2. Accepted' = Accepted /\ Received' = Received
    BY <1>1, <2>1 DEF Accepted, Received
  <2>3. HandOK'
    BY <1>3, <2>1, <2>2 DEF HandOK, BitOK
  <2>4. QED
    BY <1>1, <1>4, <2>2, <2>3, BitRead DEF BitOK, Counts
<1>7. QED
  BY <1>5, <1>6

LEMMA BitAckData == ASSUME TypeInv, BitOK, AckData PROVE BitOK'
<1>1. /\ reader.pc = "frame" /\ reader'.pc = "acked" /\ reader'.batch = reader.batch
      /\ Current.type = "data" /\ UNCHANGED <<dev, passed>> /\ session'.lastSeen = session.lastSeen
      /\ net'.toHost = net.toHost
      /\ net'.toDev = net.toDev \/ net'.toDev = Append(net.toDev, HostAck(Current))
  BY DEF AckData, ReaderAt, history, TypeInv, TypeOK, ThreadsOK, SessionOK, WireOK
<1>2. Current' = Current /\ Inbound' = Inbound /\ Accepted' = Accepted /\ Confirmed' = Confirmed
  BY <1>1 DEF Current, Inbound, Accepted, Confirmed
<1>3. /\ FrameOK(Current) /\ Current.id \in {Received, Received + 1}
      /\ Accepted = Received /\ Received = Len(passed)
      /\ IsDuplicate(Current) <=> Current.id = Received
      /\ Current.seq % 2 = Current.seq
  BY <1>1, Verdict
<1>4. Accepted \in Nat /\ Received \in Nat /\ Confirmed \in Nat /\ Current.id \in Nat
  BY <1>3, CountTypes DEF BitOK, Counts, FrameOK
<1>5. Received' = Current.id
  <2>1. IsDuplicate(Current)' <=> IsDuplicate(Current)
    BY <1>1, <1>2 DEF IsDuplicate
  <2>2. QED
    BY <1>1, <1>2, <1>3, <1>4, <2>1 DEF Received
<1>6. Received <= Received' /\ Received' <= Confirmed + (IF dev.sent THEN 1 ELSE 0) /\ Confirmed <= Received'
  BY <1>3, <1>4, <1>5 DEF FrameOK, BitOK, Counts
<1>7. Counts' /\ HandOK'
  BY <1>1, <1>2, <1>4, <1>5, <1>6 DEF BitOK, Counts, HandOK
<1>8. Frames'
  <2>1. 1 \in Data(Inbound) /\ Inbound[1] = Current /\ \A i \in Data(Inbound) : i \in Nat /\ i >= 1
    BY <1>1, Channels DEF Busy, Data
  <2>2. \A i \in Data(Inbound) : Received' <= Inbound[i].id
    BY <1>4, <1>5, <2>1 DEF BitOK, Frames, Follows
  <2>3. \A i \in Data(Inbound) : FrameOK(Inbound[i])'
    BY <1>1, <1>2, <2>2 DEF BitOK, Frames, FrameOK
  <2>4. QED
    BY <1>2, <2>3 DEF BitOK, Frames, Follows
<1>9. Echoes'
  <2>1. CASE net'.toDev = net.toDev
    <3>1. ASSUME NEW i \in Acks(net.toDev), Good(net.toDev[i]) PROVE Received' = Confirmed + 1
      BY <1>4, <1>5, <1>6, <3>1 DEF BitOK, Echoes
    <3>2. QED
      BY <1>1, <1>2, <2>1, <3>1 DEF BitOK, Echoes, Good
  <2>2. CASE net'.toDev = Append(net.toDev, HostAck(Current))
    <3> DEFINE a == HostAck(Current)
    <3>1. a \in Frame /\ a.type = "ack" /\ a.seq = 1 - Current.seq
      <4>1. Current \in Frame
        BY <1>1, CurrentType DEF Busy
      <4>2. QED
        BY <1>3, <4>1, Moduli DEF HostAck, Frame
    <3> HIDE DEF a
    <3>2. Grown(net'.toDev, net.toDev, a)
      BY <2>2, <3>1, Channels, GrowAppend DEF a
    <3>3. PICK n \in DOMAIN net'.toDev : /\ net'.toDev[n] = a /\ DOMAIN net'.toDev = DOMAIN net.toDev \cup {n}
                                         /\ \A i \in DOMAIN net.toDev : i < n /\ net'.toDev[i] = net.toDev[i]
      BY <3>2 DEF Grown
    <3>4. \A i \in Acks(net'.toDev) : i = n \/ (i \in Acks(net.toDev) /\ net'.toDev[i] = net.toDev[i] /\ i < n)
      BY <3>3 DEF Acks
    <3>5. (Good(a) <=> Current.id = Confirmed + 1) /\ (Current.id = Confirmed + 1 \/ Current.id = Confirmed)
      <4>1. Current.id \in {Confirmed, Confirmed + 1}
        BY <1>3, <1>4, <1>5, <1>6
      <4>2. Bit(Confirmed + 1) = 1 - Bit(Confirmed) /\ Bit(Confirmed) \in {0, 1} /\ Confirmed + 1 # Confirmed
        BY <1>4, Bits
      <4>3. Current.seq = Bit(Current.id) /\ dev.bit = Bit(Confirmed + 1)
        BY <1>3 DEF FrameOK, BitOK, Counts
      <4>4. CASE Current.id = Confirmed + 1
        <5>1. Good(a)
          BY <3>1, <4>3, <4>4 DEF Good
        <5>2. QED
          BY <4>4, <5>1
      <4>5. CASE Current.id = Confirmed
        <5>1. Current.seq = Bit(Confirmed) /\ 1 - Current.seq # 1 - dev.bit
          BY <4>2, <4>3, <4>5
        <5>2. ~Good(a)
          BY <3>1, <5>1 DEF Good
        <5>3. QED
          BY <4>2, <4>5, <5>2
      <4>6. QED
        BY <4>1, <4>4, <4>5
    <3>6. ASSUME NEW i \in Acks(net.toDev), Good(net.toDev[i]) PROVE Received' = Confirmed + 1 /\ Good(a)
      <4>1. Received = Confirmed + 1
        BY <3>6 DEF BitOK, Echoes
      <4>2. Received' = Confirmed + 1
        BY <1>4, <1>5, <1>6, <4>1
      <4>3. QED
        BY <1>5, <3>5, <4>2
    <3>7. ASSUME NEW i \in Acks(net'.toDev), Good(net.toDev[i])'
          PROVE  Received' = Confirmed' + 1 /\ \A j \in Acks(net'.toDev) : i < j => Good(net.toDev[j])'
      <4>1. CASE i = n
        <5>1. Good(a)
          BY <1>1, <3>3, <3>7, <4>1 DEF Good
        <5>2. \A j \in Acks(net'.toDev) : ~(n < j)
          <6>1. n \in Nat /\ \A j \in DOMAIN net'.toDev : j \in Nat
            BY <2>2, <3>1, Channels DEF a
          <6>2. QED
            BY <3>4, <6>1 DEF Acks
        <5>3. QED
          BY <1>2, <1>5, <3>5, <4>1, <5>1, <5>2
      <4>2. CASE i # n
        <5>1. i \in Acks(net.toDev) /\ net'.toDev[i] = net.toDev[i]
          BY <3>4, <4>2
        <5>2. Good(net.toDev[i])
          BY <1>1, <3>7, <5>1 DEF Good
        <5>3. Received' = Confirmed' + 1 /\ Good(a)
          BY <1>2, <3>6, <5>1, <5>2
        <5>4. ASSUME NEW j \in Acks(net'.toDev), i < j PROVE Good(net.toDev[j])'
          <6>1. CASE j = n
            BY <1>1, <3>3, <5>3, <6>1 DEF Good
          <6>2. CASE j # n
            <7>1. j \in Acks(net.toDev) /\ net'.toDev[j] = net.toDev[j]
              BY <3>4, <6>2
            <7>2. Good(net.toDev[j])
              BY <5>1, <5>2, <5>4, <7>1 DEF BitOK, Echoes
            <7>3. QED
              BY <1>1, <7>1, <7>2 DEF Good
          <6>3. QED
            BY <6>1, <6>2
        <5>5. QED
          BY <5>3, <5>4
      <4>3. QED
        BY <4>1, <4>2
    <3>8. QED
      BY <3>7 DEF Echoes
  <2>3. QED
    BY <1>1, <2>1, <2>2
<1>10. QED
  BY <1>7, <1>8, <1>9 DEF BitOK

-----------------------------------------------------------------------------
(* The owner, the callers, and the headset's steps. *)

LEMMA BitOwner ==
  ASSUME TypeInv, Phases, BitOK, Owner, Once' PROVE BitOK'
<1>1. CASE OpenTransport
  <2>1. reader.pc = "none" /\ reader.batch = <<>> /\ UNCHANGED <<reader, session>>
    BY <1>1 DEF OpenTransport, OwnerAt, Phases, Opening, Busy
  <2>2. dev' = FreshDevice /\ net'.toDev = <<>> /\ net'.toHost = <<>> /\ passed' = <<>>
    BY <1>1 DEF OpenTransport
  <2>3. Inbound' = <<>>
    <3>1. Inbound' = <<>> \o <<>>
      BY <2>1, <2>2 DEF Inbound
    <3>2. QED
      BY <3>1
  <2>4. Accepted' = 0 /\ Received' = 0
    <3>1. Accepted' = 0
      BY <2>1, <2>2 DEF Accepted
    <3>2. QED
      BY <2>1, <3>1 DEF Received
  <2>5. Confirmed' = 0 /\ dev'.bit = Bit(1) /\ dev'.queue = <<>>
    BY <2>2 DEF Confirmed, FreshDevice, Bit
  <2>6. Counts' /\ HandOK'
    BY <2>1, <2>2, <2>4, <2>5 DEF Counts, HandOK
  <2>7. Frames' /\ Echoes'
    BY <2>2, <2>3 DEF Frames, Echoes, Data, Acks
  <2>8. QED
    BY <2>6, <2>7 DEF BitOK
<1>2. CASE SpawnReader
  <2>1. reader.pc = "none" /\ reader.batch = <<>> /\ Pristine /\ UNCHANGED <<dev, net, passed>>
    BY <1>2 DEF SpawnReader, OwnerAt, Phases, Opening, Busy, history
  <2>2. reader'.pc = "receive" /\ reader'.batch = <<>> /\ session'.lastSeen = None
    BY <1>2, <2>1 DEF SpawnReader, Pristine, TypeInv, TypeOK, SessionOK
  <2>3. Inbound' = Inbound
    BY <2>1, <2>2 DEF Inbound
  <2>4. Accepted' = 0 /\ Received' = 0 /\ Received = 0
    <3>1. Accepted' = 0 /\ Accepted = 0
      BY <2>1, <2>2 DEF Accepted, Pristine
    <3>2. QED
      BY <2>1, <2>2, <3>1 DEF Received
  <2>5. HandOK'
    BY <2>2, <2>4 DEF HandOK
  <2>6. Thinned(Inbound', Inbound)
    BY <2>3, Channels, ThinSelf
  <2>7. QED
    BY <2>1, <2>4, <2>5, <2>6, BitRead DEF BitOK, Counts
<1>3. CASE Owner /\ ~OpenTransport /\ ~SpawnReader
  <2>1. UNCHANGED <<reader, dev, passed>> /\ net'.toDev = net.toDev /\ net'.toHost = net.toHost
    BY <1>3 DEF Owner, Connect, BeginDisconnect, StopReader, JoinReader, ClearSession,
       ConnectFails, Start, history, TypeInv, TypeOK, WireOK
  <2>2. session'.lastSeen = session.lastSeen \/ reader.pc \in {"none", "done"}
    <3>1. CASE ClearSession \/ Start
      BY <3>1 DEF ClearSession, Start, OwnerAt, Phases, Opening, Joined
    <3>2. CASE BeginDisconnect
      BY <3>2 DEF BeginDisconnect, TypeInv, TypeOK, SessionOK
    <3>3. CASE Connect \/ StopReader \/ JoinReader \/ ConnectFails
      <4>1. session' = session
        BY <3>3 DEF Connect, StopReader, JoinReader, ConnectFails
      <4>2. QED
        BY <4>1
    <3>4. QED
      BY <1>3, <3>1, <3>2, <3>3 DEF Owner
  <2>3. Inbound' = Inbound
    BY <2>1 DEF Inbound
  <2>4. Thinned(Inbound', Inbound) /\ Thinned(net'.toDev, net.toDev)
    BY <2>1, <2>3, Channels, ThinSelf
  <2>5. CASE session'.lastSeen = session.lastSeen
    BY <2>1, <2>4, <2>5, BitKept
  <2>6. CASE reader.pc \in {"none", "done"}
    <3>1. Accepted' = Accepted
      BY <2>1 DEF Accepted
    <3>2. Received' = Received
      BY <2>1, <2>6, <3>1 DEF Received
    <3>3. HandOK'
      BY <2>1, <2>6 DEF HandOK
    <3>4. QED
      BY <2>1, <2>4, <3>2, <3>3, BitRead DEF BitOK, Counts
  <2>7. QED
    BY <2>2, <2>5, <2>6
<1>4. QED
  BY <1>1, <1>2, <1>3

\* A caller writes at most a request.
LEMMA BitCallers ==
  ASSUME TypeInv, Phases, BitOK, NEW c \in Callers,
         CallStep(c) \/ TimeOut(c) \/ \E o \in Opcodes \cup {None} : Call(c, o)
  PROVE  BitOK'
<1>1. UNCHANGED <<reader, dev, passed>> /\ session'.lastSeen = session.lastSeen
  BY PhaseCallers
<1>2. \/ UNCHANGED net
      \/ net' = [net EXCEPT !.toDev = Append(@, RequestFrame(c))] /\ WriteRequest(c)
  BY DEF CallStep, TimeOut, Call, Lock, LoadSequence, StoreSequence, FetchSequence, Arm, Ends,
     WriteRequest, WriteTimesOut, WriteFails, Finish, FindNotReady, Park, Conclude
<1>3. net'.toHost = net.toHost
  BY <1>2 DEF TypeInv, TypeOK, WireOK
<1>4. Thinned(Inbound', Inbound)
  <2>1. Inbound' = Inbound
    BY <1>1, <1>3 DEF Inbound
  <2>2. QED
    BY <2>1, Channels, ThinSelf
<1>5. Thinned(net'.toDev, net.toDev) \/ \E f : f.type # "ack" /\ Grown(net'.toDev, net.toDev, f)
  <2>1. CASE UNCHANGED net
    BY <2>1, Channels, ThinSelf
  <2>2. CASE net' = [net EXCEPT !.toDev = Append(@, RequestFrame(c))] /\ WriteRequest(c)
    <3>1. net'.toDev = Append(net.toDev, RequestFrame(c))
      BY <2>2 DEF TypeInv, TypeOK, WireOK
    <3>2. RequestFrame(c) \in Frame /\ RequestFrame(c).type # "ack"
      BY <2>2 DEF RequestFrame, Frame, TypeInv, TypeOK, CallerOK, Numbered, WriteRequest, Step
    <3>3. QED
      BY <3>1, <3>2, Channels, GrowAppend
  <2>3. QED
    BY <1>2, <2>1, <2>2
<1>6. QED
  BY <1>1, <1>4, <1>5, BitKept

\* The headset produces a frame, and ACKs or not: what it has sent stands.
Queues(m) ==
  /\ dev'.queue = Append(dev.queue, m) /\ m.id = dev.made + 1 /\ dev'.made = dev.made + 1
QueuesNone == dev'.queue = dev.queue /\ dev'.made = dev.made

LEMMA BitProduces ==
  ASSUME TypeInv, BitOK, UNCHANGED <<session, reader, passed>>, NEW m \in Message,
         Queues(m) \/ QueuesNone,
         dev'.bit = dev.bit, dev'.sent = dev.sent,
         Thinned(net'.toDev, net.toDev),
         \A i \in Data(Inbound') : i \in Data(Inbound) /\ Inbound'[i] = Inbound[i]
  PROVE  BitOK'
<1>1. /\ dev.queue \in Seq(Message) /\ dev.made \in Nat
  BY CountTypes DEF Headset
<1>2. Accepted' = Accepted /\ Current' = Current
  BY DEF Accepted, Current
<1>3. Received' = Received
  BY <1>2 DEF Received, IsDuplicate
<1>4. /\ Confirmed' = Confirmed
      /\ \A j \in DOMAIN dev'.queue : dev'.queue[j].id = Confirmed + j
      /\ dev.queue # <<>> => Head(dev'.queue) = Head(dev.queue)
  <2>1. CASE Queues(m)
    <3>1. /\ Len(dev'.queue) = Len(dev.queue) + 1 /\ Len(dev.queue) \in Nat
          /\ DOMAIN dev'.queue = 1 .. Len(dev.queue) + 1
          /\ dev'.queue[Len(dev.queue) + 1] = m
          /\ \A j \in 1 .. Len(dev.queue) : dev'.queue[j] = dev.queue[j] /\ j \in DOMAIN dev.queue
          /\ dev.queue # <<>> => Head(dev'.queue) = Head(dev.queue)
      BY <1>1, <2>1 DEF Queues
    <3>2. Confirmed' = Confirmed /\ m.id = Confirmed + (Len(dev.queue) + 1)
      BY <1>1, <2>1, <3>1 DEF Confirmed, Queues
    <3>3. ASSUME NEW j \in DOMAIN dev'.queue PROVE dev'.queue[j].id = Confirmed + j
      <4>1. j \in 1 .. Len(dev.queue) \/ j = Len(dev.queue) + 1
        BY <3>1
      <4>2. CASE j \in 1 .. Len(dev.queue)
        BY <3>1, <4>2 DEF BitOK, Counts
      <4>3. CASE j = Len(dev.queue) + 1
        BY <3>1, <3>2, <4>3
      <4>4. QED
        BY <4>1, <4>2, <4>3
    <3>4. QED
      BY <3>1, <3>2, <3>3
  <2>2. CASE QueuesNone
    BY <2>2 DEF Confirmed, BitOK, Counts, QueuesNone
  <2>3. QED
    BY <2>1, <2>2
<1>5. Counts' /\ HandOK'
  BY <1>2, <1>3, <1>4 DEF BitOK, Counts, HandOK
<1>6. Frames'
  <2>1. dev.sent => dev.queue # <<>>
    BY DEF TypeInv, InFlight
  <2>2. ASSUME NEW i \in Data(Inbound') PROVE FrameOK(Inbound[i])'
    <3>1. FrameOK(Inbound[i]) /\ Inbound'[i] = Inbound[i]
      BY DEF BitOK, Frames
    <3>2. Confirmed \in Nat /\ Inbound[i].id = Confirmed + 1 => dev.sent
      BY <3>1 DEF FrameOK, BitOK, Counts
    <3>3. QED
      BY <1>3, <1>4, <2>1, <3>1, <3>2 DEF FrameOK, BitOK, Counts
  <2>3. QED
    BY <2>2 DEF BitOK, Frames, Follows
<1>7. Echoes'
  <2>1. PICK e \in [DOMAIN net'.toDev -> DOMAIN net.toDev] :
        \A i \in DOMAIN net'.toDev : net'.toDev[i] = net.toDev[e[i]]
                                   /\ \A j \in DOMAIN net'.toDev : i < j => e[i] < e[j]
    BY DEF Thinned
  <2>2. \A i \in Acks(net'.toDev) : e[i] \in Acks(net.toDev) /\ net'.toDev[i] = net.toDev[e[i]] /\ i \in DOMAIN net'.toDev
    BY <2>1 DEF Acks
  <2>3. \A f : Good(f)' <=> Good(f)
    BY DEF Good
  <2>4. ASSUME NEW i \in Acks(net'.toDev), Good(net.toDev[i])'
        PROVE  Received' = Confirmed' + 1 /\ \A j \in Acks(net'.toDev) : i < j => Good(net.toDev[j])'
    <3>1. Good(net.toDev[e[i]])
      BY <2>2, <2>4 DEF Good
    <3>2. ASSUME NEW j \in Acks(net'.toDev), i < j PROVE Good(net.toDev[j])'
      <4>1. e[i] < e[j]
        BY <2>1, <2>2, <3>2
      <4>2. Good(net.toDev[e[j]])
        BY <2>2, <3>1, <4>1 DEF BitOK, Echoes
      <4>3. QED
        BY <2>2, <4>2 DEF Good
    <3>3. QED
      BY <1>3, <1>4, <2>2, <3>1, <3>2 DEF BitOK, Echoes
  <2>5. QED
    BY <2>4 DEF Echoes
<1>8. QED
  BY <1>5, <1>6, <1>7 DEF BitOK

LEMMA BitTakesAck == ASSUME TypeInv, BitOK, DeviceTakesAck PROVE BitOK'
<1>1. /\ UNCHANGED <<session, reader, passed>> /\ net.toDev # <<>> /\ Head(net.toDev).type = "ack"
      /\ net'.toDev = Tail(net.toDev) /\ net'.toHost = net.toHost
  BY DEF DeviceTakesAck, history, TypeInv, TypeOK, WireOK
<1>2. Inbound' = Inbound
  BY <1>1 DEF Inbound
<1>3. Thinned(Inbound', Inbound) /\ Thinned(net'.toDev, net.toDev)
  BY <1>1, <1>2, Channels, ThinSelf, ThinTail
<1>4. CASE dev' = dev
  BY <1>1, <1>3, <1>4, BitKept
<1>5. CASE /\ dev.sent /\ Head(net.toDev).seq = 1 - dev.bit
           /\ dev' = [dev EXCEPT !.queue = Tail(@), !.sent = FALSE, !.bit = 1 - @]
  <2>1. /\ dev.queue \in Seq(Message) /\ dev.queue # <<>> /\ dev.made \in Nat
        /\ dev'.queue = Tail(dev.queue) /\ ~dev'.sent /\ dev'.bit = 1 - dev.bit /\ dev'.made = dev.made
    BY <1>5, CountTypes DEF Headset, TypeInv, InFlight
  <2>2. 1 \in Acks(net.toDev) /\ Good(net.toDev[1])
    <3>1. 1 \in DOMAIN net.toDev /\ net.toDev[1] = Head(net.toDev)
      BY <1>1, Channels
    <3>2. QED
      BY <1>1, <1>5, <3>1 DEF Acks, Good
  <2>3. Received = Confirmed + 1 /\ \A j \in Acks(net.toDev) : 1 < j => Good(net.toDev[j])
    BY <2>2 DEF BitOK, Echoes
  <2>4. /\ Len(dev'.queue) = Len(dev.queue) - 1 /\ Len(dev.queue) \in Nat \ {0}
        /\ \A j \in DOMAIN dev'.queue : dev'.queue[j] = dev.queue[j + 1] /\ j + 1 \in DOMAIN dev.queue /\ j \in Nat
    BY <2>1
  <2>5. Confirmed' = Confirmed + 1 /\ Confirmed \in Nat
    BY <2>1, <2>4 DEF Confirmed, BitOK, Counts
  <2>6. Accepted' = Accepted /\ Current' = Current
    BY <1>1 DEF Accepted, Current
  <2>7. Received' = Received
    BY <1>1, <2>6 DEF Received, IsDuplicate
  <2>8. dev'.bit = Bit(Confirmed' + 1)
    <3>1. Bit((Confirmed + 1) + 1) = 1 - Bit(Confirmed + 1)
      BY <2>5, Bits
    <3>2. QED
      BY <2>1, <2>5, <3>1 DEF BitOK, Counts
  <2>9. \A j \in DOMAIN dev'.queue : dev'.queue[j].id = Confirmed' + j
    BY <2>4, <2>5 DEF BitOK, Counts
  <2>10. Counts' /\ HandOK'
    BY <1>1, <2>1, <2>3, <2>5, <2>6, <2>7, <2>8, <2>9 DEF BitOK, Counts, HandOK
  <2>11. Frames'
    <3>1. ASSUME NEW i \in Data(Inbound) PROVE FrameOK(Inbound[i])'
      <4>1. FrameOK(Inbound[i])
        BY DEF BitOK, Frames
      <4>2. Inbound[i].id \in Nat /\ Inbound[i].id <= Confirmed + 1 /\ Inbound[i].id # (Confirmed + 1) + 1
        BY <1>5, <2>5, <4>1 DEF FrameOK
      <4>3. QED
        BY <1>2, <2>1, <2>5, <2>7, <4>1, <4>2 DEF FrameOK
    <3>2. QED
      BY <1>2, <3>1 DEF BitOK, Frames, Follows
  <2>12. Echoes'
    <3>1. ASSUME NEW i \in Acks(net'.toDev) PROVE ~Good(net.toDev[i])'
      <4>1. i + 1 \in Acks(net.toDev) /\ net'.toDev[i] = net.toDev[i + 1] /\ 1 < i + 1
        <5>1. /\ \A k \in DOMAIN Tail(net.toDev) : k + 1 \in DOMAIN net.toDev /\ k >= 1 /\ k \in Nat
                                                  /\ Tail(net.toDev)[k] = net.toDev[k + 1]
          BY <1>1, Channels
        <5>2. QED
          BY <1>1, <5>1 DEF Acks
      <4>2. net.toDev[i + 1].seq = 1 - dev.bit
        BY <2>3, <4>1 DEF Good
      <4>3. dev.bit \in {0, 1}
        BY CountTypes
      <4>4. QED
        BY <2>1, <4>1, <4>2, <4>3 DEF Good
    <3>2. QED
      BY <3>1 DEF Echoes
  <2>13. QED
    BY <2>10, <2>11, <2>12 DEF BitOK
<1>6. QED
  BY <1>4, <1>5 DEF DeviceTakesAck

LEMMA BitSends == ASSUME TypeInv, TypeInv', BitOK, DeviceSends PROVE BitOK'
<1> DEFINE h == Head(dev.queue)
           f == [type |-> "data", seq |-> dev.bit, op |-> h.op, call |-> h.call, id |-> h.id]
<1>1. /\ UNCHANGED <<session, reader, passed>> /\ dev.queue # <<>>
      /\ net'.toDev = net.toDev /\ net'.toHost = Append(net.toHost, f)
      /\ dev' = [dev EXCEPT !.sent = TRUE]
  BY DEF DeviceSends, history, TypeInv, TypeOK, WireOK
<1>2. /\ dev'.queue = dev.queue /\ dev'.sent /\ dev'.bit = dev.bit /\ dev'.made = dev.made
      /\ h \in Message /\ h = dev.queue[1] /\ 1 \in DOMAIN dev.queue /\ dev.bit \in {0, 1}
  BY <1>1, CountTypes DEF Headset
<1>3. f \in Frame /\ f.type = "data" /\ f.seq = dev.bit /\ f.op = h.op /\ f.call = h.call /\ f.id = h.id
  BY <1>2, Moduli DEF Frame, Message
<1>4. h.id = Confirmed + 1 /\ Confirmed \in Nat /\ dev.bit = Bit(Confirmed + 1)
  BY <1>2 DEF BitOK, Counts
<1>5. Accepted' = Accepted /\ Current' = Current
  BY <1>1 DEF Accepted, Current
<1>6. Received' = Received /\ Confirmed' = Confirmed
  BY <1>1, <1>2, <1>5 DEF Received, Confirmed, IsDuplicate
<1>7. Received <= Confirmed + 1 /\ Received \in Nat
  BY <1>4, CountTypes DEF BitOK, Counts
<1>8. Counts' /\ HandOK'
  BY <1>1, <1>2, <1>4, <1>5, <1>6, <1>7 DEF BitOK, Counts, HandOK
<1> HIDE DEF f
<1>9. Grown(Inbound', Inbound, f)
  BY <1>1, <1>3, InboundGrows
<1> USE DEF h
<1>10. PICK n \in DOMAIN Inbound' :
         /\ Inbound'[n] = f /\ DOMAIN Inbound' = DOMAIN Inbound \cup {n}
         /\ \A i \in DOMAIN Inbound : i < n /\ Inbound'[i] = Inbound[i]
  BY <1>9 DEF Grown
<1>11. \A i \in Data(Inbound') : i = n \/ (i \in Data(Inbound) /\ Inbound'[i] = Inbound[i] /\ i < n)
  BY <1>10 DEF Data
<1>12. ASSUME NEW i \in Data(Inbound') PROVE FrameOK(Inbound[i])'
  <2>1. CASE i = n
    <3>1. Inbound'[i] = f /\ Head(dev'.queue) = h /\ f.id = Confirmed + 1 /\ f.seq = Bit(f.id)
      BY <1>2, <1>3, <1>4, <1>10, <2>1
    <3>2. QED
      BY <1>2, <1>3, <1>4, <1>6, <1>7, <3>1 DEF FrameOK
  <2>2. CASE i # n
    <3>1. FrameOK(Inbound[i]) /\ Inbound'[i] = Inbound[i]
      BY <1>11, <2>2 DEF BitOK, Frames
    <3>2. Inbound[i].id <= Confirmed + 1
      BY <1>4, <3>1 DEF FrameOK
    <3>3. QED
      BY <1>2, <1>6, <3>1, <3>2 DEF FrameOK
  <2>3. QED
    BY <2>1, <2>2
<1>13. ASSUME NEW i \in Data(Inbound'), NEW j \in Data(Inbound'), i < j PROVE Follows(Inbound[j], Inbound[i])'
  <2>1. i # n
    <3>1. n \in Nat /\ j \in Nat /\ i \in Nat
      <4>1. \A k \in DOMAIN Inbound' : k \in Nat
        BY Channels DEF Inbound, TypeInv, TypeOK, ThreadsOK, WireOK
      <4>2. QED
        BY <4>1 DEF Data
    <3>2. QED
      BY <1>11, <1>13, <3>1
  <2>2. i \in Data(Inbound) /\ Inbound'[i] = Inbound[i]
    BY <1>11, <2>1
  <2>3. CASE j = n
    <3>1. FrameOK(Inbound[i])
      BY <2>2 DEF BitOK, Frames
    <3>2. Inbound[i].id <= Confirmed + 1 /\ (Inbound[i].id = Confirmed + 1 => Inbound[i].op = h.op)
      BY <1>4, <3>1 DEF FrameOK
    <3>3. QED
      BY <1>3, <1>4, <1>10, <2>2, <2>3, <3>2 DEF Follows
  <2>4. CASE j # n
    <3>1. j \in Data(Inbound) /\ Inbound'[j] = Inbound[j]
      BY <1>11, <2>4
    <3>2. QED
      BY <1>13, <2>2, <3>1 DEF BitOK, Frames, Follows
  <2>5. QED
    BY <2>3, <2>4
<1>14. Echoes'
  BY <1>1, <1>2, <1>6 DEF BitOK, Echoes, Good
<1>15. Frames'
  BY <1>12, <1>13 DEF Frames
<1>16. QED
  BY <1>8, <1>14, <1>15 DEF BitOK

LEMMA ProducesFrame ==
  ASSUME NEW d \in Headset, NEW o \in Opcodes \cup {Notice}, NEW call \in Calls \cup {None}
  PROVE  /\ [op |-> o, call |-> call, id |-> d.made + 1] \in Message
         /\ Produce(d, o, call).queue = Append(d.queue, [op |-> o, call |-> call, id |-> d.made + 1])
         /\ Produce(d, o, call).made = d.made + 1
         /\ Produce(d, o, call).bit = d.bit /\ Produce(d, o, call).sent = d.sent
         /\ Produce(d, o, call).last = d.last
<1>1. d.made + 1 \in Nat
  BY DEF Headset
<1>2. QED
  BY <1>1 DEF Produce, Headset, Message

\* What the headset does when it takes a request: an ACK, and maybe an answer.
LEMMA TakesRequest ==
  ASSUME TypeInv, TypeInv', DeviceTakesRequest
  PROVE  LET f == Head(net.toDev)
             a == [HostAck(f) EXCEPT !.call = f.call]
         IN /\ f \in Frame /\ f.type = "data" /\ f = net.toDev[1] /\ 1 \in Data(net.toDev)
            /\ a \in Frame /\ a.type = "ack" /\ a.call = f.call /\ a.seq = 1 - (f.seq % 2)
            /\ Grown(Inbound', Inbound, a) /\ net'.toDev = Tail(net.toDev)
            /\ UNCHANGED <<session, sendMtx, caller, reader, owner, used, history>>
            /\ dev'.last = f.seq /\ dev'.bit = dev.bit /\ dev'.sent = dev.sent
            /\ \/ f.op = None /\ dev'.queue = dev.queue /\ dev'.made = dev.made
               \/ /\ f.op # None /\ dev'.made = dev.made + 1
                  /\ dev'.queue = Append(dev.queue, [op |-> f.op, call |-> f.call, id |-> dev.made + 1])
                  /\ [op |-> f.op, call |-> f.call, id |-> dev.made + 1] \in Message
<1> DEFINE f == Head(net.toDev)
           a == [HostAck(f) EXCEPT !.call = f.call]
           d == [dev EXCEPT !.last = f.seq]
<1>1. /\ f.type = "data" /\ net.toDev # <<>> /\ UNCHANGED <<session, sendMtx, caller, reader, owner, used, history>>
      /\ net' = [net EXCEPT !.toDev = Tail(@), !.toHost = Append(@, a)]
      /\ dev' = IF f.op = None THEN d ELSE Produce(d, f.op, f.call)
  BY DEF DeviceTakesRequest
<1>2. f \in Frame /\ f = net.toDev[1] /\ 1 \in Data(net.toDev)
  BY <1>1, Channels DEF Data
<1>3. a \in Frame /\ a.type = "ack" /\ a.call = f.call /\ a.seq = 1 - (f.seq % 2)
  BY <1>2, Moduli DEF HostAck, Frame
<1>4. net'.toDev = Tail(net.toDev) /\ net'.toHost = Append(net.toHost, a)
  BY <1>1 DEF TypeInv, TypeOK, WireOK
<1>5. d \in Headset /\ d.queue = dev.queue /\ d.made = dev.made /\ d.bit = dev.bit /\ d.sent = dev.sent /\ d.last = f.seq
  BY <1>2, CountTypes DEF Headset, Frame
<1> HIDE DEF d, a
<1>6. Grown(Inbound', Inbound, a)
  BY <1>1, <1>3, <1>4, InboundGrows
<1>7. CASE f.op = None
  BY <1>1, <1>2, <1>3, <1>4, <1>5, <1>6, <1>7 DEF a
<1>8. CASE f.op # None
  <2>1. f.op \in Opcodes \cup {Notice} /\ f.call \in Calls \cup {None} /\ dev' = Produce(d, f.op, f.call)
    BY <1>1, <1>2, <1>8 DEF Frame
  <2>2. /\ [op |-> f.op, call |-> f.call, id |-> dev.made + 1] \in Message
        /\ dev'.queue = Append(dev.queue, [op |-> f.op, call |-> f.call, id |-> dev.made + 1])
        /\ dev'.made = dev.made + 1 /\ dev'.bit = dev.bit /\ dev'.sent = dev.sent /\ dev'.last = f.seq
    BY <1>5, <2>1, ProducesFrame
  <2>3. QED
    BY <1>1, <1>2, <1>3, <1>4, <1>6, <1>8, <2>2 DEF a
<1>9. QED
  BY <1>7, <1>8

LEMMA BitTakesRequest == ASSUME TypeInv, TypeInv', BitOK, DeviceTakesRequest PROVE BitOK'
<1> DEFINE f == Head(net.toDev)
           a == [HostAck(f) EXCEPT !.call = f.call]
           m == [op |-> f.op, call |-> f.call, id |-> dev.made + 1]
<1>1. /\ a.type = "ack" /\ Grown(Inbound', Inbound, a) /\ net'.toDev = Tail(net.toDev) /\ 1 \in Data(net.toDev)
      /\ UNCHANGED <<session, reader, passed>> /\ dev'.bit = dev.bit /\ dev'.sent = dev.sent
      /\ \/ dev'.queue = dev.queue /\ dev'.made = dev.made
         \/ m \in Message /\ dev'.made = dev.made + 1 /\ dev'.queue = Append(dev.queue, m)
  BY TakesRequest DEF history
<1>2. m.id = dev.made + 1
  OBVIOUS
<1> HIDE DEF a, m
<1>3. \A i \in Data(Inbound') : i \in Data(Inbound) /\ Inbound'[i] = Inbound[i]
  BY <1>1 DEF Grown, Data
<1>4. Thinned(net'.toDev, net.toDev)
  BY <1>1, Channels, ThinTail DEF Data
<1>5. CASE m \in Message
  <2>1. PICK g \in Message : g = m
    BY <1>5
  <2>2. /\ UNCHANGED <<session, reader, passed>> /\ dev'.bit = dev.bit /\ dev'.sent = dev.sent
        /\ Queues(g) \/ QueuesNone
    BY <1>1, <1>2, <2>1 DEF Queues, QueuesNone
  <2>3. QED
    BY <1>3, <1>4, <2>2, BitProduces
<1>6. CASE dev'.queue = dev.queue /\ dev'.made = dev.made
  <2>1. [op |-> Notice, call |-> None, id |-> 0] \in Message
    BY DEF Message
  <2>2. QED
    BY <1>1, <1>3, <1>4, <1>6, <2>1, BitProduces DEF QueuesNone
<1>7. QED
  BY <1>1, <1>5, <1>6

LEMMA BitNotifies == ASSUME TypeInv, BitOK, DeviceNotifies PROVE BitOK'
<1> DEFINE m == [op |-> Notice, call |-> None, id |-> dev.made + 1]
<1>1. UNCHANGED <<session, reader, passed, net>> /\ dev' = Produce(dev, Notice, None)
  BY DEF DeviceNotifies, history
<1>2. /\ m \in Message /\ dev'.queue = Append(dev.queue, m) /\ dev'.made = dev.made + 1
      /\ dev'.bit = dev.bit /\ dev'.sent = dev.sent /\ m.id = dev.made + 1
  BY <1>1, CountTypes, ProducesFrame, SMTT(20)
<1> HIDE DEF m
<1>3. Inbound' = Inbound /\ Thinned(net'.toDev, net.toDev)
  BY <1>1, Channels, ThinSelf DEF Inbound
<1>4. PICK g \in Message : g = m
  BY <1>2
<1>5. Queues(g)
  BY <1>2, <1>4 DEF Queues
<1>6. \A i \in Data(Inbound') : i \in Data(Inbound) /\ Inbound'[i] = Inbound[i]
  BY <1>3 DEF Data
<1>7. dev'.bit = dev.bit /\ dev'.sent = dev.sent /\ UNCHANGED <<session, reader, passed>>
  BY <1>1, <1>2
<1>8. QED
  BY <1>3, <1>5, <1>6, <1>7, BitProduces

LEMMA BitLink == ASSUME TypeInv, TypeInv', BitOK, LoseFrame \/ LinkBreaks PROVE BitOK'
<1>1. /\ UNCHANGED <<session, reader, passed, dev>>
      /\ \/ net'.toDev = net.toDev /\ net'.toHost = net.toHost
         \/ net.toDev # <<>> /\ net'.toDev = Tail(net.toDev) /\ net'.toHost = net.toHost
         \/ net.toHost # <<>> /\ net'.toDev = net.toDev /\ net'.toHost = Tail(net.toHost)
  BY DEF LoseFrame, LinkBreaks, history, TypeInv, TypeOK, WireOK
<1>2. Thinned(net'.toDev, net.toDev)
  BY <1>1, Channels, ThinSelf, ThinTail
<1>3. Thinned(Inbound', Inbound)
  <2>1. CASE net'.toHost = net.toHost
    <3>1. Inbound' = Inbound
      BY <1>1, <2>1 DEF Inbound
    <3>2. QED
      BY <3>1, Channels, ThinSelf
  <2>2. CASE net.toHost # <<>> /\ net'.toHost = Tail(net.toHost)
    BY <1>1, <2>2, InboundLoses
  <2>3. QED
    BY <1>1, <2>1, <2>2
<1>4. QED
  BY <1>1, <1>2, <1>3, BitKept

DeliveryInv == TypeInv /\ PhaseInv /\ BitInv

LEMMA DeliveryInit == Init => DeliveryInv
<1> SUFFICES ASSUME Init PROVE PhaseInv /\ BitInv
  BY TypeInit DEF DeliveryInv
<1>1. Phases
  BY DEF Init, Phases, Opening, Joined, Pristine, FreshDevice
<1>2. Inbound = <<>>
  <2>1. Inbound = <<>> \o <<>>
    BY DEF Init, Inbound
  <2>2. QED
    BY <2>1
<1>3. Accepted = 0 /\ Received = 0
  BY DEF Init, Accepted, Received
<1>4. Confirmed = 0 /\ dev.bit = Bit(1) /\ dev.queue = <<>>
  BY DEF Init, Confirmed, FreshDevice, Bit
<1>5. Counts /\ HandOK
  BY <1>3, <1>4 DEF Init, Counts, HandOK
<1>6. Frames /\ Echoes
  BY <1>2 DEF Init, Frames, Echoes, Data, Acks
<1>7. QED
  BY <1>1, <1>5, <1>6 DEF PhaseInv, BitInv, BitOK

\* One step, on the first connection.
LEMMA DeliveryStep ==
  ASSUME DeliveryInv, Next, Once'
  PROVE  /\ Once /\ TypeInv /\ TypeInv' /\ Phases /\ Phases' /\ BitOK /\ BitOK'
<1>1. Once /\ TypeInv /\ TypeInv' /\ Phases /\ Phases' /\ BitOK
  <2>1. TypeInv'
    BY TypeNext DEF DeliveryInv
  <2>2. QED
    BY <2>1, OnceBefore, PhaseNext DEF DeliveryInv, BitInv
<1>2. CASE Reader
  BY <1>1, <1>2, BitMoves, BitDone, BitTakes, BitAckData DEF Reader
<1>3. CASE Environment
  BY <1>1, <1>3, BitTakesRequest, BitTakesAck, BitNotifies, BitSends, BitLink DEF Environment
<1>4. QED
  BY <1>1, <1>2, <1>3, BitOwner, BitCallers DEF Next

LEMMA DeliveryNext == DeliveryInv /\ [Next]_vars => DeliveryInv'
<1>1. ASSUME DeliveryInv, Next PROVE DeliveryInv'
  <2>1. TypeInv'
    BY <1>1, TypeNext DEF DeliveryInv
  <2>2. Once' => Phases' /\ BitOK'
    BY <1>1, DeliveryStep
  <2>3. QED
    BY <2>1, <2>2 DEF DeliveryInv, PhaseInv, BitInv
<1>2. ASSUME DeliveryInv, UNCHANGED vars PROVE DeliveryInv'
  <2>1. TypeInv'
    BY <1>2, TypeNext DEF DeliveryInv
  <2>2. PhaseInv'
    BY <1>2 DEF DeliveryInv, PhaseInv, Phases, Pristine, Joined, Once, vars
  <2>3. Accepted' = Accepted /\ Received' = Received /\ Confirmed' = Confirmed /\ Inbound' = Inbound /\ Current' = Current
    BY <1>2 DEF Accepted, Received, Confirmed, Inbound, Current, IsDuplicate, vars
  <2>4. Counts' <=> Counts
    BY <1>2, <2>3 DEF Counts, vars
  <2>5. HandOK' <=> HandOK
    BY <1>2, <2>3 DEF HandOK, vars
  <2>6. (Frames' <=> Frames) /\ (Echoes' <=> Echoes)
    BY <1>2, <2>3 DEF Frames, FrameOK, Follows, Echoes, Good, vars
  <2>7. BitInv'
    BY <1>2, <2>4, <2>5, <2>6 DEF DeliveryInv, BitInv, BitOK, Once, vars
  <2>8. QED
    BY <2>1, <2>2, <2>7 DEF DeliveryInv
<1>3. QED
  BY <1>1, <1>2

LEMMA DeliveryInvariant == Spec => []DeliveryInv
BY DeliveryInit, DeliveryNext, PTL DEF Spec

-----------------------------------------------------------------------------
(* The evidence of a call. *)

\* The session's first connection while it lasts and no call has timed out.
Calm == Once /\ IsConnected /\ gaveUp = {}

\* The caller that waits for evidence.
Waiting == {"check", "parking", "parked"}
Waits(c) == sendMtx = c /\ caller[c].pc \in Waiting

\* The frames matched with a request or kept; an answer that is not yet.
Decided == Len(passed) + IF reader.pc = "dispatch" THEN 1 ELSE 0
Answer(m) == m.id > Decided /\ m.op # Notice
HandsAnswer == reader.pc \in {"acked", "fresh"} /\ Answer(Current)
QueuesAnswer == \E j \in DOMAIN dev.queue : Answer(dev.queue[j])
Answering == session.pending # None /\ session.pending.response # None

\* The request of the waiting caller asks for m, and the headset took it last.
Asked(m) ==
  /\ session.pending # None /\ session.pending.response = None
  /\ session.pending.call = m.call /\ session.pending.op = m.op
  /\ \E c \in Callers : Waits(c) /\ caller[c].op # None /\ dev.last = caller[c].reg

\* A request on its way is the waiting caller's, and its only trace.
Requests ==
  \A i \in Data(net.toDev) :
    /\ \E c \in Callers : Waits(c) /\ net.toDev[i] = RequestFrame(c) /\ dev.last # caller[c].reg
    /\ \A j \in Data(net.toDev) : j = i
    /\ Acks(Inbound) = {} /\ session.hasAck = None
    /\ ~HandsAnswer /\ ~QueuesAnswer /\ ~Answering
\* An ACK on its way is for the waiting caller's request, and ahead of the answer.
Confirmations ==
  \A i \in Acks(Inbound) :
    /\ \E c \in Callers : /\ Waits(c) /\ Inbound[i].call = caller[c].call
                          /\ Inbound[i].seq = 1 - caller[c].reg /\ dev.last = caller[c].reg
    /\ \A j \in Acks(Inbound) : j = i
    /\ session.hasAck = None /\ ~Answering /\ ~HandsAnswer
    /\ \A j \in Data(Inbound) : j < i => ~Answer(Inbound[j])
Confirmation ==
  session.hasAck # None =>
    \E c \in Callers : Waits(c) /\ session.hasAck = caller[c].call /\ dev.last = caller[c].reg
\* An answer is for the waiting caller's request, and the only one.
OwnAnswer ==
  /\ \A j \in DOMAIN dev.queue : Answer(dev.queue[j]) =>
       /\ Asked(dev.queue[j])
       /\ \A k \in DOMAIN dev.queue : Answer(dev.queue[k]) => dev.queue[k].id = dev.queue[j].id
  /\ HandsAnswer =>
       /\ Asked(Current)
       /\ \A k \in DOMAIN dev.queue : Answer(dev.queue[k]) => dev.queue[k].id = Current.id
  /\ Answering =>
       /\ session.pending.response.call = session.pending.call /\ ~QueuesAnswer
       /\ \E c \in Callers : Waits(c) /\ dev.last = caller[c].reg
\* _pendingRequest is there exactly while its caller writes and waits.
Registered ==
  /\ session.pending # None =>
       \E c \in Callers : sendMtx = c /\ caller[c].pc \in Waiting \cup {"write"} /\ caller[c].op # None
  /\ \A c \in Callers : caller[c].pc \in Waiting \cup {"write"} /\ caller[c].op # None =>
       /\ session.pending # None
       /\ session.pending.call = caller[c].call /\ session.pending.op = caller[c].op
  /\ \A i \in DOMAIN session.unmatched : session.unmatched[i].op = Notice
\* The next request's bit is not that of the last.
NextBit ==
  /\ (\A c \in Callers : caller[c].pc \notin Waiting \cup {"arm", "write"}) =>
       dev.last # session.sequence % 2
  /\ \A c \in Callers :
       /\ caller[c].pc \in Waiting \cup {"arm", "write"} =>
            caller[c].reg \in {0, 1} /\ session.sequence % 2 = 1 - caller[c].reg
       /\ caller[c].pc = "store" => caller[c].reg % 2 = session.sequence % 2
       /\ caller[c].pc \in {"arm", "write"} => dev.last # caller[c].reg
CalmOK == Requests /\ Confirmations /\ Confirmation /\ OwnAnswer /\ Registered /\ NextBit
CalmInv == Calm => CalmOK

-----------------------------------------------------------------------------
(* Steps that leave the outstanding request alone. *)

SameCalls ==
  /\ sendMtx' = sendMtx
  /\ \A c \in Callers : /\ caller'[c].pc \in Waiting <=> caller[c].pc \in Waiting
                        /\ caller'[c].pc \notin Waiting =>
                             caller'[c].pc = caller[c].pc \/ (caller[c].pc = "idle" /\ caller'[c].pc = "lock")
                        /\ caller[c].pc # "idle" =>
                             /\ caller'[c].call = caller[c].call /\ caller'[c].op = caller[c].op
                             /\ caller'[c].reg = caller[c].reg
SameSession ==
  /\ session'.hasAck = session.hasAck /\ session'.pending = session.pending
  /\ session'.sequence = session.sequence
FewerAnswers ==
  /\ \A m \in Message \cup Frame : Answer(m)' => Answer(m)
  /\ HandsAnswer' => (HandsAnswer /\ Current' = Current)
  /\ \A j \in DOMAIN dev'.queue : Answer(dev.queue[j])' =>
       \E k \in DOMAIN dev.queue : dev.queue[k] = dev'.queue[j] /\ Answer(dev.queue[k])

LEMMA CallsStay == ASSUME TypeInv, Others PROVE SameCalls
BY OthersWake DEF SameCalls, Waiting

LEMMA WaitersStay ==
  ASSUME SameCalls
  PROVE  /\ \A c \in Callers : Waits(c)' <=> Waits(c)
         /\ \A c \in Callers : /\ caller'[c].pc \in Waiting \cup {"write"} <=> caller[c].pc \in Waiting \cup {"write"}
                               /\ caller'[c].pc \in Waiting \cup {"arm", "write"} <=> caller[c].pc \in Waiting \cup {"arm", "write"}
                               /\ caller'[c].pc \in {"arm", "write"} <=> caller[c].pc \in {"arm", "write"}
                               /\ caller'[c].pc = "store" <=> caller[c].pc = "store"
BY DEF SameCalls, Waits, Waiting

LEMMA AskedStays ==
  ASSUME SameCalls, session'.pending = session.pending, dev'.last = dev.last
  PROVE  \A m : Asked(m) => Asked(m)'
BY WaitersStay DEF SameCalls, Asked, Waits, Waiting

\* The only request on its way stays the only one, or goes.
LEMMA OneRequest ==
  ASSUME TypeInv, TypeInv', Thinned(net'.toDev, net.toDev) \/ \E f : f.type = "ack" /\ Grown(net'.toDev, net.toDev, f)
  PROVE  \E e \in [Data(net'.toDev) -> Data(net.toDev)] :
           \A i \in Data(net'.toDev) : /\ net'.toDev[i] = net.toDev[e[i]]
                                       /\ \A j \in Data(net'.toDev) : e[i] = e[j] => i = j
<1>1. CASE Thinned(net'.toDev, net.toDev)
  <2>1. PICK e \in [DOMAIN net'.toDev -> DOMAIN net.toDev] :
          \A i \in DOMAIN net'.toDev : net'.toDev[i] = net.toDev[e[i]]
                                     /\ \A j \in DOMAIN net'.toDev : i < j => e[i] < e[j]
    BY <1>1 DEF Thinned
  <2>2. /\ \A i \in Data(net'.toDev) : e[i] \in Data(net.toDev) /\ i \in DOMAIN net'.toDev
    BY <2>1 DEF Data
  <2>3. /\ \A i \in DOMAIN net'.toDev : i \in Nat
        /\ \A i \in DOMAIN net.toDev : i \in Nat
    BY DEF TypeInv, TypeOK, WireOK
  <2>4. \A i, j \in Data(net'.toDev) : e[i] = e[j] => i = j
    <3>1. \A i, j \in Data(net'.toDev) : /\ i \in Nat /\ j \in Nat /\ e[i] \in Nat /\ e[j] \in Nat
                                         /\ (i < j => e[i] < e[j]) /\ (j < i => e[j] < e[i])
      BY <2>1, <2>2, <2>3 DEF Data
    <3>2. QED
      BY <3>1
  <2> DEFINE d == [i \in Data(net'.toDev) |-> e[i]]
  <2>5. d \in [Data(net'.toDev) -> Data(net.toDev)] /\ \A i \in Data(net'.toDev) : d[i] = e[i]
    BY <2>2
  <2> HIDE DEF d
  <2>6. \A i \in Data(net'.toDev) : /\ net'.toDev[i] = net.toDev[d[i]]
                                    /\ \A j \in Data(net'.toDev) : d[i] = d[j] => i = j
    BY <2>1, <2>2, <2>4, <2>5
  <2>7. QED
    BY <2>5, <2>6
<1>2. CASE \E f : f.type = "ack" /\ Grown(net'.toDev, net.toDev, f)
  <2>1. \A i \in Data(net'.toDev) : i \in Data(net.toDev) /\ net'.toDev[i] = net.toDev[i]
    BY <1>2 DEF Grown, Data
  <2> DEFINE d == [i \in Data(net'.toDev) |-> i]
  <2>2. d \in [Data(net'.toDev) -> Data(net.toDev)] /\ \A i \in Data(net'.toDev) : d[i] = i
    BY <2>1
  <2> HIDE DEF d
  <2>3. QED
    BY <2>1, <2>2
<1>3. QED
  BY <1>1, <1>2

\* So does the only ACK, and what is ahead of it was ahead of it.
LEMMA OneConfirmation ==
  ASSUME TypeInv, TypeInv', Inbound' \in Seq(Frame),
         Thinned(Inbound', Inbound) \/ \E f : f.type = "data" /\ Grown(Inbound', Inbound, f)
  PROVE  \E e \in [Acks(Inbound') -> Acks(Inbound)] :
           \A i \in Acks(Inbound') :
             /\ Inbound'[i] = Inbound[e[i]]
             /\ \A j \in Acks(Inbound') : e[i] = e[j] => i = j
             /\ \A j \in Data(Inbound') : j < i =>
                  \E l \in Data(Inbound) : l < e[i] /\ Inbound[l] = Inbound'[j]
<1>1. CASE Thinned(Inbound', Inbound)
  <2>1. PICK e \in [DOMAIN Inbound' -> DOMAIN Inbound] :
          \A i \in DOMAIN Inbound' : Inbound'[i] = Inbound[e[i]]
                                     /\ \A j \in DOMAIN Inbound' : i < j => e[i] < e[j]
    BY <1>1 DEF Thinned
  <2>2. /\ \A i \in Acks(Inbound') : e[i] \in Acks(Inbound) /\ i \in DOMAIN Inbound'
        /\ \A i \in Data(Inbound') : e[i] \in Data(Inbound) /\ i \in DOMAIN Inbound'
    BY <2>1 DEF Acks, Data
  <2>3. /\ \A i \in DOMAIN Inbound' : i \in Nat
        /\ \A i \in DOMAIN Inbound : i \in Nat
    BY Channels
  <2>4. \A i, j \in Acks(Inbound') : e[i] = e[j] => i = j
    <3>1. \A i, j \in Acks(Inbound') : /\ i \in Nat /\ j \in Nat /\ e[i] \in Nat /\ e[j] \in Nat
                                       /\ (i < j => e[i] < e[j]) /\ (j < i => e[j] < e[i])
      BY <2>1, <2>2, <2>3 DEF Acks
    <3>2. QED
      BY <3>1
  <2> DEFINE d == [i \in Acks(Inbound') |-> e[i]]
  <2>5. d \in [Acks(Inbound') -> Acks(Inbound)] /\ \A i \in Acks(Inbound') : d[i] = e[i]
    BY <2>2
  <2> HIDE DEF d
  <2>6. ASSUME NEW i \in Acks(Inbound'), NEW j \in Data(Inbound'), j < i
        PROVE  \E l \in Data(Inbound) : l < d[i] /\ Inbound[l] = Inbound'[j]
    <3>1. e[j] \in Data(Inbound) /\ e[j] < e[i] /\ Inbound'[j] = Inbound[e[j]]
      BY <2>1, <2>2, <2>6
    <3>2. QED
      BY <2>5, <3>1
  <2>7. \A i \in Acks(Inbound') : /\ Inbound'[i] = Inbound[d[i]]
                                    /\ \A j \in Acks(Inbound') : d[i] = d[j] => i = j
    BY <2>1, <2>2, <2>4, <2>5
  <2>8. QED
    BY <2>5, <2>6, <2>7
<1>2. CASE \E f : f.type = "data" /\ Grown(Inbound', Inbound, f)
  <2>1. PICK n \in DOMAIN Inbound' :
          /\ Inbound'[n].type = "data" /\ DOMAIN Inbound' = DOMAIN Inbound \cup {n}
          /\ \A i \in DOMAIN Inbound : i < n /\ Inbound'[i] = Inbound[i]
    BY <1>2 DEF Grown
  <2>2. \A i \in Acks(Inbound') : i \in Acks(Inbound) /\ Inbound'[i] = Inbound[i] /\ i < n
    BY <2>1 DEF Acks
  <2>3. ASSUME NEW i \in Acks(Inbound'), NEW j \in Data(Inbound'), j < i
        PROVE  j \in Data(Inbound) /\ Inbound'[j] = Inbound[j]
    <3>1. j # n
      <4>1. n \in Nat /\ i \in Nat
        BY DEF Acks
      <4>2. QED
        BY <2>2, <2>3, <4>1
    <3>2. QED
      BY <2>1, <3>1 DEF Data
  <2> DEFINE d == [i \in Acks(Inbound') |-> i]
  <2>4. d \in [Acks(Inbound') -> Acks(Inbound)] /\ \A i \in Acks(Inbound') : d[i] = i
    BY <2>2
  <2> HIDE DEF d
  <2>5. QED
    BY <2>2, <2>3, <2>4
<1>3. QED
  BY <1>1, <1>2

\* The answers asked for: fewer than before, and none new.
LEMMA AnswersStay ==
  ASSUME TypeInv, TypeInv', OwnAnswer, SameCalls, session'.pending = session.pending, FewerAnswers,
         dev'.last = dev.last
  PROVE  /\ OwnAnswer'
         /\ (HandsAnswer' => HandsAnswer) /\ (QueuesAnswer' => QueuesAnswer)
         /\ Answering' <=> Answering
<1>1. Answering' <=> Answering
  BY DEF Answering
<1>2. QueuesAnswer' => QueuesAnswer
  BY DEF FewerAnswers, QueuesAnswer
<1>3. ASSUME NEW j \in DOMAIN dev'.queue, Answer(dev.queue[j])'
      PROVE  /\ Asked(dev.queue[j])'
             /\ \A k \in DOMAIN dev'.queue : Answer(dev.queue[k])' => dev'.queue[k].id = dev'.queue[j].id
  <2>1. PICK k \in DOMAIN dev.queue : dev.queue[k] = dev'.queue[j] /\ Answer(dev.queue[k])
    BY <1>3 DEF FewerAnswers
  <2>2. PICK m : m = dev.queue[k]
    OBVIOUS
  <2>3. Asked(m)'
    BY <2>1, <2>2, AskedStays DEF OwnAnswer
  <2>4. Asked(dev.queue[j])'
    BY <2>1, <2>2, <2>3 DEF Asked
  <2>5. QED
    BY <2>1, <2>4 DEF OwnAnswer, FewerAnswers
<1>4. ASSUME HandsAnswer'
      PROVE  /\ Asked(Current)'
             /\ \A k \in DOMAIN dev'.queue : Answer(dev.queue[k])' => dev'.queue[k].id = Current'.id
  <2>1. HandsAnswer /\ Current' = Current
    BY <1>4 DEF FewerAnswers
  <2>2. PICK m : m = Current
    OBVIOUS
  <2>3. Asked(m)'
    BY <2>1, <2>2, AskedStays DEF OwnAnswer
  <2>4. Asked(Current)'
    BY <2>1, <2>2, <2>3 DEF Asked
  <2>5. QED
    BY <2>1, <2>4 DEF OwnAnswer, FewerAnswers
<1>5. ASSUME Answering'
      PROVE  /\ session'.pending.response.call = session'.pending.call /\ ~QueuesAnswer'
             /\ \E c \in Callers : Waits(c)' /\ dev'.last = caller'[c].reg
  BY <1>1, <1>2, <1>5, WaitersStay DEF OwnAnswer, SameCalls, Waits, Waiting
<1>6. QED
  BY <1>1, <1>2, <1>3, <1>4, <1>5 DEF OwnAnswer, FewerAnswers

LEMMA CalmStays ==
  ASSUME TypeInv, TypeInv', CalmOK, SameCalls, SameSession, FewerAnswers, dev'.last = dev.last,
         \A i \in DOMAIN session'.unmatched : session'.unmatched[i].op = Notice,
         Thinned(net'.toDev, net.toDev) \/ \E f : f.type = "ack" /\ Grown(net'.toDev, net.toDev, f),
         Inbound' \in Seq(Frame),
         Thinned(Inbound', Inbound) \/ \E f : f.type = "data" /\ Grown(Inbound', Inbound, f)
  PROVE  CalmOK'
<1>0. OwnAnswer /\ session'.pending = session.pending
  BY DEF CalmOK, SameSession
<1>1. /\ OwnAnswer' /\ (HandsAnswer' => HandsAnswer) /\ (QueuesAnswer' => QueuesAnswer)
      /\ Answering' <=> Answering
  BY <1>0, AnswersStay
<1>2. PICK e \in [Acks(Inbound') -> Acks(Inbound)] :
           \A i \in Acks(Inbound') :
             /\ Inbound'[i] = Inbound[e[i]]
             /\ \A j \in Acks(Inbound') : e[i] = e[j] => i = j
             /\ \A j \in Data(Inbound') : j < i =>
                  \E l \in Data(Inbound) : l < e[i] /\ Inbound[l] = Inbound'[j]
  BY OneConfirmation
<1>3. Acks(Inbound) = {} => Acks(Inbound') = {}
  BY <1>2
<1>4. Requests'
  <2>1. PICK d \in [Data(net'.toDev) -> Data(net.toDev)] :
           \A i \in Data(net'.toDev) : /\ net'.toDev[i] = net.toDev[d[i]]
                                       /\ \A j \in Data(net'.toDev) : d[i] = d[j] => i = j
    BY OneRequest
  <2>2. ASSUME NEW i \in Data(net'.toDev)
        PROVE  /\ \E c \in Callers : Waits(c)' /\ net'.toDev[i] = RequestFrame(c)' /\ dev'.last # caller'[c].reg
               /\ \A j \in Data(net'.toDev) : j = i
               /\ Acks(Inbound') = {} /\ session'.hasAck = None
               /\ ~HandsAnswer' /\ ~QueuesAnswer' /\ ~Answering'
    <3>1. /\ \E c \in Callers : Waits(c) /\ net.toDev[d[i]] = RequestFrame(c) /\ dev.last # caller[c].reg
          /\ \A j \in Data(net.toDev) : j = d[i]
          /\ Acks(Inbound) = {} /\ session.hasAck = None
          /\ ~HandsAnswer /\ ~QueuesAnswer /\ ~Answering
      BY <2>1 DEF CalmOK, Requests
    <3>2. \E c \in Callers : Waits(c)' /\ net'.toDev[i] = RequestFrame(c)' /\ dev'.last # caller'[c].reg
      BY <2>1, <3>1, WaitersStay DEF SameCalls, RequestFrame, Waits, Waiting
    <3>3. \A j \in Data(net'.toDev) : j = i
      BY <2>1, <3>1
    <3>4. QED
      BY <1>1, <1>3, <3>1, <3>2, <3>3 DEF SameSession
  <2>3. QED
    BY <2>2 DEF Requests
<1>5. Confirmations'
  <2>1. ASSUME NEW i \in Acks(Inbound')
        PROVE  /\ \E c \in Callers : /\ Waits(c)' /\ Inbound'[i].call = caller'[c].call
                                     /\ Inbound'[i].seq = 1 - caller'[c].reg /\ dev'.last = caller'[c].reg
               /\ \A j \in Acks(Inbound') : j = i
               /\ session'.hasAck = None /\ ~Answering' /\ ~HandsAnswer'
               /\ \A j \in Data(Inbound') : j < i => ~Answer(Inbound[j])'
    <3>1. /\ \E c \in Callers : /\ Waits(c) /\ Inbound[e[i]].call = caller[c].call
                                /\ Inbound[e[i]].seq = 1 - caller[c].reg /\ dev.last = caller[c].reg
          /\ \A j \in Acks(Inbound) : j = e[i]
          /\ session.hasAck = None /\ ~Answering /\ ~HandsAnswer
          /\ \A j \in Data(Inbound) : j < e[i] => ~Answer(Inbound[j])
      BY <1>2 DEF CalmOK, Confirmations
    <3>2. \E c \in Callers : /\ Waits(c)' /\ Inbound'[i].call = caller'[c].call
                             /\ Inbound'[i].seq = 1 - caller'[c].reg /\ dev'.last = caller'[c].reg
      BY <1>2, <3>1, WaitersStay DEF SameCalls, Waits, Waiting
    <3>3. \A j \in Acks(Inbound') : j = i
      BY <1>2, <3>1
    <3>4. ASSUME NEW j \in Data(Inbound'), j < i PROVE ~Answer(Inbound[j])'
      <4>1. PICK l \in Data(Inbound) : l < e[i] /\ Inbound[l] = Inbound'[j]
        BY <1>2, <3>4
      <4>2. ~Answer(Inbound[l]) /\ Inbound[l] \in Frame
        BY <3>1, <4>1, Channels DEF Data
      <4>3. PICK m \in Frame : m = Inbound[l]
        BY <4>2
      <4>4. ~Answer(m)'
        BY <4>2, <4>3 DEF FewerAnswers
      <4>5. QED
        BY <4>1, <4>3, <4>4 DEF Answer
    <3>5. QED
      BY <1>1, <3>1, <3>2, <3>3, <3>4 DEF SameSession
  <2>2. QED
    BY <2>1 DEF Confirmations
<1>6. Confirmation'
  BY WaitersStay DEF CalmOK, Confirmation, SameCalls, SameSession, Waits, Waiting
<1>7. Registered'
  BY WaitersStay DEF CalmOK, Registered, SameCalls, SameSession, Waiting
<1>8. NextBit'
  BY WaitersStay DEF CalmOK, NextBit, SameCalls, SameSession, Waiting
<1>9. QED
  BY <1>1, <1>4, <1>5, <1>6, <1>7, <1>8 DEF CalmOK

LEMMA InboundAfter == ASSUME TypeInv' PROVE Inbound' \in Seq(Frame)
<1>1. reader'.batch \in Seq(Frame) /\ net'.toHost \in Seq(Frame)
  BY DEF TypeInv, TypeOK, WireOK, ThreadsOK
<1> DEFINE b == reader'.batch
           t == net'.toHost
<1>2. b \in Seq(Frame) /\ t \in Seq(Frame) /\ Inbound' = b \o t
  BY <1>1 DEF Inbound
<1> HIDE DEF b, t
<1>3. QED
  BY <1>2

\* The headset's queue as it is, or without its head.
LEMMA QueueStays ==
  ASSUME TypeInv, Decided' = Decided \/ Decided' = Decided + 1,
         dev'.queue = dev.queue \/ (dev.queue # <<>> /\ dev'.queue = Tail(dev.queue)),
         HandsAnswer' => (HandsAnswer /\ Current' = Current)
  PROVE  FewerAnswers
<1>1. Decided \in Nat /\ dev.queue \in Seq(Message)
  BY CountTypes DEF Decided
<1>2. \A m \in Message \cup Frame : Answer(m)' => Answer(m)
  BY <1>1 DEF Answer, Message, Frame
<1>3. \A j \in DOMAIN dev'.queue : \E k \in DOMAIN dev.queue : dev.queue[k] = dev'.queue[j]
  <2>1. CASE dev'.queue = dev.queue
    BY <2>1
  <2>2. CASE dev.queue # <<>> /\ dev'.queue = Tail(dev.queue)
    <3>1. \A j \in DOMAIN dev'.queue : j + 1 \in DOMAIN dev.queue /\ dev.queue[j + 1] = dev'.queue[j]
      BY <1>1, <2>2
    <3>2. QED
      BY <3>1
  <2>3. QED
    BY <2>1, <2>2
<1>4. ASSUME NEW j \in DOMAIN dev'.queue, Answer(dev.queue[j])'
      PROVE  \E k \in DOMAIN dev.queue : dev.queue[k] = dev'.queue[j] /\ Answer(dev.queue[k])
  <2>1. PICK k \in DOMAIN dev.queue : dev.queue[k] = dev'.queue[j]
    BY <1>3
  <2>2. PICK m \in Message : m = dev.queue[k]
    BY <1>1
  <2>3. Answer(m)'
    BY <1>4, <2>1, <2>2 DEF Answer
  <2>4. Answer(m)
    BY <1>2, <2>3
  <2>5. QED
    BY <2>1, <2>2, <2>4
<1>5. QED
  BY <1>2, <1>4 DEF FewerAnswers

-----------------------------------------------------------------------------
(* The reader's steps that decide nothing. *)

LEMMA CalmMoves ==
  ASSUME TypeInv, TypeInv', Phases, CalmOK, SameCalls,
         Receive \/ StopReceiving \/ ReaderStops \/ ReaderNotifies
  PROVE  CalmOK'
<1>1. /\ UNCHANGED <<dev, passed>> /\ net'.toDev = net.toDev
      /\ reader.pc \in {"receive", "exit", "bye"} /\ reader'.pc \in {"frame", "exit", "bye", "done"}
  BY DEF Receive, StopReceiving, ReaderStops, ReaderNotifies, ReaderAt, history, TypeInv, TypeOK, WireOK, ThreadsOK
<1>2. SameSession /\ session'.unmatched = session.unmatched
  BY DEF Receive, StopReceiving, ReaderStops, ReaderNotifies, SameSession, TypeInv, TypeOK, SessionOK
<1>3. Thinned(Inbound', Inbound)
  <2>1. CASE Receive
    BY <2>1, InboundReceive
  <2>2. CASE StopReceiving \/ ReaderStops \/ ReaderNotifies
    <3>1. Inbound' = Inbound
      BY <2>2 DEF Inbound, StopReceiving, ReaderStops, ReaderNotifies, ReaderAt, TypeInv, TypeOK, ThreadsOK
    <3>2. QED
      BY <3>1, Channels, ThinSelf
  <2>3. QED
    BY <2>1, <2>2
<1>4. Decided' = Decided /\ ~HandsAnswer'
  BY <1>1 DEF Decided, HandsAnswer
<1>5. FewerAnswers
  BY <1>1, <1>4, QueueStays
<1>6. Thinned(net'.toDev, net.toDev)
  BY <1>1, Channels, ThinSelf
<1>7. \A i \in DOMAIN session'.unmatched : session'.unmatched[i].op = Notice
  BY <1>2 DEF CalmOK, Registered
<1>8. QED
  BY <1>1, <1>2, <1>3, <1>5, <1>6, <1>7, InboundAfter, CalmStays

LEMMA CalmDone ==
  ASSUME TypeInv, TypeInv', CalmOK, SameCalls, DropDuplicate \/ Dispatch
  PROVE  CalmOK'
<1>1. /\ reader.pc \in {"acked", "dispatch"} /\ reader.pc \in Busy /\ NextFrame /\ UNCHANGED <<dev, net, session>>
  BY DEF DropDuplicate, Dispatch, Busy
<1>2. reader'.pc \in {"frame", "receive", "exit"} /\ Thinned(Inbound', Inbound)
  BY <1>1, Advance, InboundNext
<1>3. Len(passed) \in Nat
  BY CountTypes
<1>4. Decided' = Decided /\ ~HandsAnswer'
  <2>1. CASE DropDuplicate
    BY <1>2, <2>1 DEF DropDuplicate, history, Decided, HandsAnswer
  <2>2. CASE Dispatch
    <3>1. Len(passed') = Len(passed) + 1
      <4>1. \E p : passed' = Append(passed, p)
        BY <2>2 DEF Dispatch, Passes
      <4>2. QED
        BY <4>1 DEF TypeInv, TypeOK, HistoryOK
    <3>2. QED
      BY <1>2, <1>3, <2>2, <3>1 DEF Decided, HandsAnswer, Dispatch
  <2>3. QED
    BY <2>1, <2>2
<1>5. FewerAnswers
  BY <1>1, <1>4, QueueStays
<1>6. Thinned(net'.toDev, net.toDev) /\ SameSession
  BY <1>1, Channels, ThinSelf DEF SameSession
<1>7. \A i \in DOMAIN session'.unmatched : session'.unmatched[i].op = Notice
  BY <1>1 DEF CalmOK, Registered
<1>8. QED
  BY <1>1, <1>2, <1>5, <1>6, <1>7, InboundAfter, CalmStays

\* What is kept is a notification: an answer would find its request waiting.
LEMMA CalmTakes ==
  ASSUME TypeInv, TypeInv', BitOK, CalmOK, SameCalls, RememberSequence \/ KeepUnmatched
  PROVE  CalmOK'
<1>1. /\ UNCHANGED <<dev, net, passed>> /\ SameSession
  BY DEF RememberSequence, KeepUnmatched, history, SameSession, TypeInv, TypeOK, SessionOK
<1>2. reader'.batch = reader.batch
  BY DEF RememberSequence, KeepUnmatched, ReaderAt, TypeInv, TypeOK, ThreadsOK
<1>3. Current' = Current /\ Inbound' = Inbound
  BY <1>1, <1>2 DEF Current, Inbound
<1>4. Thinned(Inbound', Inbound) /\ Thinned(net'.toDev, net.toDev)
  BY <1>1, <1>3, Channels, ThinSelf
<1>5. Len(passed) \in Nat /\ reader.pc \in Busy /\ Current \in Frame
  BY CountTypes, CurrentType DEF RememberSequence, KeepUnmatched, ReaderAt, Busy
<1>6. CASE RememberSequence
  <2>1. reader.pc = "acked" /\ reader'.pc = "fresh"
    BY <1>6 DEF RememberSequence, ReaderAt, TypeInv, TypeOK, ThreadsOK
  <2>2. Decided' = Decided
    BY <1>1, <2>1 DEF Decided
  <2>3. HandsAnswer' => (HandsAnswer /\ Current' = Current)
    BY <1>3, <2>1, <2>2 DEF HandsAnswer, Answer
  <2>4. FewerAnswers
    BY <1>1, <2>2, <2>3, QueueStays
  <2>5. \A i \in DOMAIN session'.unmatched : session'.unmatched[i].op = Notice
    BY <1>6 DEF RememberSequence, CalmOK, Registered, TypeInv, TypeOK, SessionOK
  <2>6. QED
    BY <1>1, <1>4, <2>4, <2>5, InboundAfter, CalmStays
<1>7. CASE KeepUnmatched
  <2>1. reader.pc = "fresh" /\ reader'.pc = "dispatch" /\ ~Answers(Current)
    BY <1>7 DEF KeepUnmatched, ReaderAt, TypeInv, TypeOK, ThreadsOK
  <2>2. Decided' = Decided + 1 /\ ~HandsAnswer' /\ Decided = Len(passed)
    BY <1>1, <1>5, <2>1 DEF Decided, HandsAnswer
  <2>3. FewerAnswers
    BY <1>1, <2>2, QueueStays
  <2>4. Current.op = Notice
    <3>1. Current.id = Decided + 1
      BY <1>5, <2>1, <2>2 DEF BitOK, HandOK, Received, Accepted
    <3>2. Current.op # Notice => HandsAnswer
      BY <1>5, <2>1, <2>2, <3>1 DEF HandsAnswer, Answer
    <3>3. HandsAnswer => Answers(Current)
      BY DEF CalmOK, OwnAnswer, Asked, Answers
    <3>4. QED
      BY <2>1, <3>2, <3>3
  <2>5. session'.unmatched = Capped(Append(session.unmatched, Current))
    BY <1>7 DEF KeepUnmatched, TypeInv, TypeOK, SessionOK
  <2> DEFINE u == session.unmatched
             f == Current
             t == Append(u, f)
  <2>6. u \in Seq(Frame) /\ f \in Frame /\ f.op = Notice /\ \A i \in DOMAIN u : u[i].op = Notice
    BY <1>5, <2>4 DEF TypeInv, TypeOK, SessionOK, CalmOK, Registered
  <2> HIDE DEF u, f
  <2>7. t \in Seq(Frame) /\ t # <<>> /\ \A i \in DOMAIN t : t[i] = f \/ (i \in DOMAIN u /\ t[i] = u[i])
    <3>1. t \in Seq(Frame) /\ Grown(t, u, f)
      BY <2>6, Pieces, GrowAppend
    <3>2. t # <<>>
      BY <2>6, <3>1 DEF Grown
    <3>3. QED
      BY <3>1, <3>2 DEF Grown
  <2>8. \A i \in DOMAIN t : t[i].op = Notice
    BY <2>6, <2>7
  <2>9. \A i \in DOMAIN Tail(t) : i + 1 \in DOMAIN t /\ Tail(t)[i] = t[i + 1]
    BY <2>7
  <2>10. Capped(t) = t \/ Capped(t) = Tail(t)
    BY DEF Capped
  <2>11. \A i \in DOMAIN Capped(t) : Capped(t)[i].op = Notice
    BY <2>8, <2>9, <2>10
  <2>12. \A i \in DOMAIN session'.unmatched : session'.unmatched[i].op = Notice
    BY <2>5, <2>11 DEF u, f
  <2>13. QED
    BY <1>1, <1>4, <2>3, <2>12, InboundAfter, CalmStays
<1>8. QED
  BY <1>6, <1>7

-----------------------------------------------------------------------------
(* The reader's steps that decide something. *)

\* The waiting caller's ACK: it is on its way no longer, and the counter is
\* that of the next request.
LEMMA CalmHandleAck ==
  ASSUME TypeInv, TypeInv', MutualExclusion, CalmOK, SameCalls, HandleAck
  PROVE  CalmOK'
<1>1. /\ reader.pc = "frame" /\ reader.pc \in Busy /\ NextFrame /\ UNCHANGED <<sendMtx, dev, net, passed>>
      /\ Current.type = "ack" /\ session'.hasAck = Current.call
      /\ session'.sequence = IF Current.seq <= 1 THEN Current.seq ELSE session.sequence
      /\ session'.pending = session.pending /\ session'.unmatched = session.unmatched
  BY DEF HandleAck, Busy, history, TypeInv, TypeOK, SessionOK
<1>2. reader'.pc \in {"frame", "receive", "exit"}
  BY <1>1, Advance
<1>3. \A i \in DOMAIN Inbound' : i + 1 \in DOMAIN Inbound /\ Inbound'[i] = Inbound[i + 1]
  BY <1>1, InboundNext
<1>4. 1 \in Acks(Inbound) /\ Inbound[1] = Current
  BY <1>1, Channels DEF Acks
<1>5. /\ \A j \in Acks(Inbound) : j = 1
      /\ session.hasAck = None /\ ~Answering /\ ~HandsAnswer
  BY <1>4 DEF CalmOK, Confirmations
<1>6. PICK c \in Callers : /\ Waits(c) /\ Current.call = caller[c].call
                           /\ Current.seq = 1 - caller[c].reg /\ dev.last = caller[c].reg
  BY <1>4 DEF CalmOK, Confirmations
<1>7. Waits(c)' /\ caller'[c].call = caller[c].call /\ caller'[c].reg = caller[c].reg
  BY <1>6, WaitersStay DEF SameCalls, Waits, Waiting
<1>8. caller[c].reg \in {0, 1}
  BY <1>6 DEF CalmOK, NextBit, Waits
<1>9. session'.sequence = 1 - caller[c].reg /\ session'.sequence % 2 = 1 - caller[c].reg
  BY <1>1, <1>6, <1>8
<1>10. Acks(Inbound') = {}
  <2>1. ASSUME NEW i \in Acks(Inbound') PROVE FALSE
    <3>1. i \in Nat /\ i \in DOMAIN Inbound' /\ i # 0
      BY InboundAfter DEF Acks
    <3>2. i + 1 \in Acks(Inbound)
      BY <1>3, <2>1, <3>1 DEF Acks
    <3>3. QED
      BY <1>5, <3>1, <3>2
  <2>2. QED
    BY <2>1
<1>11. Data(net.toDev) = {}
  BY <1>4 DEF CalmOK, Requests
<1>12. Requests' /\ Confirmations'
  BY <1>1, <1>10, <1>11 DEF Requests, Confirmations
<1>13. Confirmation'
  BY <1>1, <1>6, <1>7 DEF Confirmation
<1>14. OwnAnswer'
  <2>1. Decided' = Decided /\ ~HandsAnswer'
    BY <1>1, <1>2 DEF Decided, HandsAnswer
  <2>2. FewerAnswers
    BY <1>1, <2>1, QueueStays
  <2>3. QED
    BY <1>1, <2>2, AnswersStay DEF CalmOK
<1>15. Registered'
  BY <1>1, WaitersStay DEF CalmOK, Registered, SameCalls, Waiting
<1>16. NextBit'
  <2>1. \A k \in Callers : caller[k].pc \in Holding => k = c
    BY <1>6 DEF MutualExclusion, Waits
  <2>2. \A k \in Callers : caller'[k].pc \in Waiting \cup {"arm", "write", "store"} => k = c
    BY <2>1, WaitersStay DEF Waiting, Holding, SameCalls
  <2>3. caller'[c].pc \in Waiting /\ caller'[c].pc \notin {"arm", "write", "store"}
    BY <1>7 DEF Waits, Waiting
  <2>4. QED
    BY <1>7, <1>8, <1>9, <2>2, <2>3 DEF NextBit
<1>17. QED
  BY <1>12, <1>13, <1>14, <1>15, <1>16 DEF CalmOK

\* The answer reaches the request that waits for it.
LEMMA CalmMatch ==
  ASSUME TypeInv, TypeInv', BitOK, CalmOK, SameCalls, MatchRequest
  PROVE  CalmOK'
<1>1. /\ reader.pc = "fresh" /\ reader.pc \in Busy /\ NextFrame /\ UNCHANGED <<sendMtx, dev, net>>
      /\ Answers(Current) /\ Passes(Current, "request") /\ "request" \in Routes
      /\ session'.hasAck = session.hasAck /\ session'.sequence = session.sequence
      /\ session'.unmatched = session.unmatched
      /\ session'.pending = [session.pending EXCEPT !.response = Current]
  BY DEF MatchRequest, Busy, TypeInv, TypeOK, SessionOK, Routes
<1>2. reader'.pc \in {"frame", "receive", "exit"} /\ Thinned(Inbound', Inbound)
  BY <1>1, Advance, InboundNext
<1>3. Len(passed) \in Nat /\ Current \in Frame /\ Current # None
  <2>1. Current \in Frame
    BY <1>1, CurrentType
  <2>3. Current # None
    BY <2>1, NoneAssumption
  <2>4. QED
    BY <2>1, <2>3, CountTypes
<1>4. Decided = Len(passed) /\ Decided' = Decided + 1 /\ ~HandsAnswer'
  <2>1. Len(passed') = Len(passed) + 1
    BY <1>1, PassedInOrder
  <2>2. QED
    BY <1>1, <1>2, <2>1 DEF Decided, HandsAnswer
<1>5. Current.id = Decided + 1
  BY <1>1, <1>3, <1>4 DEF BitOK, HandOK, Received, Accepted
<1>6. session.pending \in Request /\ Current.op = session.pending.op /\ session.pending.response = None
  BY <1>1 DEF Answers, TypeInv, TypeOK, SessionOK
<1>7. Current.op # Notice
  BY <1>6, SessionAssumption DEF SessionAssumption, Request
<1>8. HandsAnswer
  BY <1>1, <1>4, <1>5, <1>7, <1>3 DEF HandsAnswer, Answer
<1>9. Asked(Current) /\ \A k \in DOMAIN dev.queue : Answer(dev.queue[k]) => dev.queue[k].id = Current.id
  BY <1>8 DEF CalmOK, OwnAnswer
<1>10. PICK c \in Callers : Waits(c) /\ caller[c].op # None /\ dev.last = caller[c].reg
  BY <1>9 DEF Asked
<1>11. Waits(c)' /\ caller'[c].op = caller[c].op /\ caller'[c].reg = caller[c].reg
  BY <1>10, WaitersStay DEF SameCalls, Waits, Waiting
<1>12. ~QueuesAnswer'
  <2>1. ASSUME NEW k \in DOMAIN dev.queue, Answer(dev.queue[k])' PROVE FALSE
    <3>1. dev'.queue[k] = dev.queue[k] /\ dev.queue[k] \in Message /\ Decided \in Nat
      BY <1>1, <1>3, <1>4, CountTypes
    <3>2. dev.queue[k].id > Decided + 1 /\ dev.queue[k].op # Notice /\ dev.queue[k].id \in Nat
      BY <1>4, <2>1, <3>1 DEF Answer, Message
    <3>3. Answer(dev.queue[k])
      BY <3>1, <3>2 DEF Answer
    <3>4. QED
      BY <1>5, <1>9, <3>1, <3>2, <3>3
  <2>2. QED
    BY <1>1, <2>1 DEF QueuesAnswer
<1>13. session'.pending # None /\ session'.pending.response = Current
       /\ session'.pending.call = session.pending.call /\ session'.pending.op = session.pending.op
  <2>1. session'.pending \in Request
    BY <1>1, <1>3, <1>6 DEF Request
  <2>2. session'.pending # None
    BY <2>1, NoneAssumption
  <2>3. QED
    BY <1>1, <1>6, <2>2 DEF Request
<1>14. OwnAnswer'
  <2>1. session'.pending.response.call = session'.pending.call
    BY <1>9, <1>13 DEF Asked
  <2>2. \E k \in Callers : Waits(k)' /\ dev'.last = caller'[k].reg
    BY <1>1, <1>10, <1>11
  <2>3. QED
    BY <1>4, <1>12, <2>1, <2>2 DEF OwnAnswer, QueuesAnswer
<1>15. Data(net.toDev) = {} /\ Acks(Inbound) = {}
  BY <1>8 DEF CalmOK, Requests, Confirmations
<1>16. Acks(Inbound') = {}
  BY <1>2, <1>15 DEF Thinned, Acks
<1>17. Requests' /\ Confirmations'
  BY <1>1, <1>15, <1>16 DEF Requests, Confirmations
<1>18. Confirmation'
  BY <1>1, WaitersStay DEF CalmOK, Confirmation, SameCalls, Waits, Waiting
<1>19. Registered'
  BY <1>1, <1>6, <1>9, <1>13, WaitersStay DEF CalmOK, Registered, SameCalls, Waiting, Asked
<1>20. NextBit'
  BY <1>1, WaitersStay DEF CalmOK, NextBit, SameCalls, Waiting
<1>21. QED
  BY <1>14, <1>17, <1>18, <1>19, <1>20 DEF CalmOK

\* With no answer in the queue or in hand, none is on its way.
LEMMA NoAnswer ==
  ASSUME TypeInv, BitOK, ~HandsAnswer, ~QueuesAnswer, NEW j \in Data(Inbound)
  PROVE  ~Answer(Inbound[j])
<1> DEFINE f == Inbound[j]
<1>1. FrameOK(f) /\ f \in Frame
  BY Channels DEF BitOK, Frames, Data
<1>2. /\ Confirmed \in Nat /\ Received \in Nat /\ Len(passed) \in Nat /\ f.id \in Nat
      /\ Decided \in Nat /\ Confirmed <= Received
  BY <1>1, CountTypes DEF BitOK, Counts, Decided, Frame
<1>3. SUFFICES ASSUME Answer(f) PROVE FALSE
  OBVIOUS
<1>4. Received <= f.id /\ f.id <= Confirmed + 1 /\ f.id > Decided /\ f.op # Notice
  BY <1>1, <1>2, <1>3 DEF FrameOK, Answer
<1>5. CASE f.id = Confirmed + 1
  <2>1. dev.sent
    BY <1>1, <1>2, <1>5 DEF FrameOK
  <2>2. dev.queue \in Seq(Message) /\ dev.queue # <<>>
    BY <2>1, CountTypes DEF TypeInv, InFlight
  <2>3. 1 \in DOMAIN dev.queue /\ Head(dev.queue) = dev.queue[1]
    BY <2>2
  <2>4. dev.queue[1].id = f.id /\ dev.queue[1].op = f.op
    BY <1>1, <1>5, <2>3 DEF FrameOK, BitOK, Counts
  <2>5. Answer(dev.queue[1])
    BY <1>4, <2>4 DEF Answer
  <2>6. QED
    BY <2>3, <2>5 DEF QueuesAnswer
<1>6. CASE f.id # Confirmed + 1
  <2>1. f.id = Received /\ Received > Decided
    BY <1>2, <1>4, <1>6
  <2>2. reader.pc \in {"acked", "fresh"}
    <3>1. CASE reader.pc = "dispatch"
      BY <1>2, <2>1, <3>1 DEF Received, Accepted, Decided
    <3>2. CASE reader.pc \notin {"acked", "fresh", "dispatch"}
      <4>1. Accepted = Len(passed) /\ Decided = Len(passed)
        BY <1>2, <3>2 DEF Accepted, Decided
      <4>2. Received = Accepted
        BY <1>2, <3>2, <4>1 DEF Received
      <4>3. QED
        BY <1>2, <2>1, <4>1, <4>2
    <3>3. QED
      BY <3>1, <3>2
  <2>3. Current.id = Received /\ 1 \in Data(Inbound) /\ Inbound[1] = Current
    BY <2>2, Channels DEF BitOK, HandOK, Busy, Data
  <2>4. j \in Nat \ {0}
    BY Channels DEF Data
  <2>5. Current.op = f.op
    <3>1. CASE j = 1
      BY <2>3, <3>1
    <3>2. CASE 1 < j
      BY <2>1, <2>3, <3>2 DEF BitOK, Frames, Follows
    <3>3. QED
      BY <2>4, <3>1, <3>2
  <2>6. Answer(Current)
    BY <1>4, <2>1, <2>3, <2>5 DEF Answer
  <2>7. QED
    BY <2>2, <2>6 DEF HandsAnswer
<1>7. QED
  BY <1>5, <1>6

\* An answer in the reader's hands is the one the headset repeats, and the
\* ACK of its request came before it.
LEMMA CalmAckData ==
  ASSUME TypeInv, TypeInv', BitOK, CalmOK, SameCalls, AckData
  PROVE  CalmOK'
<1>1. /\ reader.pc = "frame" /\ reader'.pc = "acked" /\ reader'.batch = reader.batch
      /\ Current.type = "data" /\ UNCHANGED <<dev, passed>>
      /\ net'.toHost = net.toHost
      /\ net'.toDev = net.toDev \/ net'.toDev = Append(net.toDev, HostAck(Current))
      /\ SameSession /\ session'.unmatched = session.unmatched
  BY DEF AckData, ReaderAt, history, TypeInv, TypeOK, ThreadsOK, SessionOK, WireOK, SameSession
<1>2. /\ Current' = Current /\ Inbound' = Inbound /\ Decided' = Decided
      /\ Decided = Len(passed) /\ Len(passed) \in Nat
  BY <1>1, CountTypes DEF Current, Inbound, Decided
<1>3. Thinned(net'.toDev, net.toDev) \/ \E f : f.type = "ack" /\ Grown(net'.toDev, net.toDev, f)
  <2>1. CASE net'.toDev = net.toDev
    BY <2>1, Channels, ThinSelf
  <2>2. CASE net'.toDev = Append(net.toDev, HostAck(Current))
    <3>1. HostAck(Current) \in Frame /\ HostAck(Current).type = "ack"
      <4>1. Current \in Frame
        BY <1>1, CurrentType DEF Busy
      <4>2. QED
        BY <4>1, Moduli DEF HostAck, Frame
    <3>2. Grown(net'.toDev, net.toDev, HostAck(Current))
      BY <2>2, <3>1, Channels, GrowAppend
    <3>3. QED
      BY <3>1, <3>2
  <2>3. QED
    BY <1>1, <2>1, <2>2
<1>4. Thinned(Inbound', Inbound)
  BY <1>2, Channels, ThinSelf
<1>5. \A i \in DOMAIN session'.unmatched : session'.unmatched[i].op = Notice
  BY <1>1 DEF CalmOK, Registered
<1>6. CASE ~Answer(Current)
  <2>1. ~HandsAnswer'
    BY <1>2, <1>6 DEF HandsAnswer, Answer
  <2>2. FewerAnswers
    BY <1>1, <1>2, <2>1, QueueStays
  <2>3. QED
    BY <1>1, <1>3, <1>4, <1>5, <2>2, InboundAfter, CalmStays
<1>7. CASE Answer(Current)
  <2>1. /\ FrameOK(Current) /\ Current.id \in {Received, Received + 1} /\ Received = Len(passed)
    BY <1>1, Verdict
  <2>2. Current.id = Confirmed + 1 /\ dev.sent
    <3>1. Confirmed \in Nat /\ Confirmed <= Received /\ Current.id \in Nat
      BY <2>1 DEF BitOK, Counts, FrameOK
    <3>2. Current.id <= Confirmed + IF dev.sent THEN 1 ELSE 0
      BY <2>1 DEF FrameOK
    <3>3. Current.id = Received + 1
      BY <1>2, <1>7, <2>1 DEF Answer
    <3>4. QED
      BY <1>2, <2>1, <3>1, <3>2, <3>3
  <2>3. dev.queue \in Seq(Message) /\ dev.queue # <<>>
    BY <2>2, CountTypes DEF TypeInv, InFlight
  <2>4. 1 \in DOMAIN dev.queue /\ Head(dev.queue) = dev.queue[1]
    BY <2>3
  <2>5. dev.queue[1].id = Current.id /\ dev.queue[1].op = Current.op /\ dev.queue[1].call = Current.call
    BY <2>1, <2>2, <2>4 DEF FrameOK, BitOK, Counts
  <2>6. Answer(dev.queue[1])
    BY <1>7, <2>5 DEF Answer
  <2>7. /\ Asked(dev.queue[1])
        /\ \A k \in DOMAIN dev.queue : Answer(dev.queue[k]) => dev.queue[k].id = Current.id
    BY <2>4, <2>5, <2>6 DEF CalmOK, OwnAnswer
  <2>8. Asked(Current)'
    <3>1. Asked(Current)
      BY <2>5, <2>7 DEF Asked
    <3>2. PICK m : m = Current
      OBVIOUS
    <3>3. Asked(m)'
      BY <1>1, <3>1, <3>2, AskedStays DEF SameSession
    <3>4. QED
      BY <1>2, <3>2, <3>3 DEF Asked
  <2>9. QueuesAnswer /\ ~Answering
    BY <2>4, <2>6, <2>7 DEF QueuesAnswer, Asked, Answering
  <2>10. Data(net'.toDev) = {} /\ Acks(Inbound') = {}
    <3>1. Data(net.toDev) = {}
      BY <2>9 DEF CalmOK, Requests
    <3>2. Data(net'.toDev) = {}
      BY <1>3, <3>1 DEF Thinned, Grown, Data
    <3>3. 1 \in Data(Inbound) /\ Inbound[1] = Current
      BY <1>1, Channels DEF Busy, Data
    <3>4. ASSUME NEW i \in Acks(Inbound) PROVE FALSE
      <4>1. i \in Nat \ {0} /\ i # 1
        BY <3>3, Channels DEF Acks, Data
      <4>2. 1 < i
        BY <4>1
      <4>3. QED
        BY <1>7, <3>3, <4>2 DEF CalmOK, Confirmations
    <3>5. QED
      BY <1>2, <3>2, <3>4
  <2>12. OwnAnswer'
    <3>1. \A j \in DOMAIN dev.queue : Answer(dev.queue[j])' => Asked(dev.queue[j])' /\
             \A k \in DOMAIN dev.queue : Answer(dev.queue[k])' => dev'.queue[k].id = dev'.queue[j].id
      <4>1. ASSUME NEW j \in DOMAIN dev.queue, Answer(dev.queue[j])'
            PROVE  /\ Asked(dev.queue[j])'
                   /\ \A k \in DOMAIN dev.queue : Answer(dev.queue[k])' => dev'.queue[k].id = dev'.queue[j].id
        <5>1. PICK m : m = dev.queue[j]
          OBVIOUS
        <5>2. Answer(dev.queue[j]) /\ Asked(m)
          BY <1>1, <1>2, <4>1, <5>1 DEF Answer, CalmOK, OwnAnswer
        <5>3. Asked(m)'
          BY <1>1, <5>2, AskedStays DEF SameSession
        <5>4. Asked(dev.queue[j])'
          BY <1>1, <5>1, <5>3 DEF Asked
        <5>5. \A k \in DOMAIN dev.queue : Answer(dev.queue[k])' => Answer(dev.queue[k])
          BY <1>1, <1>2 DEF Answer
        <5>6. QED
          BY <1>1, <5>2, <5>4, <5>5 DEF CalmOK, OwnAnswer
      <4>2. QED
        BY <4>1
    <3>2. /\ Asked(Current)'
          /\ \A k \in DOMAIN dev.queue : Answer(dev.queue[k])' => dev'.queue[k].id = Current'.id
      <4>1. \A k \in DOMAIN dev.queue : Answer(dev.queue[k])' => Answer(dev.queue[k])
        BY <1>1, <1>2 DEF Answer
      <4>2. QED
        BY <1>1, <1>2, <2>7, <2>8, <4>1
    <3>3. ~Answering'
      BY <1>1, <2>9 DEF Answering, SameSession
    <3>4. QED
      BY <1>1, <3>1, <3>2, <3>3 DEF OwnAnswer
  <2>13. Requests' /\ Confirmations'
    BY <2>10 DEF Requests, Confirmations
  <2>14. Confirmation'
    BY <1>1, WaitersStay DEF CalmOK, Confirmation, SameCalls, SameSession, Waits, Waiting
  <2>15. Registered'
    BY <1>1, <1>5, WaitersStay DEF CalmOK, Registered, SameCalls, SameSession, Waiting
  <2>16. NextBit'
    BY <1>1, WaitersStay DEF CalmOK, NextBit, SameCalls, SameSession, Waiting
  <2>17. QED
    BY <2>12, <2>13, <2>14, <2>15, <2>16 DEF CalmOK
<1>8. QED
  BY <1>6, <1>7

LEMMA CalmReader ==
  ASSUME TypeInv, TypeInv', Phases, MutualExclusion, BitOK, CalmOK, Reader PROVE CalmOK'
<1>1. SameCalls
  BY CallsStay DEF Others
<1>2. QED
  BY <1>1, CalmMoves, CalmDone, CalmTakes, CalmHandleAck, CalmMatch, CalmAckData DEF Reader

-----------------------------------------------------------------------------
(* The headset and the link. *)

\* The waiting caller's request: its ACK goes out, then its answer.
LEMMA CalmTakesRequest ==
  ASSUME TypeInv, TypeInv', MutualExclusion, BitOK, CalmOK, SameCalls, DeviceTakesRequest
  PROVE  CalmOK'
<1> DEFINE f == Head(net.toDev)
           a == [HostAck(f) EXCEPT !.call = f.call]
           m == [op |-> f.op, call |-> f.call, id |-> dev.made + 1]
<1>1. /\ f = net.toDev[1] /\ 1 \in Data(net.toDev)
      /\ a.type = "ack" /\ a.call = f.call /\ a.seq = 1 - (f.seq % 2)
      /\ Grown(Inbound', Inbound, a) /\ net'.toDev = Tail(net.toDev)
      /\ UNCHANGED <<session, sendMtx, caller, reader, passed>>
      /\ dev'.last = f.seq
      /\ \/ dev'.queue = dev.queue
         \/ f.op # None /\ dev'.queue = Append(dev.queue, m) /\ m \in Message
  BY TakesRequest DEF history
<1>2. m.op = f.op /\ m.call = f.call
  OBVIOUS
<1> HIDE DEF f, a, m
<1>3. /\ \A j \in Data(net.toDev) : j = 1
      /\ Acks(Inbound) = {} /\ session.hasAck = None
      /\ ~HandsAnswer /\ ~QueuesAnswer /\ ~Answering
  BY <1>1 DEF CalmOK, Requests
<1>4. PICK c \in Callers : Waits(c) /\ f = RequestFrame(c)
  BY <1>1 DEF CalmOK, Requests
<1>5. f.seq = caller[c].reg /\ f.op = caller[c].op /\ f.call = caller[c].call
  BY <1>4 DEF RequestFrame
<1>6. caller[c].reg \in {0, 1} /\ caller[c].reg % 2 = caller[c].reg
  BY <1>4 DEF CalmOK, NextBit, Waits
<1>7. Waits(c)' /\ caller' = caller /\ dev'.last = caller[c].reg
  BY <1>1, <1>4, <1>5 DEF Waits
<1>8. Data(net'.toDev) = {}
  <2>1. ASSUME NEW i \in Data(net'.toDev) PROVE FALSE
    <3>1. net.toDev \in Seq(Frame) /\ net.toDev # <<>>
      BY <1>1, Channels DEF Data
    <3>2. i \in Nat \ {0} /\ i + 1 \in Data(net.toDev)
      BY <1>1, <3>1 DEF Data
    <3>3. QED
      BY <1>3, <3>2
  <2>2. QED
    BY <2>1
<1>9. Requests'
  BY <1>8 DEF Requests
<1>10. Current' = Current /\ Decided' = Decided
  BY <1>1 DEF Current, Decided
<1>11. \A i \in Acks(Inbound') : Inbound'[i] = a /\ i \notin DOMAIN Inbound
  BY <1>1, <1>3 DEF Grown, Acks
<1>12. PICK n \in DOMAIN Inbound' :
          /\ Inbound'[n] = a /\ DOMAIN Inbound' = DOMAIN Inbound \cup {n}
          /\ \A i \in DOMAIN Inbound : i < n /\ Inbound'[i] = Inbound[i]
  BY <1>1 DEF Grown
<1>13. \A j \in Data(Inbound') : ~Answer(Inbound[j])'
  <2>1. ASSUME NEW j \in Data(Inbound') PROVE ~Answer(Inbound[j])'
    <3>1. j \in Data(Inbound) /\ Inbound'[j] = Inbound[j]
      BY <1>1, <1>12 DEF Data
    <3>2. ~Answer(Inbound[j])
      BY <1>3, <3>1, NoAnswer
    <3>3. QED
      BY <1>10, <3>1, <3>2 DEF Answer
  <2>2. QED
    BY <2>1
<1>14. ~HandsAnswer' /\ ~Answering'
  BY <1>1, <1>3, <1>10 DEF HandsAnswer, Answering, Answer
<1>15. Confirmations'
  <2>1. ASSUME NEW i \in Acks(Inbound')
        PROVE  /\ \E k \in Callers : /\ Waits(k)' /\ Inbound'[i].call = caller'[k].call
                                     /\ Inbound'[i].seq = 1 - caller'[k].reg /\ dev'.last = caller'[k].reg
               /\ \A j \in Acks(Inbound') : j = i
               /\ session'.hasAck = None
    <3>1. Inbound'[i].call = caller'[c].call /\ Inbound'[i].seq = 1 - caller'[c].reg
      BY <1>1, <1>5, <1>6, <1>7, <1>11
    <3>2. \A j \in Acks(Inbound') : j = n
      BY <1>11, <1>12 DEF Acks
    <3>3. QED
      BY <1>1, <1>3, <1>7, <3>1, <3>2
  <2>2. QED
    BY <1>13, <1>14, <2>1 DEF Confirmations
<1>16. Confirmation'
  BY <1>1, <1>3 DEF Confirmation
<1>17. Registered'
  BY <1>1 DEF CalmOK, Registered
<1>18. NextBit'
  <2>1. \A k \in Callers : caller[k].pc \in Holding => k = c
    BY <1>4 DEF MutualExclusion, Waits
  <2>2. \A k \in Callers : caller[k].pc \notin {"arm", "write"}
    BY <1>4, <2>1 DEF Holding, Waits, Waiting
  <2>3. QED
    BY <1>1, <1>4, <2>2 DEF CalmOK, NextBit, Waits
<1>19. PICK g : g = m
  OBVIOUS
<1>20. f.op # None => Asked(g)'
  <2>1. ASSUME f.op # None PROVE session.pending # None /\ session.pending.response = None
                             /\ session.pending.call = g.call /\ session.pending.op = g.op
    BY <1>2, <1>3, <1>4, <1>5, <1>19, <2>1 DEF CalmOK, Registered, Waits, Answering
  <2>2. QED
    BY <1>1, <1>5, <1>7, <2>1 DEF Asked
<1>21. \A j \in DOMAIN dev'.queue : Answer(dev.queue[j])' => f.op # None /\ dev'.queue[j] = g
  <2>1. CASE dev'.queue = dev.queue
    <3>1. \A j \in DOMAIN dev'.queue : ~Answer(dev.queue[j])'
      BY <1>3, <1>10, <2>1 DEF Answer, QueuesAnswer
    <3>2. QED
      BY <3>1
  <2>2. CASE f.op # None /\ dev'.queue = Append(dev.queue, m) /\ m \in Message
    <3>1. Grown(dev'.queue, dev.queue, g)
      BY <1>19, <2>2, CountTypes, GrowAppend
    <3>2. \A j \in DOMAIN dev'.queue : dev'.queue[j] = g \/ (j \in DOMAIN dev.queue /\ dev'.queue[j] = dev.queue[j])
      BY <3>1 DEF Grown
    <3>3. \A j \in DOMAIN dev.queue : ~Answer(dev.queue[j])
      BY <1>3 DEF QueuesAnswer
    <3>4. QED
      BY <1>10, <2>2, <3>2, <3>3 DEF Answer
  <2>3. QED
    BY <1>1, <2>1, <2>2
<1>22. OwnAnswer'
  <2>1. ASSUME NEW j \in DOMAIN dev'.queue, Answer(dev.queue[j])'
        PROVE  /\ Asked(dev.queue[j])'
               /\ \A k \in DOMAIN dev'.queue : Answer(dev.queue[k])' => dev'.queue[k].id = dev'.queue[j].id
    <3>1. dev'.queue[j] = g /\ Asked(g)'
      BY <1>20, <1>21, <2>1
    <3>2. QED
      BY <1>21, <3>1 DEF Asked
  <2>2. QED
    BY <1>14, <2>1 DEF OwnAnswer
<1>23. QED
  BY <1>9, <1>15, <1>16, <1>17, <1>18, <1>22 DEF CalmOK

LEMMA CalmTakesAck == ASSUME TypeInv, TypeInv', CalmOK, SameCalls, DeviceTakesAck PROVE CalmOK'
<1>1. /\ UNCHANGED <<session, reader, passed>> /\ net.toDev # <<>>
      /\ net'.toDev = Tail(net.toDev) /\ net'.toHost = net.toHost
      /\ \/ dev' = dev
         \/ dev.sent /\ dev' = [dev EXCEPT !.queue = Tail(@), !.sent = FALSE, !.bit = 1 - @]
  BY DEF DeviceTakesAck, history, TypeInv, TypeOK, WireOK
<1>2. /\ dev'.last = dev.last
      /\ dev'.queue = dev.queue \/ (dev.queue # <<>> /\ dev'.queue = Tail(dev.queue))
  BY <1>1, CountTypes DEF Headset, TypeInv, InFlight
<1>3. Inbound' = Inbound /\ Current' = Current /\ Decided' = Decided
  BY <1>1 DEF Inbound, Current, Decided
<1>4. Thinned(Inbound', Inbound) /\ Thinned(net'.toDev, net.toDev)
  BY <1>1, <1>3, Channels, ThinSelf, ThinTail
<1>5. HandsAnswer' => (HandsAnswer /\ Current' = Current)
  BY <1>1, <1>3 DEF HandsAnswer, Answer
<1>6. FewerAnswers
  BY <1>2, <1>3, <1>5, QueueStays
<1>7. SameSession /\ \A i \in DOMAIN session'.unmatched : session'.unmatched[i].op = Notice
  BY <1>1 DEF SameSession, CalmOK, Registered
<1>8. QED
  BY <1>2, <1>4, <1>6, <1>7, InboundAfter, CalmStays

\* What is produced unasked is no answer.
LEMMA CalmNotifies == ASSUME TypeInv, TypeInv', CalmOK, SameCalls, DeviceNotifies PROVE CalmOK'
<1> DEFINE m == [op |-> Notice, call |-> None, id |-> dev.made + 1]
<1>1. UNCHANGED <<session, reader, passed, net>> /\ dev' = Produce(dev, Notice, None)
  BY DEF DeviceNotifies, history
<1>2. /\ m \in Message /\ m.op = Notice /\ dev'.queue = Append(dev.queue, m) /\ dev'.last = dev.last
      /\ dev.queue \in Seq(Message)
  BY <1>1, CountTypes, ProducesFrame, SMTT(20)
<1> HIDE DEF m
<1>3. Inbound' = Inbound /\ Current' = Current /\ Decided' = Decided
  BY <1>1 DEF Inbound, Current, Decided
<1>4. Thinned(Inbound', Inbound) /\ Thinned(net'.toDev, net.toDev)
  BY <1>1, <1>3, Channels, ThinSelf
<1>5. Grown(dev'.queue, dev.queue, m)
  BY <1>2, GrowAppend
<1>6. \A j \in DOMAIN dev'.queue : dev'.queue[j] = m \/ (j \in DOMAIN dev.queue /\ dev'.queue[j] = dev.queue[j])
  BY <1>5 DEF Grown
<1>7. FewerAnswers
  BY <1>1, <1>2, <1>3, <1>6 DEF FewerAnswers, HandsAnswer, Answer
<1>8. SameSession /\ \A i \in DOMAIN session'.unmatched : session'.unmatched[i].op = Notice
  BY <1>1 DEF SameSession, CalmOK, Registered
<1>9. QED
  BY <1>2, <1>4, <1>7, <1>8, InboundAfter, CalmStays

LEMMA CalmLink ==
  ASSUME TypeInv, TypeInv', CalmOK, SameCalls, DeviceSends \/ LoseFrame \/ LinkBreaks PROVE CalmOK'
<1>1. UNCHANGED <<session, reader, passed>> /\ dev'.queue = dev.queue /\ dev'.last = dev.last
  BY CountTypes DEF DeviceSends, LoseFrame, LinkBreaks, history, Headset
<1>2. Current' = Current /\ Decided' = Decided
  BY <1>1 DEF Current, Decided
<1>3. HandsAnswer' => (HandsAnswer /\ Current' = Current)
  BY <1>1, <1>2 DEF HandsAnswer, Answer
<1>4. FewerAnswers
  BY <1>1, <1>2, <1>3, QueueStays
<1>5. SameSession /\ \A i \in DOMAIN session'.unmatched : session'.unmatched[i].op = Notice
  BY <1>1 DEF SameSession, CalmOK, Registered
<1>6. CASE DeviceSends
  <2> DEFINE h == Head(dev.queue)
             f == [type |-> "data", seq |-> dev.bit, op |-> h.op, call |-> h.call, id |-> h.id]
  <2>1. dev.queue # <<>> /\ net'.toDev = net.toDev /\ net'.toHost = Append(net.toHost, f)
    BY <1>6 DEF DeviceSends, TypeInv, TypeOK, WireOK
  <2>2. h \in Message /\ dev.bit \in {0, 1}
    BY <2>1, CountTypes
  <2>3. f \in Frame /\ f.type = "data"
    BY <2>2, Moduli DEF Frame, Message
  <2> HIDE DEF f
  <2>4. Grown(Inbound', Inbound, f) /\ Thinned(net'.toDev, net.toDev)
    BY <1>1, <2>1, <2>3, InboundGrows, Channels, ThinSelf
  <2>5. QED
    BY <1>1, <1>4, <1>5, <2>3, <2>4, InboundAfter, CalmStays
<1>7. CASE LoseFrame \/ LinkBreaks
  <2>1. \/ net'.toDev = net.toDev /\ net'.toHost = net.toHost
        \/ net.toDev # <<>> /\ net'.toDev = Tail(net.toDev) /\ net'.toHost = net.toHost
        \/ net.toHost # <<>> /\ net'.toDev = net.toDev /\ net'.toHost = Tail(net.toHost)
    BY <1>7 DEF LoseFrame, LinkBreaks, TypeInv, TypeOK, WireOK
  <2>2. Thinned(net'.toDev, net.toDev)
    BY <2>1, Channels, ThinSelf, ThinTail
  <2>3. Thinned(Inbound', Inbound)
    <3>1. CASE net'.toHost = net.toHost
      <4>1. Inbound' = Inbound
        BY <1>1, <3>1 DEF Inbound
      <4>2. QED
        BY <4>1, Channels, ThinSelf
    <3>2. CASE net.toHost # <<>> /\ net'.toHost = Tail(net.toHost)
      BY <1>1, <3>2, InboundLoses
    <3>3. QED
      BY <2>1, <3>1, <3>2
  <2>4. QED
    BY <1>1, <1>4, <1>5, <2>2, <2>3, InboundAfter, CalmStays
<1>8. QED
  BY <1>6, <1>7

LEMMA CalmEnvironment ==
  ASSUME TypeInv, TypeInv', MutualExclusion, BitOK, CalmOK, Environment PROVE CalmOK'
<1>1. SameCalls
  BY CallsStay DEF Others
<1>2. QED
  BY <1>1, CalmTakesRequest, CalmTakesAck, CalmNotifies, CalmLink DEF Environment

-----------------------------------------------------------------------------
(* The connection's start. *)

LEMMA CalmSpawn == ASSUME TypeInv, TypeInv', Phases, SpawnReader PROVE CalmOK'
<1>1. /\ Pristine /\ UNCHANGED <<caller, net, dev, passed>>
      /\ session' = [session EXCEPT !.running = TRUE] /\ reader' = [pc |-> "receive", batch |-> <<>>]
  BY DEF SpawnReader, OwnerAt, Phases, Opening, history
<1>2. /\ session'.hasAck = None /\ session'.pending = None /\ session'.unmatched = <<>> /\ session'.sequence = 0
      /\ \A c \in Callers : caller'[c].pc = "idle"
      /\ net'.toDev = <<>> /\ dev'.last = None
  BY <1>1 DEF Pristine, TypeInv, TypeOK, SessionOK
<1>3. Acks(Inbound') = {}
  <2>1. net.toHost \in Seq(Frame) /\ Inbound' = <<>> \o net.toHost
    BY <1>1, Channels DEF Inbound
  <2>2. Inbound' = net.toHost
    BY <2>1
  <2>3. QED
    BY <1>1, <2>2 DEF Pristine, Acks
<1>4. Requests' /\ Confirmations' /\ Confirmation'
  BY <1>2, <1>3 DEF Requests, Confirmations, Confirmation, Data
<1>5. OwnAnswer'
  <2>1. \A j \in DOMAIN dev'.queue : ~Answer(dev.queue[j])'
    BY <1>1 DEF Pristine, Answer
  <2>2. ~HandsAnswer' /\ ~Answering'
    BY <1>1, <1>2 DEF HandsAnswer, Answering
  <2>3. QED
    BY <2>1, <2>2 DEF OwnAnswer
<1>6. Registered'
  BY <1>2 DEF Registered, Waiting
<1>7. NextBit'
  <2>1. None # 0 % 2
    BY SessionAssumption DEF SessionAssumption
  <2>2. QED
    BY <1>2, <2>1 DEF NextBit, Waiting
<1>8. QED
  BY <1>4, <1>5, <1>6, <1>7 DEF CalmOK

-----------------------------------------------------------------------------
(* The calls. *)

\* Nothing of an earlier request is left.
Quiet ==
  /\ Data(net.toDev) = {} /\ Acks(Inbound) = {} /\ session.hasAck = None
  /\ ~HandsAnswer /\ ~QueuesAnswer /\ ~Answering

LEMMA NobodyWaits ==
  ASSUME CalmOK, \A c \in Callers : ~Waits(c) PROVE Quiet
<1>1. Data(net.toDev) = {} /\ Acks(Inbound) = {} /\ session.hasAck = None
  BY DEF CalmOK, Requests, Confirmations, Confirmation
<1>2. ~HandsAnswer /\ ~QueuesAnswer /\ ~Answering
  BY DEF CalmOK, OwnAnswer, QueuesAnswer, Asked
<1>3. QED
  BY <1>1, <1>2 DEF Quiet

LEMMA QuietIsCalm == ASSUME Quiet', Registered', NextBit' PROVE CalmOK'
<1>1. Requests' /\ Confirmations' /\ Confirmation'
  BY DEF Quiet, Requests, Confirmations, Confirmation
<1>2. OwnAnswer'
  BY DEF Quiet, OwnAnswer, QueuesAnswer
<1>3. QED
  BY <1>1, <1>2 DEF CalmOK

\* Quiet goes on while a call prepares its request.
LEMMA QuietStays ==
  ASSUME Quiet, UNCHANGED <<reader, dev, passed, net>>, session'.hasAck = None,
         session'.pending = session.pending \/ session'.pending = None
         \/ session'.pending.response = None
  PROVE  Quiet'
<1>1. Current' = Current /\ Inbound' = Inbound /\ Decided' = Decided
  BY DEF Current, Inbound, Decided
<1>2. ~Answering'
  BY DEF Quiet, Answering
<1>3. QED
  BY <1>1, <1>2 DEF Quiet, HandsAnswer, QueuesAnswer, Answer

\* Callers that neither write nor wait.
LEMMA CalmEnters ==
  ASSUME TypeInv, TypeInv', CalmOK, NEW c \in Callers,
         FindNotReady(c) \/ Park(c) \/ \E o \in Opcodes \cup {None} : Call(c, o)
  PROVE  CalmOK'
<1>1. UNCHANGED <<session, sendMtx, reader, dev, passed, net>>
  BY DEF FindNotReady, Park, Call, history
<1>2. SameCalls
  BY <1>1 DEF FindNotReady, Park, Call, Step, Goto, SameCalls, Waiting, TypeInv, TypeOK, CallerOK
<1>3. Inbound' = Inbound /\ Current' = Current /\ Decided' = Decided
  BY <1>1 DEF Inbound, Current, Decided
<1>4. Thinned(Inbound', Inbound) /\ Thinned(net'.toDev, net.toDev)
  BY <1>1, <1>3, Channels, ThinSelf
<1>5. HandsAnswer' => (HandsAnswer /\ Current' = Current)
  BY <1>1, <1>3 DEF HandsAnswer, Answer
<1>6. FewerAnswers
  BY <1>1, <1>3, <1>5, QueueStays
<1>7. SameSession /\ \A i \in DOMAIN session'.unmatched : session'.unmatched[i].op = Notice
  BY <1>1 DEF SameSession, CalmOK, Registered
<1>8. QED
  BY <1>1, <1>2, <1>4, <1>6, <1>7, InboundAfter, CalmStays

\* The caller that has _sendMtx, and has not written, finds nothing.
LEMMA HolderAlone ==
  ASSUME MutualExclusion, CalmOK, NEW c \in Callers, caller[c].pc \in Holding
  PROVE  /\ sendMtx = c /\ \A k \in Callers : caller[k].pc \in Holding => k = c
         /\ \A k \in Callers : Waits(k) => k = c
         /\ caller[c].pc \notin Waiting => Quiet
         /\ caller[c].pc \in {"load", "store", "fetch", "arm"} => session.pending = None
<1>1. sendMtx = c /\ \A k \in Callers : caller[k].pc \in Holding => k = c
  BY DEF MutualExclusion
<1>2. \A k \in Callers : Waits(k) => k = c
  BY <1>1 DEF Waits
<1>3. caller[c].pc \notin Waiting => Quiet
  BY <1>2, NobodyWaits DEF Waits
<1>4. caller[c].pc \in {"load", "store", "fetch", "arm"} => session.pending = None
  BY <1>1 DEF CalmOK, Registered, Waiting
<1>5. QED
  BY <1>1, <1>2, <1>3, <1>4

LEMMA SmallSuccessors == Successor(0) = 1 /\ Successor(1) = 2
<1>1. PICK m \in Nat : m = SeqModulus /\ m > 4
  BY Moduli
<1>2. (0 + 1) % m = 1 /\ (1 + 1) % m = 2
  BY <1>1
<1>3. QED
  BY <1>1, <1>2 DEF Successor

LEMMA CalmPrepares ==
  ASSUME SendInv, CalmOK, NEW c \in Callers,
         Lock(c) \/ LoadSequence(c) \/ StoreSequence(c) \/ FetchSequence(c)
  PROVE  CalmOK'
<1> USE DEF SendInv, TypeInv, TypeOK, CallerOK, SessionOK
<1>1. /\ UNCHANGED <<reader, dev, passed, net>>
      /\ session'.hasAck = session.hasAck /\ session'.pending = session.pending
      /\ session'.unmatched = session.unmatched
  BY DEF Lock, LoadSequence, StoreSequence, FetchSequence, history
<1>2. \A d \in Callers : d # c => caller'[d] = caller[d]
  BY CallFrame DEF CallStep
<1>3. /\ \A k \in Callers : caller[k].pc \in Holding => k = c
      /\ Quiet /\ session.pending = None
  <2>1. CASE Lock(c)
    <3>1. \A k \in Callers : caller[k].pc \notin Holding
      BY <2>1, SessionAssumption DEF Lock, MutualExclusion, SessionAssumption
    <3>2. QED
      BY <3>1, NobodyWaits DEF Waits, Waiting, Holding, CalmOK, Registered
  <2>2. CASE ~Lock(c)
    <3>1. caller[c].pc \in {"load", "store", "fetch"}
      BY <2>2 DEF LoadSequence, StoreSequence, FetchSequence, Step
    <3>2. QED
      BY <3>1, HolderAlone DEF Holding, Waiting
  <2>3. QED
    BY <2>1, <2>2
<1>4. Quiet'
  BY <1>1, <1>3, QuietStays DEF Quiet
<1>5. /\ caller'[c].pc \in {"load", "store", "fetch", "arm"}
      /\ \A k \in Callers : k # c => caller'[k].pc \notin Holding
  BY <1>2, <1>3 DEF Lock, LoadSequence, StoreSequence, FetchSequence, Step, Goto
<1>6. Registered'
  BY <1>1, <1>3, <1>5 DEF CalmOK, Registered, Waiting, Holding
<1>7. (\A k \in Callers : caller[k].pc \notin Waiting \cup {"arm", "write"}) => dev.last # session.sequence % 2
  BY DEF CalmOK, NextBit
<1>8. caller[c].pc \in {"lock", "load", "store", "fetch"} /\ \A k \in Callers : caller[k].pc \notin Waiting \cup {"arm", "write"}
  BY <1>3 DEF Lock, LoadSequence, StoreSequence, FetchSequence, Step, Waiting, Holding
<1>9. NextBit'
  <2>1. CASE Lock(c) \/ LoadSequence(c)
    <3>1. session' = session
      BY <2>1 DEF Lock, LoadSequence
    <3>2. caller'[c].pc = "store" => caller'[c].reg = session.sequence
      BY <2>1 DEF Lock, LoadSequence, Step, Goto
    <3>3. caller'[c].pc \in {"load", "store", "fetch"}
      BY <2>1 DEF Lock, LoadSequence, Step, Goto
    <3>4. QED
      BY <1>1, <1>5, <1>7, <1>8, <3>1, <3>2, <3>3 DEF NextBit, Waiting, Holding
  <2>2. CASE StoreSequence(c)
    <3>1. caller[c].pc = "store" /\ session'.sequence = caller[c].reg % 2 /\ caller'[c].pc = "fetch"
      BY <2>2 DEF StoreSequence, Step, Goto
    <3>2. caller[c].reg % 2 = session.sequence % 2
      BY <3>1 DEF CalmOK, NextBit
    <3>3. session'.sequence % 2 = session.sequence % 2
      BY <3>1, <3>2, Moduli
    <3>4. QED
      BY <1>1, <1>5, <1>7, <1>8, <3>1, <3>3 DEF NextBit, Waiting, Holding
  <2>3. CASE FetchSequence(c)
    <3>1. /\ caller[c].pc = "fetch" /\ caller'[c].pc = "arm" /\ caller'[c].reg = session.sequence
          /\ session'.sequence = Successor(session.sequence)
      BY <2>3 DEF FetchSequence
    <3>2. session.sequence \in {0, 1}
      BY <3>1 DEF CounterInv
    <3>3. Successor(session.sequence) = session.sequence + 1
      BY <3>2, SmallSuccessors
    <3>4. session'.sequence % 2 = 1 - caller'[c].reg /\ session.sequence % 2 = session.sequence
      BY <3>1, <3>2, <3>3
    <3>5. QED
      BY <1>1, <1>5, <1>7, <1>8, <3>1, <3>2, <3>4 DEF NextBit, Waiting, Holding
  <2>4. QED
    BY <2>1, <2>2, <2>3
<1>10. QED
  BY <1>4, <1>6, <1>9, QuietIsCalm

\* Only notifications were kept: a new request starts without an answer.
LEMMA CalmArm == ASSUME SendInv, CalmOK, NEW c \in Callers, Arm(c) PROVE CalmOK'
<1> USE DEF SendInv, TypeInv, TypeOK, CallerOK, SessionOK
<1>1. /\ UNCHANGED <<reader, dev, passed, net, sendMtx>> /\ session'.hasAck = None
      /\ session'.sequence = session.sequence
      /\ caller[c].pc = "arm" /\ caller' = [caller EXCEPT ![c].pc = "write"]
  BY DEF Arm, Step, Goto, history
<1>2. /\ sendMtx = c /\ \A k \in Callers : caller[k].pc \in Holding => k = c
      /\ Quiet /\ session.pending = None
  BY <1>1, HolderAlone DEF Holding, Waiting
<1>3. caller[c].op # None => Buffered(caller[c].op) = {}
  <2>1. caller[c].op # None => caller[c].op \in Opcodes
    OBVIOUS
  <2>2. \A i \in DOMAIN session.unmatched : session.unmatched[i].op = Notice
    BY DEF CalmOK, Registered
  <2>3. QED
    BY <2>1, <2>2, SessionAssumption DEF Buffered, SessionAssumption
<1>4. /\ session'.unmatched = session.unmatched
      /\ \/ caller[c].op = None /\ session'.pending = None
         \/ caller[c].op # None /\ session'.pending = NewRequest(c, None)
  BY <1>2, <1>3 DEF Arm
<1>5. caller[c].op # None => /\ session'.pending # None /\ session'.pending.response = None
                             /\ session'.pending.call = caller[c].call /\ session'.pending.op = caller[c].op
  <2>1. ASSUME caller[c].op # None PROVE NewRequest(c, None) \in Request
    BY <1>1, <2>1, RequestTypes DEF Numbered
  <2>2. caller[c].op # None => NewRequest(c, None) # None
    BY <2>1, NoneAssumption
  <2>3. QED
    BY <1>4, <2>2, SessionAssumption DEF NewRequest
<1>6. Quiet'
  BY <1>1, <1>2, <1>4, <1>5, QuietStays
<1>7. /\ caller'[c].pc = "write" /\ caller'[c].call = caller[c].call /\ caller'[c].op = caller[c].op
      /\ caller'[c].reg = caller[c].reg
      /\ \A k \in Callers : k # c => caller'[k] = caller[k] /\ caller[k].pc \notin Holding
  BY <1>1, <1>2
<1>8. Registered'
  BY <1>1, <1>2, <1>4, <1>5, <1>7 DEF CalmOK, Registered, Waiting, Holding
<1>9. NextBit'
  BY <1>1, <1>7 DEF CalmOK, NextBit, Waiting, Holding
<1>10. QED
  BY <1>6, <1>8, <1>9, QuietIsCalm

LEMMA CalmWrites == ASSUME SendInv, TypeInv', CalmOK, NEW c \in Callers, WriteRequest(c) PROVE CalmOK'
<1> USE DEF SendInv, TypeInv, TypeOK, CallerOK, SessionOK
<1>1. /\ UNCHANGED <<reader, dev, passed, session, sendMtx>>
      /\ caller[c].pc = "write" /\ caller' = [caller EXCEPT ![c].pc = "check"]
      /\ net'.toDev = Append(net.toDev, RequestFrame(c)) /\ net'.toHost = net.toHost
  BY DEF WriteRequest, Step, Goto, WireOK, history
<1>2. /\ sendMtx = c /\ \A k \in Callers : caller[k].pc \in Holding => k = c
      /\ Quiet
  BY <1>1, HolderAlone DEF Holding, Waiting
<1>3. /\ caller'[c].pc = "check" /\ caller'[c].call = caller[c].call /\ caller'[c].op = caller[c].op
      /\ caller'[c].reg = caller[c].reg
      /\ \A k \in Callers : k # c => caller'[k] = caller[k] /\ caller[k].pc \notin Holding
  BY <1>1, <1>2
<1>4. Current' = Current /\ Inbound' = Inbound /\ Decided' = Decided
  BY <1>1 DEF Current, Inbound, Decided
<1>5. /\ Acks(Inbound') = {} /\ session'.hasAck = None
      /\ ~HandsAnswer' /\ ~QueuesAnswer' /\ ~Answering'
  BY <1>1, <1>2, <1>4 DEF Quiet, HandsAnswer, QueuesAnswer, Answering, Answer
<1>6. RequestFrame(c) \in Frame /\ RequestFrame(c).type = "data" /\ RequestFrame(c)' = RequestFrame(c)
  BY <1>1, <1>3 DEF RequestFrame, Frame, Numbered
<1>7. PICK n \in DOMAIN net'.toDev :
        /\ net'.toDev[n] = RequestFrame(c) /\ DOMAIN net'.toDev = DOMAIN net.toDev \cup {n}
        /\ \A i \in DOMAIN net.toDev : net'.toDev[i] = net.toDev[i]
  <2>1. Grown(net'.toDev, net.toDev, RequestFrame(c))
    BY <1>1, <1>6, Channels, GrowAppend
  <2>2. QED
    BY <2>1 DEF Grown
<1>8. \A i \in Data(net'.toDev) : i = n
  BY <1>2, <1>7 DEF Data, Quiet
<1>9. Waits(c)' /\ dev'.last # caller'[c].reg
  BY <1>1, <1>2, <1>3 DEF Waits, Waiting, CalmOK, NextBit
<1>10. Requests'
  <2>1. ASSUME NEW i \in Data(net'.toDev)
        PROVE  \E k \in Callers : Waits(k)' /\ net'.toDev[i] = RequestFrame(k)' /\ dev'.last # caller'[k].reg
    BY <1>6, <1>7, <1>8, <1>9
  <2>2. QED
    BY <1>5, <1>8, <2>1 DEF Requests
<1>11. Confirmations' /\ Confirmation'
  BY <1>5 DEF Confirmations, Confirmation
<1>12. OwnAnswer'
  BY <1>5 DEF OwnAnswer, QueuesAnswer
<1>13. Registered'
  BY <1>1, <1>2, <1>3 DEF CalmOK, Registered, Waiting, Holding
<1>14. NextBit'
  BY <1>1, <1>3 DEF CalmOK, NextBit, Waiting, Holding
<1>15. QED
  BY <1>10, <1>11, <1>12, <1>13, <1>14 DEF CalmOK

-----------------------------------------------------------------------------
(* The end of a call. *)

\* A waiter with evidence has that of its own request, and nothing is left.
LEMMA OwnTraces ==
  ASSUME SendInv, CalmOK, NEW c \in Callers, caller[c].pc \in {"check", "parked"}, Evidence(c)
  PROVE  /\ Taken(c) = caller[c].call
         /\ caller[c].reg \in {0, 1} /\ dev.last = caller[c].reg /\ session.sequence % 2 = 1 - caller[c].reg
         /\ Data(net.toDev) = {} /\ Acks(Inbound) = {} /\ ~HandsAnswer /\ ~QueuesAnswer
         /\ caller[c].op = None => session.pending = None
         /\ \A k \in Callers : caller[k].pc \in Holding => k = c
<1>1. /\ \A k \in Callers : caller[k].pc \in Holding => k = c
      /\ \A k \in Callers : Waits(k) => k = c
  BY HolderAlone DEF Holding, SendInv
<1>2. caller[c].reg \in {0, 1} /\ session.sequence % 2 = 1 - caller[c].reg
  BY DEF CalmOK, NextBit, Waiting
<1>3. CASE caller[c].op = None
  <2>1. session.hasAck # None
    BY <1>3 DEF Evidence
  <2>2. Taken(c) = caller[c].call /\ dev.last = caller[c].reg
    BY <1>1, <1>3, <2>1 DEF CalmOK, Confirmation, Taken
  <2>3. Data(net.toDev) = {} /\ Acks(Inbound) = {}
    BY <2>1 DEF CalmOK, Requests, Confirmations
  <2>4. session.pending = None
    BY <1>1, <1>3 DEF CalmOK, Registered, Waiting, Holding
  <2>5. ~HandsAnswer /\ ~QueuesAnswer
    BY <2>4 DEF CalmOK, OwnAnswer, QueuesAnswer, Asked
  <2>6. QED
    BY <1>1, <1>2, <2>2, <2>3, <2>4, <2>5
<1>4. CASE caller[c].op # None
  <2>1. Answering
    BY <1>4 DEF Evidence, Answered, Answering
  <2>2. session.pending.response.call = session.pending.call /\ ~QueuesAnswer /\ dev.last = caller[c].reg
    BY <1>1, <2>1 DEF CalmOK, OwnAnswer
  <2>3. session.pending.call = caller[c].call
    BY <1>4 DEF CalmOK, Registered, Waiting
  <2>4. Data(net.toDev) = {} /\ Acks(Inbound) = {} /\ ~HandsAnswer
    BY <2>1 DEF CalmOK, Requests, Confirmations, OwnAnswer, Asked, Answering
  <2>5. QED
    BY <1>1, <1>2, <1>4, <2>2, <2>3, <2>4 DEF Taken
<1>5. QED
  BY <1>3, <1>4

\* While the connection is calm a call ends with its evidence.
LEMMA EndsWell ==
  ASSUME SendInv, NEW c \in Callers, Leaves(c), IsConnected, IsConnected', gaveUp' = {}
  PROVE  /\ caller[c].pc \in {"check", "parked"} /\ Evidence(c) /\ Ends(c, "ok", Taken(c))
         /\ session' = [session EXCEPT !.pending = Settled(c), !.hasAck = None]
<1> USE DEF SendInv, TypeInv, TypeOK, SessionOK
<1>1. ~WriteTimesOut(c)
  BY DEF WriteTimesOut, Ends
<1>2. ~WriteFails(c)
  <2>1. ASSUME WriteFails(c) PROVE FALSE
    <3>1. session'.running = (session.running /\ net.link = "down")
      BY <2>1 DEF WriteFails
    <3>2. QED
      BY <3>1 DEF IsConnected
  <2>2. QED
    BY <2>1
<1>3. caller[c].pc \in {"check", "parked"} /\ Conclude(c)
  BY <1>1, <1>2 DEF Leaves, Finish, TimeOut
<1>4. ~Ends(c, "timeout", None)
  BY DEF Ends
<1>5. QED
  BY <1>3, <1>4 DEF Conclude

LEMMA CalmEnds ==
  ASSUME SendInv, CalmOK, NEW c \in Callers, Leaves(c), IsConnected, IsConnected', gaveUp' = {}
  PROVE  CalmOK'
<1> USE DEF SendInv, TypeInv, TypeOK, SessionOK
<1>1. /\ caller[c].pc \in {"check", "parked"} /\ Evidence(c) /\ Ends(c, "ok", Taken(c))
      /\ session' = [session EXCEPT !.pending = Settled(c), !.hasAck = None]
  BY EndsWell
<1>2. /\ caller[c].reg \in {0, 1} /\ dev.last = caller[c].reg /\ session.sequence % 2 = 1 - caller[c].reg
      /\ Data(net.toDev) = {} /\ Acks(Inbound) = {} /\ ~HandsAnswer /\ ~QueuesAnswer
      /\ caller[c].op = None => session.pending = None
      /\ \A k \in Callers : caller[k].pc \in Holding => k = c
  BY <1>1, OwnTraces
<1>3. UNCHANGED <<reader, dev, passed, net>>
  BY <1>1, LeavesFree DEF Ends
<1>4. /\ session'.hasAck = None /\ session'.pending = None
      /\ session'.unmatched = session.unmatched /\ session'.sequence = session.sequence
  BY <1>1, <1>2 DEF Settled
<1>5. \A k \in Callers : caller'[k].pc \notin Holding
  BY <1>2, LeavesFree, CallFrame DEF Leaves, CallStep, Holding
<1>6. Quiet'
  <2>1. Current' = Current /\ Inbound' = Inbound /\ Decided' = Decided
    BY <1>3 DEF Current, Inbound, Decided
  <2>2. QED
    BY <1>2, <1>3, <1>4, <2>1 DEF Quiet, HandsAnswer, QueuesAnswer, Answering, Answer
<1>7. Registered'
  BY <1>4, <1>5 DEF CalmOK, Registered, Waiting, Holding
<1>8. dev'.last # session'.sequence % 2
  BY <1>2, <1>3, <1>4
<1>9. NextBit'
  BY <1>5, <1>8 DEF NextBit, Waiting, Holding
<1>10. QED
  BY <1>6, <1>7, <1>9, QuietIsCalm

LEMMA CalmCallers ==
  ASSUME SendInv, TypeInv', CalmOK, NEW c \in Callers, IsConnected, IsConnected', gaveUp' = {},
         CallStep(c) \/ TimeOut(c) \/ \E o \in Opcodes \cup {None} : Call(c, o)
  PROVE  CalmOK'
<1>1. TypeInv
  BY DEF SendInv
<1>2. QED
  BY <1>1, CalmEnters, CalmPrepares, CalmArm, CalmWrites, CalmEnds DEF CallStep, Leaves

-----------------------------------------------------------------------------
(* A connection is calm from its start until a call times out. *)

LEMMA CalmOwner ==
  ASSUME TypeInv, Phases, Once, Once', Owner, IsConnected'
  PROVE  SpawnReader
<1> USE DEF TypeInv, TypeOK, SessionOK, HistoryOK
<1>1. session'.running
  BY DEF IsConnected
<1>2. CASE Connect
  <2>1. used.connects = 0 /\ session' = session
    BY <1>2 DEF Connect, Once
  <2>2. QED
    BY <1>1, <2>1 DEF Phases, Pristine
<1>3. CASE BeginDisconnect
  BY <1>1, <1>3 DEF BeginDisconnect
<1>4. CASE StopReader \/ JoinReader \/ ClearSession \/ OpenTransport \/ ConnectFails \/ Start
  <2>1. owner.pc # "idle"
    BY <1>4 DEF StopReader, JoinReader, ClearSession, OpenTransport, ConnectFails, Start, OwnerAt
  <2>2. session'.running = session.running
    <3>1. CASE StopReader \/ JoinReader \/ OpenTransport \/ ConnectFails
      BY <3>1 DEF StopReader, JoinReader, OpenTransport, ConnectFails
    <3>2. CASE ClearSession
      BY <3>2 DEF ClearSession
    <3>3. CASE Start
      BY <3>3 DEF Start
    <3>4. QED
      BY <1>4, <3>1, <3>2, <3>3
  <2>3. QED
    BY <1>1, <2>1, <2>2 DEF Phases
<1>5. QED
  BY <1>2, <1>3, <1>4 DEF Owner

LEMMA ConnectedBefore ==
  ASSUME TypeInv, Phases, Once, IsConnected',
         \/ Reader \/ Environment
         \/ \E c \in Callers : CallStep(c) \/ TimeOut(c) \/ \E o \in Opcodes \cup {None} : Call(c, o)
  PROVE  IsConnected /\ gaveUp \subseteq gaveUp'
<1> USE DEF TypeInv, TypeOK, SessionOK, WireOK, HistoryOK
<1>1. session'.running /\ net'.link # "down"
  BY DEF IsConnected
<1>2. CASE Reader
  <2>1. session.running
    BY <1>1, <1>2, ReaderPhase
  <2>2. net'.link = net.link /\ gaveUp' = gaveUp
    BY <1>2 DEF Reader, Receive, StopReceiving, HandleAck, AckData, DropDuplicate, RememberSequence,
       MatchRequest, KeepUnmatched, Dispatch, ReaderStops, ReaderNotifies, history, Passes
  <2>3. QED
    BY <1>1, <2>1, <2>2 DEF IsConnected
<1>3. CASE Environment
  <2>1. UNCHANGED <<session, gaveUp>> /\ net.link # "down"
    BY <1>1, <1>3 DEF Environment, DeviceTakesRequest, DeviceTakesAck, DeviceNotifies, DeviceSends,
       LoseFrame, LinkBreaks, history
  <2>2. QED
    BY <1>1, <2>1 DEF IsConnected
<1>4. ASSUME NEW c \in Callers,
             CallStep(c) \/ TimeOut(c) \/ \E o \in Opcodes \cup {None} : Call(c, o)
      PROVE  IsConnected /\ gaveUp \subseteq gaveUp'
  <2>1. session.running
    BY <1>1, <1>4, PhaseCallers
  <2>2. net'.link = net.link
    BY <1>4 DEF CallStep, TimeOut, Call, Lock, LoadSequence, StoreSequence, FetchSequence, Arm, Ends,
       WriteRequest, WriteTimesOut, WriteFails, Finish, FindNotReady, Park, Conclude
  <2>3. gaveUp \subseteq gaveUp'
    <3>1. CASE Leaves(c)
      <4>1. \E out, from : Ends(c, out, from)
        BY <3>1 DEF Leaves, WriteTimesOut, WriteFails, Finish, TimeOut, Conclude
      <4>2. QED
        BY <4>1 DEF Ends
    <3>2. CASE ~Leaves(c)
      <4>1. UNCHANGED gaveUp
        BY <1>4, <3>2 DEF Leaves, CallStep, TimeOut, Call, Lock, LoadSequence, StoreSequence,
           FetchSequence, Arm, WriteRequest, FindNotReady, Park, history
      <4>2. QED
        BY <4>1
    <3>3. QED
      BY <3>1, <3>2
  <2>4. QED
    BY <1>1, <2>1, <2>2, <2>3 DEF IsConnected
<1>5. QED
  BY <1>1, <1>2, <1>3, <1>4


LEMMA CalmNext ==
  ASSUME DeliveryInv, SendInv, CalmInv, Next PROVE CalmInv'
<1>1. SUFFICES ASSUME Calm' PROVE CalmOK'
  BY DEF CalmInv
<1>2. Once'
  BY <1>1 DEF Calm
<1>3. Once /\ TypeInv /\ TypeInv' /\ Phases /\ BitOK /\ MutualExclusion
  BY <1>2, DeliveryStep DEF SendInv
<1>4. CASE Owner
  <2>1. SpawnReader
    BY <1>1, <1>2, <1>3, <1>4, CalmOwner DEF Calm
  <2>2. QED
    BY <1>3, <2>1, CalmSpawn
<1>5. CASE ~Owner
  <2>1. \/ Reader \/ Environment
        \/ \E c \in Callers : CallStep(c) \/ TimeOut(c) \/ \E o \in Opcodes \cup {None} : Call(c, o)
    BY <1>5 DEF Next
  <2>2. CalmOK /\ IsConnected /\ IsConnected' /\ gaveUp' = {}
    BY <1>1, <1>3, <2>1, ConnectedBefore DEF CalmInv, Calm
  <2>3. QED
    BY <1>3, <2>1, <2>2, CalmReader, CalmEnvironment, CalmCallers
<1>6. QED
  BY <1>4, <1>5

LEMMA EvidenceNext ==
  ASSUME DeliveryInv, SendInv, CalmInv, OwnEvidence, Next PROVE OwnEvidence'
<1>1. SUFFICES ASSUME Once', gaveUp' = {}, NEW d \in Callers, outcome'[d] # None, outcome'[d].out = "ok"
               PROVE  outcome'[d].from = outcome'[d].call
  BY DEF OwnEvidence, Once
<1>2. Once /\ TypeInv /\ Phases
  BY <1>1, DeliveryStep
<1> DEFINE Kept == outcome'[d] = outcome[d] /\ (gaveUp \subseteq gaveUp')
<1>3. CASE Kept
  BY <1>1, <1>2, <1>3 DEF OwnEvidence, Once
<1>4. CASE Reader \/ Environment
  <2>1. UNCHANGED <<outcome, gaveUp>>
    BY <1>4 DEF Reader, Receive, StopReceiving, HandleAck, AckData, DropDuplicate, RememberSequence,
       MatchRequest, KeepUnmatched, Dispatch, ReaderStops, ReaderNotifies, Passes, Environment,
       DeviceTakesRequest, DeviceTakesAck, DeviceNotifies, DeviceSends, LoseFrame, LinkBreaks, history
  <2>2. QED
    BY <1>3, <2>1
<1>5. CASE Owner
  <2>1. CASE OpenTransport
    <3>1. outcome' = outcome /\ Pristine
      BY <1>2, <2>1 DEF OpenTransport, OwnerAt, Phases, Opening
    <3>2. QED
      BY <1>1, <3>1 DEF Pristine
  <2>2. CASE ~OpenTransport
    <3>1. UNCHANGED <<outcome, gaveUp>>
      BY <1>5, <2>2 DEF Owner, Connect, BeginDisconnect, StopReader, JoinReader, ClearSession,
         ConnectFails, Start, SpawnReader, history
    <3>2. QED
      BY <1>3, <3>1
  <2>3. QED
    BY <2>1, <2>2
<1>6. ASSUME NEW c \in Callers, \E o \in Opcodes \cup {None} : Call(c, o)
      PROVE  outcome'[d].from = outcome'[d].call
  <2>1. UNCHANGED gaveUp /\ outcome' = [outcome EXCEPT ![c] = None]
    BY <1>6 DEF Call
  <2>2. outcome'[d] = outcome[d] \/ outcome'[d] = None
    BY <2>1 DEF TypeInv, TypeOK, HistoryOK
  <2>3. QED
    BY <1>1, <1>3, <2>1, <2>2
<1>7. ASSUME NEW c \in Callers, CallStep(c) \/ TimeOut(c)
      PROVE  outcome'[d].from = outcome'[d].call
  <2>1. CASE Leaves(c)
    <3>1. PICK out, from : Ends(c, out, from) /\
             (out = "ok" => IsConnected /\ Evidence(c) /\ from = Taken(c) /\ caller[c].pc \in {"check", "parked"})
      BY <2>1 DEF Leaves, WriteTimesOut, WriteFails, Finish, TimeOut, Conclude
    <3>2. /\ gaveUp \subseteq gaveUp'
          /\ outcome' = [outcome EXCEPT ![c] = [out |-> out, call |-> caller[c].call, from |-> from,
                                                op |-> caller[c].op]]
      BY <3>1 DEF Ends
    <3>3. CASE d = c
      <4>1. outcome'[d] = [out |-> out, call |-> caller[c].call, from |-> from, op |-> caller[c].op]
        BY <1>2, <3>2, <3>3 DEF TypeInv, TypeOK, HistoryOK
      <4>2. out = "ok" /\ outcome'[d].from = from /\ outcome'[d].call = caller[c].call
        BY <1>1, <4>1
      <4>3. Calm
        BY <1>1, <1>2, <3>1, <3>2, <4>2 DEF Calm
      <4>4. Taken(c) = caller[c].call
        BY <3>1, <4>2, <4>3, OwnTraces DEF CalmInv
      <4>5. QED
        BY <3>1, <4>2, <4>4
    <3>4. CASE d # c
      <4>1. outcome'[d] = outcome[d]
        BY <3>2, <3>4
      <4>2. QED
        BY <1>3, <3>2, <4>1
    <3>5. QED
      BY <3>3, <3>4
  <2>2. CASE ~Leaves(c)
    <3>1. UNCHANGED history
      BY <1>7, <2>2 DEF CallStep, Leaves, Lock, LoadSequence, StoreSequence, FetchSequence, Arm,
         WriteRequest, FindNotReady, Park
    <3>2. QED
      BY <1>3, <3>1 DEF history
  <2>3. QED
    BY <2>1, <2>2
<1>8. QED
  BY <1>4, <1>5, <1>6, <1>7 DEF Next

LEMMA EvidentInit == Init => CalmInv /\ OwnEvidence
BY DEF Init, CalmInv, Calm, IsConnected, OwnEvidence

LEMMA EvidentNext ==
  DeliveryInv /\ SendInv /\ CalmInv /\ OwnEvidence /\ [Next]_vars => CalmInv' /\ OwnEvidence'
<1>1. ASSUME CalmInv, OwnEvidence, UNCHANGED vars PROVE CalmInv' /\ OwnEvidence'
  <2>1. Current' = Current /\ Inbound' = Inbound /\ Decided' = Decided
    BY <1>1 DEF Current, Inbound, Decided, vars
  <2>2. Calm' <=> Calm
    BY <1>1 DEF Calm, Once, IsConnected, vars
  <2>3. CalmOK => CalmOK'
    <3> SUFFICES ASSUME CalmOK PROVE CalmOK'
      OBVIOUS
    <3>1. SameCalls /\ SameSession /\ UNCHANGED <<dev, net, reader, passed, session, caller>>
      BY <1>1 DEF SameCalls, SameSession, vars
    <3>2. (HandsAnswer' <=> HandsAnswer) /\ (QueuesAnswer' <=> QueuesAnswer) /\ (Answering' <=> Answering)
      BY <2>1, <3>1 DEF HandsAnswer, QueuesAnswer, Answering, Answer
    <3>3. QED
      BY <1>1, <2>1, <3>1, <3>2 DEF CalmOK, Requests, Confirmations, Confirmation, OwnAnswer, Registered, NextBit,
         Asked, Answer, Waits, RequestFrame, vars
  <2>4. OwnEvidence => OwnEvidence'
    BY <1>1 DEF OwnEvidence, vars
  <2>5. QED
    BY <1>1, <2>2, <2>3, <2>4 DEF CalmInv
<1>2. QED
  BY <1>1, CalmNext, EvidenceNext

LEMMA EvidentInvariant == Spec => [](CalmInv /\ OwnEvidence)
BY EvidentInit, EvidentNext, DeliveryInvariant, SendInvariant, PTL DEF Spec

\* On a session's first connection, until a call times out, a call that returns
\* normally took the ACK, or the response, of its own request, although the
\* session compares no ACK number and a response carries only its opcode.
THEOREM EvidenceIsOwn == Spec => []OwnEvidence
BY EvidentInvariant, PTL

\* Meanwhile nextSequenceNumber() gives consecutive requests different bits,
\* although the reader stores the bits of ACKs between its accesses.
THEOREM RequestsAlternate == Spec => []FreshRequestBit
<1>1. TypeInv /\ CalmInv => FreshRequestBit
  <2> SUFFICES ASSUME TypeInv, CalmInv, used.connects <= 1, IsConnected, gaveUp = {}, net.toDev # <<>>,
                      Head(net.toDev).type # "ack"
               PROVE  Head(net.toDev).seq # dev.last
    BY DEF FreshRequestBit
  <2>1. CalmOK
    BY DEF CalmInv, Calm, Once
  <2>2. net.toDev \in Seq(Frame) /\ 1 \in DOMAIN net.toDev /\ Head(net.toDev) = net.toDev[1] /\ net.toDev[1] \in Frame
    BY Channels
  <2>3. 1 \in Data(net.toDev)
    BY <2>2 DEF Data, Frame
  <2>4. PICK c \in Callers : net.toDev[1] = RequestFrame(c) /\ dev.last # caller[c].reg
    BY <2>1, <2>3 DEF CalmOK, Requests
  <2>5. QED
    BY <2>2, <2>4 DEF RequestFrame
<1>2. QED
  BY <1>1, EvidentInvariant, TypeInvariant, PTL

-----------------------------------------------------------------------------
(* The answers of requests: a frame is held, buffered or returned in one    *)
(* place only, and for one opcode the returned frames come before the held  *)
(* one, and that before the buffered ones.                                  *)

Later(a, b) == a.id # b.id /\ (a.op = b.op => a.id < b.id)

Buffer ==
  /\ \A i \in DOMAIN session.unmatched : session.unmatched[i].id \in 1 .. Decided
  /\ \A i, j \in DOMAIN session.unmatched : i < j => session.unmatched[i].id < session.unmatched[j].id
  /\ \A k \in DOMAIN answers, i \in DOMAIN session.unmatched : Later(answers[k], session.unmatched[i])
Holds ==
  session.pending # None =>
    IF session.pending.response = None
    THEN \A i \in DOMAIN session.unmatched : session.unmatched[i].op # session.pending.op
    ELSE /\ Reply.id \in 1 .. Decided
         /\ \A i \in DOMAIN session.unmatched : Later(Reply, session.unmatched[i])
         /\ \A k \in DOMAIN answers : Later(answers[k], Reply)
Returned == \A k \in DOMAIN answers : answers[k].id \in 1 .. Decided
Stash == Buffer /\ Holds /\ Returned
StashInv == Once => Stash

LEMMA StashStays ==
  ASSUME Stash, session'.unmatched = session.unmatched, session'.pending = session.pending,
         answers' = answers, Decided' = Decided
  PROVE  Stash'
BY DEF Stash, Buffer, Holds, Returned, Later, Reply

LEMMA StashEmpties ==
  ASSUME Stash, session'.unmatched = <<>>, session'.pending = None,
         answers' = answers, Decided' = Decided
  PROVE  Stash'
BY DEF Stash, Buffer, Holds, Returned

LEMMA DecidedType == ASSUME TypeInv PROVE Decided \in Nat /\ Len(passed) \in Nat
BY CountTypes DEF Decided

\* The frame the reader has found new is the next to be decided on.
LEMMA NextDecided ==
  ASSUME TypeInv, BitOK, reader.pc = "fresh"
  PROVE  Decided = Len(passed) /\ Current.id = Decided + 1 /\ Current \in Frame /\ Current # None
<1>1. Decided = Len(passed) /\ Len(passed) \in Nat
  BY DecidedType DEF Decided
<1>2. Accepted = Len(passed) + 1 /\ Received = Accepted
  BY <1>1, CountTypes DEF Accepted, Received
<1>3. Current.id = Decided + 1
  BY <1>1, <1>2 DEF BitOK, HandOK
<1>4. Current \in Frame
  BY CurrentType DEF Busy
<1>5. QED
  BY <1>1, <1>3, <1>4, NoneAssumption

\* The capped buffer is a run of the old one, with the new frame at its end.
LEMMA CappedRun ==
  ASSUME NEW s \in Seq(Frame), NEW f \in Frame, NEW w, w = Capped(Append(s, f))
  PROVE  \E d \in Nat : \A i \in DOMAIN w : \/ i + d \in DOMAIN s /\ w[i] = s[i + d]
                                            \/ w[i] = f /\ i + d = Len(s) + 1
<1> DEFINE t == Append(s, f)
<1>1. /\ t \in Seq(Frame) /\ Len(t) = Len(s) + 1 /\ Len(s) \in Nat /\ DOMAIN s = 1 .. Len(s)
      /\ \A i \in 1 .. Len(s) : t[i] = s[i]
      /\ t[Len(s) + 1] = f
  OBVIOUS
<1> HIDE DEF t
<1> DEFINE Run(q, d) == \A i \in DOMAIN q : \/ i + d \in DOMAIN s /\ q[i] = s[i + d]
                                            \/ q[i] = f /\ i + d = Len(s) + 1
<1>2. Run(t, 0)
  BY <1>1
<1>3. Run(Tail(t), 1)
  <2>1. /\ DOMAIN Tail(t) = 1 .. Len(s)
        /\ \A i \in 1 .. Len(s) : Tail(t)[i] = t[i + 1]
    BY <1>1
  <2>2. QED
    BY <1>1, <2>1
<1> HIDE DEF Run
<1>4. \E d \in Nat : Run(Capped(t), d)
  BY <1>2, <1>3 DEF Capped
<1>5. QED
  BY <1>4 DEF Run, t

LEMMA StashKeepUnmatched == ASSUME TypeInv, BitOK, Stash, KeepUnmatched PROVE Stash'
<1> USE DEF TypeInv, TypeOK
<1> DEFINE u == session.unmatched
           v == session'.unmatched
<1>1. /\ reader.pc = "fresh" /\ reader'.pc = "dispatch" /\ UNCHANGED <<passed, answers>>
      /\ ~Answers(Current) /\ session'.pending = session.pending
      /\ v = Capped(Append(u, Current)) /\ u \in Seq(Frame)
  BY DEF KeepUnmatched, ReaderAt, history, SessionOK, ThreadsOK
<1>2. Decided = Len(passed) /\ Current.id = Decided + 1 /\ Current \in Frame /\ Decided \in Nat
  BY <1>1, NextDecided, DecidedType
<1>3. Decided' = Decided + 1
  BY <1>1, <1>2 DEF Decided
<1>4. PICK d \in Nat : \A i \in DOMAIN v :
        (i + d \in DOMAIN u /\ v[i] = u[i + d]) \/ (v[i] = Current /\ i + d = Len(u) + 1)
  <2>1. Capped(Append(u, Current)) = v /\ u \in Seq(Frame) /\ Current \in Frame
    BY <1>1, <1>2
  <2> HIDE DEF u, v
  <2>2. QED
    BY <2>1, CappedRun
<1>5. /\ \A i \in DOMAIN u : u[i].id \in 1 .. Decided
      /\ \A i, j \in DOMAIN u : i < j => u[i].id < u[j].id
      /\ \A k \in DOMAIN answers, i \in DOMAIN u : Later(answers[k], u[i])
      /\ \A k \in DOMAIN answers : answers[k].id \in 1 .. Decided
  BY DEF Stash, Buffer, Returned
<1>6. DOMAIN u = 1 .. Len(u) /\ Len(u) \in Nat /\ DOMAIN v \subseteq Nat
  <2>1. v \in Seq(Frame)
    BY <1>1, <1>2, CappedType DEF SessionOK
  <2>2. QED
    BY <1>1, <2>1
<1>7. \A k \in DOMAIN answers : Later(answers[k], Current)
  BY <1>2, <1>5 DEF Later
<1> HIDE DEF u, v
<1>8. \A i \in DOMAIN v : v[i].id \in 1 .. Decided + 1
  BY <1>2, <1>4, <1>5
<1>9. \A i, j \in DOMAIN v : i < j => v[i].id < v[j].id
  <2> SUFFICES ASSUME NEW i \in DOMAIN v, NEW j \in DOMAIN v, i < j PROVE v[i].id < v[j].id
    OBVIOUS
  <2>1. i + d < j + d /\ i \in Nat /\ j \in Nat
    BY <1>6
  <2>2. i + d \in DOMAIN u /\ v[i] = u[i + d]
    BY <1>4, <1>6, <2>1
  <2>3. CASE j + d \in DOMAIN u /\ v[j] = u[j + d]
    BY <1>5, <2>1, <2>2, <2>3
  <2>4. CASE v[j] = Current
    BY <1>2, <1>5, <2>2, <2>4
  <2>5. QED
    BY <1>4, <2>3, <2>4
<1>10. \A k \in DOMAIN answers, i \in DOMAIN v : Later(answers[k], v[i])
  BY <1>4, <1>5, <1>7
<1>11. Buffer' /\ Returned'
  BY <1>1, <1>2, <1>3, <1>5, <1>8, <1>9, <1>10 DEF Buffer, Returned, Later, v
<1>12. Holds'
  <2> SUFFICES ASSUME session.pending # None PROVE Holds'
    BY <1>1 DEF Holds
  <2>1. CASE session.pending.response = None
    <3>1. Current.op # session.pending.op
      BY <1>1, <2>1 DEF Answers
    <3>2. \A i \in DOMAIN u : u[i].op # session.pending.op
      BY <2>1 DEF Stash, Holds, u
    <3>3. \A i \in DOMAIN v : v[i].op # session.pending.op
      BY <1>4, <3>1, <3>2
    <3>4. QED
      BY <1>1, <2>1, <3>3 DEF Holds, v
  <2>2. CASE session.pending.response # None
    <3>1. /\ Reply.id \in 1 .. Decided /\ Reply' = Reply
          /\ \A i \in DOMAIN u : Later(Reply, u[i])
          /\ \A k \in DOMAIN answers : Later(answers[k], Reply)
      BY <1>1, <2>2 DEF Stash, Holds, Reply, u
    <3>2. Later(Reply, Current)
      BY <1>2, <3>1 DEF Later
    <3>3. \A i \in DOMAIN v : Later(Reply, v[i])
      BY <1>4, <3>1, <3>2
    <3>4. QED
      BY <1>1, <1>2, <1>3, <2>2, <3>1, <3>3 DEF Holds, Later, v
  <2>3. QED
    BY <2>1, <2>2
<1>13. QED
  BY <1>11, <1>12 DEF Stash

LEMMA StashMatchRequest == ASSUME TypeInv, BitOK, Stash, MatchRequest PROVE Stash'
<1> USE DEF TypeInv, TypeOK
<1>1. /\ reader.pc = "fresh" /\ NextFrame /\ Passes(Current, "request") /\ Answers(Current)
      /\ session'.unmatched = session.unmatched
      /\ session'.pending = [session.pending EXCEPT !.response = Current]
      /\ session.pending \in Request
  BY DEF MatchRequest, SessionOK, Answers
<1>2. Decided = Len(passed) /\ Current.id = Decided + 1 /\ Current # None /\ Decided \in Nat
  BY <1>1, NextDecided, DecidedType
<1>3. Decided' = Decided + 1 /\ answers' = answers
  <2>1. reader'.pc # "dispatch" /\ answers' = answers
    BY <1>1 DEF NextFrame, Passes
  <2>2. Len(passed') = Len(passed) + 1
    BY <1>1, PassedInOrder DEF Routes
  <2>3. QED
    BY <1>2, <2>1, <2>2 DEF Decided
<1>4. Buffer' /\ Returned'
  BY <1>1, <1>2, <1>3 DEF Stash, Buffer, Returned, Later
<1>5. /\ session.pending # None /\ session.pending.response = None
      /\ \A i \in DOMAIN session.unmatched : session.unmatched[i].op # session.pending.op
  BY <1>1 DEF Answers, Stash, Holds
<1>6. /\ session'.pending.response = Current /\ session'.pending.op = session.pending.op
      /\ Reply' = [id |-> Current.id, op |-> session.pending.op]
  BY <1>1 DEF Request, Reply
<1>7. /\ Reply'.id = Decided + 1 /\ Reply'.op = session.pending.op
  BY <1>2, <1>6
<1>8. /\ \A i \in DOMAIN session.unmatched : Later(Reply', session.unmatched[i])
      /\ \A k \in DOMAIN answers : Later(answers[k], Reply')
  BY <1>2, <1>5, <1>7 DEF Stash, Buffer, Returned, Later
<1>9. Reply'.id \in 1 .. Decided'
  BY <1>2, <1>3, <1>7
<1>10. Holds'
  BY <1>1, <1>2, <1>3, <1>6, <1>8, <1>9 DEF Holds, Later
<1>11. QED
  BY <1>4, <1>10 DEF Stash

LEMMA StashReader == ASSUME TypeInv, BitOK, Stash, Reader PROVE Stash'
<1>1. CASE Receive \/ StopReceiving \/ HandleAck \/ AckData \/ DropDuplicate \/ RememberSequence
           \/ ReaderStops \/ ReaderNotifies
  <2>1. session'.unmatched = session.unmatched /\ session'.pending = session.pending
    BY <1>1 DEF Receive, StopReceiving, HandleAck, AckData, DropDuplicate, RememberSequence,
       ReaderStops, ReaderNotifies, TypeInv, TypeOK, SessionOK
  <2>2. UNCHANGED <<passed, answers>> /\ reader.pc # "dispatch"
    BY <1>1 DEF Receive, StopReceiving, HandleAck, AckData, DropDuplicate, RememberSequence,
       ReaderStops, ReaderNotifies, ReaderAt, history
  <2>3. reader'.pc # "dispatch"
    BY <1>1 DEF Receive, StopReceiving, HandleAck, AckData, DropDuplicate, RememberSequence,
       ReaderStops, ReaderNotifies, ReaderAt, NextFrame, TypeInv, TypeOK, ThreadsOK
  <2>4. QED
    BY <2>1, <2>2, <2>3, StashStays DEF Decided
<1>2. CASE Dispatch
  <2>1. /\ reader.pc = "dispatch" /\ reader'.pc # "dispatch" /\ Passes(Current, "callbacks")
        /\ session' = session
    BY <1>2 DEF Dispatch, NextFrame
  <2>2. Len(passed') = Len(passed) + 1 /\ answers' = answers
    BY <2>1, PassedInOrder DEF Routes, Passes
  <2>3. Decided' = Decided
    BY <2>1, <2>2, DecidedType DEF Decided
  <2>4. QED
    BY <2>1, <2>2, <2>3, StashStays
<1>3. QED
  BY <1>1, <1>2, StashKeepUnmatched, StashMatchRequest DEF Reader

\* A sequence without one of its elements: the others, in their order.
LEMMA WithoutOne ==
  ASSUME NEW S, NEW s \in Seq(S), NEW i \in DOMAIN s
  PROVE  /\ DOMAIN Without(s, i) = 1 .. Len(s) - 1
         /\ \A k \in DOMAIN Without(s, i) :
              /\ k < i => k \in DOMAIN s /\ Without(s, i)[k] = s[k]
              /\ k >= i => k + 1 \in DOMAIN s /\ Without(s, i)[k] = s[k + 1]
<1> DEFINE a == SubSeq(s, 1, i - 1)
           b == SubSeq(s, i + 1, Len(s))
<1>1. i \in 1 .. Len(s) /\ Len(s) \in Nat /\ DOMAIN s = 1 .. Len(s)
  OBVIOUS
<1>2. /\ a \in Seq(S) /\ Len(a) = i - 1 /\ \A k \in 1 .. i - 1 : a[k] = s[k]
      /\ b \in Seq(S) /\ Len(b) = Len(s) - i /\ \A k \in 1 .. Len(s) - i : b[k] = s[i + k]
  BY <1>1, SMTT(20)
<1> HIDE DEF a, b
<1>3. /\ DOMAIN (a \o b) = 1 .. Len(s) - 1
      /\ \A k \in 1 .. Len(s) - 1 : (a \o b)[k] = IF k <= i - 1 THEN a[k] ELSE b[k - (i - 1)]
  <2>1. /\ DOMAIN (a \o b) = 1 .. Len(a) + Len(b)
        /\ \A k \in 1 .. Len(a) + Len(b) : (a \o b)[k] = IF k <= Len(a) THEN a[k] ELSE b[k - Len(a)]
    BY <1>2, SMTT(20)
  <2>2. Len(a) + Len(b) = Len(s) - 1
    BY <1>1, <1>2
  <2>3. QED
    BY <1>2, <2>1, <2>2
<1>4. Without(s, i) = a \o b
  BY DEF Without, a, b
<1>5. ASSUME NEW k \in 1 .. Len(s) - 1
      PROVE  /\ k < i => k \in DOMAIN s /\ (a \o b)[k] = s[k]
             /\ k >= i => k + 1 \in DOMAIN s /\ (a \o b)[k] = s[k + 1]
  <2>1. CASE k < i
    <3>1. k \in 1 .. i - 1 /\ k \in DOMAIN s /\ ~(k >= i)
      BY <1>1, <2>1
    <3>2. (a \o b)[k] = a[k] /\ a[k] = s[k]
      BY <1>2, <1>3, <3>1
    <3>3. QED
      BY <3>1, <3>2
  <2>2. CASE k >= i
    <3>1. k - (i - 1) \in 1 .. Len(s) - i /\ i + (k - (i - 1)) = k + 1
      BY <1>1, <2>2
    <3>2. ~(k <= i - 1) /\ k + 1 \in DOMAIN s /\ ~(k < i)
      BY <1>1, <2>2
    <3>3. (a \o b)[k] = b[k - (i - 1)]
      BY <1>3, <3>2
    <3>4. b[k - (i - 1)] = s[k + 1]
      BY <1>2, <3>1
    <3>5. QED
      BY <3>2, <3>3, <3>4
  <2>3. QED
    BY <1>1, <2>1, <2>2
<1>6. QED
  BY <1>3, <1>4, <1>5

\* A request takes the oldest buffered frame of its opcode.
LEMMA StashArm ==
  ASSUME TypeInv, Stash, NEW c \in Callers, Arm(c), Decided' = Decided PROVE Stash'
<1> USE DEF TypeInv, TypeOK
<1> DEFINE u == session.unmatched
           o == caller[c].op
<1>1. answers' = answers /\ u \in Seq(Frame) /\ Decided \in Nat
  BY DecidedType DEF Arm, history, SessionOK
<1>2. CASE o = None
  <2>1. session'.unmatched = u /\ session'.pending = session.pending
    BY <1>2 DEF Arm, SessionOK
  <2>2. QED
    BY <1>1, <2>1, StashStays
<1>3. CASE o # None /\ Buffered(o) = {}
  <2>1. session'.unmatched = u /\ session'.pending = NewRequest(c, None)
    BY <1>3 DEF Arm, SessionOK
  <2>2. session'.pending.response = None /\ session'.pending.op = o
    BY <2>1 DEF NewRequest
  <2>3. \A i \in DOMAIN u : u[i].op # o
    BY <1>3 DEF Buffered
  <2>4. QED
    BY <1>1, <2>1, <2>2, <2>3 DEF Stash, Buffer, Holds, Returned, Later
<1>4. CASE o # None /\ Buffered(o) # {}
  <2>1. PICK i \in Buffered(o) :
          /\ \A j \in Buffered(o) : i <= j
          /\ session' = [session EXCEPT !.hasAck = None, !.unmatched = Without(@, i),
                                        !.pending = NewRequest(c, session.unmatched[i])]
    BY <1>4 DEF Arm
  <2> DEFINE v == session'.unmatched
             f == u[i]
  <2>2. v = Without(u, i) /\ session'.pending = NewRequest(c, f) /\ i \in DOMAIN u /\ f.op = o
    BY <2>1 DEF SessionOK, Buffered
  <2>3. f \in Frame /\ f # None
    BY <1>1, <2>2, NoneAssumption
  <2>4. session'.pending.response = f /\ session'.pending.op = o /\ Reply' = [id |-> f.id, op |-> o]
    BY <2>2 DEF NewRequest, Reply
  <2>5. Reply'.id = f.id /\ Reply'.op = o
    BY <2>4
  <2>6. /\ \A j \in DOMAIN u : u[j].id \in 1 .. Decided
        /\ \A j, k \in DOMAIN u : j < k => u[j].id < u[k].id
        /\ \A k \in DOMAIN answers, j \in DOMAIN u : Later(answers[k], u[j])
        /\ \A k \in DOMAIN answers : answers[k].id \in 1 .. Decided
        /\ \A j \in DOMAIN u : u[j].op = o => i <= j
        /\ DOMAIN u \subseteq Nat
    BY <1>1, <2>1 DEF Stash, Buffer, Returned, Buffered
  <2>7. /\ DOMAIN v \subseteq Nat
        /\ \A k \in DOMAIN v : /\ k < i => k \in DOMAIN u /\ v[k] = u[k]
                               /\ k >= i => k + 1 \in DOMAIN u /\ v[k] = u[k + 1]
    <3>1. /\ DOMAIN Without(u, i) = 1 .. Len(u) - 1
          /\ \A k \in DOMAIN Without(u, i) : /\ k < i => k \in DOMAIN u /\ Without(u, i)[k] = u[k]
                                             /\ k >= i => k + 1 \in DOMAIN u /\ Without(u, i)[k] = u[k + 1]
      BY <1>1, <2>2, WithoutOne
    <3>2. QED
      BY <2>2, <3>1
  <2> HIDE DEF v
  <2>8. \A k \in DOMAIN v : \E j \in DOMAIN u : j # i /\ v[k] = u[j] /\ j >= k /\ (k < i => j = k) /\ (k >= i => j = k + 1)
    BY <2>2, <2>6, <2>7
  <2>9. \A k \in DOMAIN v : v[k].id \in 1 .. Decided
    BY <2>6, <2>8
  <2>10. \A k, l \in DOMAIN v : k < l => v[k].id < v[l].id
    <3> SUFFICES ASSUME NEW k \in DOMAIN v, NEW l \in DOMAIN v, k < l PROVE v[k].id < v[l].id
      OBVIOUS
    <3>1. PICK j \in DOMAIN u : v[k] = u[j] /\ (k < i => j = k) /\ (k >= i => j = k + 1)
      BY <2>8
    <3>2. PICK m \in DOMAIN u : v[l] = u[m] /\ (l < i => m = l) /\ (l >= i => m = l + 1)
      BY <2>8
    <3>3. j < m
      BY <2>2, <2>6, <2>7, <3>1, <3>2
    <3>4. QED
      BY <2>6, <3>1, <3>2, <3>3
  <2>11. \A k \in DOMAIN answers, l \in DOMAIN v : Later(answers[k], v[l])
    BY <2>6, <2>8
  <2>12. Buffer' /\ Returned'
    BY <1>1, <2>6, <2>9, <2>10, <2>11 DEF Buffer, Returned, Later, v
  <2>13. \A l \in DOMAIN v : Later(Reply', v[l])
    <3> SUFFICES ASSUME NEW l \in DOMAIN v PROVE Later(Reply', v[l])
      OBVIOUS
    <3>1. PICK j \in DOMAIN u : j # i /\ v[l] = u[j]
      BY <2>8
    <3>2. u[j].id # f.id /\ (u[j].op = o => f.id < u[j].id)
      BY <2>2, <2>6, <3>1
    <3>3. QED
      BY <2>5, <3>1, <3>2 DEF Later
  <2>14. \A k \in DOMAIN answers : Later(answers[k], Reply')
    BY <2>2, <2>5, <2>6 DEF Later
  <2>15. Holds'
    BY <1>1, <2>2, <2>3, <2>4, <2>5, <2>6, <2>13, <2>14 DEF Holds, Later, v
  <2>16. QED
    BY <2>12, <2>15 DEF Stash
<1>5. QED
  BY <1>2, <1>3, <1>4

\* What the end of a call makes of the answers.
LEMMA Endings ==
  ASSUME TypeInv, NEW c \in Callers, Leaves(c)
  PROVE  \/ /\ caller[c].op # None /\ caller[c].pc \in {"check", "parked"} /\ Answered
            /\ answers' = Append(answers, Reply) /\ session'.pending = None
         \/ /\ answers' = answers
            /\ \/ session'.pending = session.pending
               \/ session'.pending = None /\ (IsConnected => ~Answered)
               \/ /\ session.pending # None
                  /\ session'.pending = [session.pending EXCEPT !.orphan = TRUE]
                  /\ IsConnected' => "write" \in gaveUp'
<1> USE DEF TypeInv, TypeOK, SessionOK
<1>1. CASE WriteTimesOut(c) \/ WriteFails(c)
  <2>1. answers' = answers /\ session'.pending = Orphaned(c)
    BY <1>1 DEF WriteTimesOut, WriteFails, Ends
  <2>2. IsConnected' => "write" \in gaveUp'
    <3>1. CASE WriteTimesOut(c)
      BY <3>1 DEF WriteTimesOut, Ends
    <3>2. CASE WriteFails(c)
      <4>1. session'.running = (session.running /\ net.link = "down") /\ net' = net
        BY <3>2 DEF WriteFails, Ends
      <4>2. QED
        BY <4>1 DEF IsConnected
    <3>3. QED
      BY <1>1, <3>1, <3>2
  <2>3. QED
    BY <2>1, <2>2 DEF Orphaned
<1>2. CASE Conclude(c) /\ caller[c].pc \in {"check", "parked"}
  <2>1. session'.pending = Settled(c)
    BY <1>2 DEF Conclude
  <2>2. CASE caller[c].op = None
    BY <1>2, <2>1, <2>2 DEF Conclude, Ends, Settled
  <2>3. CASE caller[c].op # None
    BY <1>2, <2>1, <2>3 DEF Conclude, Ends, Settled, Evidence
  <2>4. QED
    BY <2>2, <2>3
<1>3. QED
  BY <1>1, <1>2 DEF Leaves, Finish, TimeOut

LEMMA StashLeaves ==
  ASSUME TypeInv, Stash, NEW c \in Callers, Leaves(c), Decided' = Decided PROVE Stash'
<1> USE DEF TypeInv, TypeOK, SessionOK
<1>1. session'.unmatched = session.unmatched
  <2>1. CASE WriteTimesOut(c) \/ WriteFails(c)
    BY <2>1 DEF WriteTimesOut, WriteFails
  <2>2. CASE Conclude(c)
    BY <2>2 DEF Conclude
  <2>3. QED
    BY <2>1, <2>2 DEF Leaves, Finish, TimeOut
<1>2. CASE Answered /\ answers' = Append(answers, Reply) /\ session'.pending = None
  <2>1. /\ answers \in Seq([id : Nat, op : Opcodes]) /\ Reply \in [id : Nat, op : Opcodes]
        /\ session.pending # None /\ session.pending.response # None
    BY <1>2 DEF Answered, Reply, Request, Frame, HistoryOK
  <2>2. \A k \in DOMAIN answers' : answers'[k] = Reply \/ (k \in DOMAIN answers /\ answers'[k] = answers[k])
    BY <1>2, <2>1
  <2>3. /\ Reply.id \in 1 .. Decided
        /\ \A i \in DOMAIN session.unmatched : Later(Reply, session.unmatched[i])
    BY <2>1 DEF Stash, Holds
  <2>4. QED
    BY <1>1, <1>2, <2>2, <2>3 DEF Stash, Buffer, Holds, Returned, Later
<1>3. CASE answers' = answers /\ session'.pending \in {session.pending, None}
  BY <1>1, <1>3 DEF Stash, Buffer, Holds, Returned, Later, Reply
<1>4. CASE /\ answers' = answers /\ session.pending # None
           /\ session'.pending = [session.pending EXCEPT !.orphan = TRUE]
  <2>1. /\ session'.pending.response = session.pending.response /\ session'.pending.op = session.pending.op
        /\ session'.pending # None
    BY <1>4, NoneAssumption DEF Request
  <2>2. Reply' = Reply
    BY <2>1 DEF Reply
  <2>3. QED
    BY <1>1, <1>4, <2>1, <2>2 DEF Stash, Buffer, Holds, Returned, Later
<1>5. QED
  BY <1>2, <1>3, <1>4, Endings

LEMMA StashCallers ==
  ASSUME TypeInv, Phases, Stash, NEW c \in Callers,
         CallStep(c) \/ TimeOut(c) \/ \E o \in Opcodes \cup {None} : Call(c, o)
  PROVE  Stash'
<1>1. Decided' = Decided
  BY PhaseCallers DEF Decided
<1>2. CASE ~Leaves(c) /\ ~Arm(c)
  <2>1. answers' = answers
    BY <1>2 DEF Leaves, CallStep, Call, Lock, LoadSequence, StoreSequence, FetchSequence,
       WriteRequest, FindNotReady, Park, history
  <2>2. session'.unmatched = session.unmatched /\ session'.pending = session.pending
    BY <1>2 DEF Leaves, CallStep, Call, Lock, LoadSequence, StoreSequence, FetchSequence,
       WriteRequest, FindNotReady, Park, TypeInv, TypeOK, SessionOK
  <2>3. QED
    BY <1>1, <2>1, <2>2, StashStays
<1>3. QED
  BY <1>1, <1>2, StashArm, StashLeaves

LEMMA StashOwner == ASSUME TypeInv, Phases, Stash, Owner PROVE Stash'
<1> USE DEF TypeInv, TypeOK
<1>1. CASE OpenTransport
  <2>1. /\ session.unmatched = <<>> /\ session.pending = None /\ session' = session
        /\ answers' = <<>>
    BY <1>1 DEF OpenTransport, OwnerAt, Phases, Opening, Pristine
  <2>2. QED
    BY <2>1 DEF Stash, Buffer, Holds, Returned
<1>2. CASE Owner /\ ~OpenTransport
  <2>1. UNCHANGED <<passed, answers>>
    BY <1>2 DEF Owner, Connect, BeginDisconnect, StopReader, JoinReader, ClearSession,
       ConnectFails, Start, SpawnReader, history
  <2>2. Decided' = Decided
    <3>1. CASE SpawnReader
      BY <2>1, <3>1 DEF SpawnReader, OwnerAt, Phases, Opening, Decided
    <3>2. CASE ~SpawnReader
      <4>1. reader' = reader
        BY <1>2, <3>2 DEF Owner, Connect, BeginDisconnect, StopReader, JoinReader, ClearSession,
           ConnectFails, Start
      <4>2. QED
        BY <2>1, <4>1 DEF Decided
    <3>3. QED
      BY <3>1, <3>2
  <2>3. \/ session'.unmatched = session.unmatched /\ session'.pending = session.pending
        \/ session'.unmatched = <<>> /\ session'.pending = None
    <3>1. CASE ClearSession \/ Start
      <4>1. CASE ClearSession
        BY <4>1 DEF ClearSession
      <4>2. CASE Start /\ session' = session
        BY <4>2
      <4>3. CASE Start /\ session' # session
        BY <4>3 DEF Start, SessionOK
      <4>4. QED
        BY <3>1, <4>1, <4>2, <4>3
    <3>2. CASE Connect \/ StopReader \/ JoinReader \/ ConnectFails
      <4>1. session' = session
        BY <3>2 DEF Connect, StopReader, JoinReader, ConnectFails
      <4>2. QED
        BY <4>1
    <3>3. CASE BeginDisconnect \/ SpawnReader
      BY <3>3 DEF BeginDisconnect, SpawnReader, SessionOK
    <3>4. QED
      BY <1>2, <3>1, <3>2, <3>3 DEF Owner
  <2>4. QED
    BY <2>1, <2>2, <2>3, StashStays, StashEmpties
<1>3. QED
  BY <1>1, <1>2

LEMMA StashNext == ASSUME DeliveryInv, StashInv, Next PROVE StashInv'
<1> SUFFICES ASSUME Once' PROVE Stash'
  BY DEF StashInv
<1>1. TypeInv /\ Phases /\ BitOK /\ Stash
  BY DeliveryStep DEF StashInv
<1>2. CASE Environment
  <2>1. UNCHANGED <<session, reader, passed, answers>>
    BY <1>2 DEF Environment, DeviceTakesRequest, DeviceTakesAck, DeviceNotifies, DeviceSends,
       LoseFrame, LinkBreaks, history
  <2>2. QED
    BY <1>1, <2>1, StashStays DEF Decided
<1>3. QED
  BY <1>1, <1>2, StashReader, StashOwner, StashCallers DEF Next

-----------------------------------------------------------------------------
(* The frames requests took: while the connection lasts, and until a write  *)
(* times out, each is held for a request that waits, or was returned.       *)

Live == Once /\ IsConnected /\ "write" \notin gaveUp
Owned ==
  session.pending # None =>
    \E c \in Callers : sendMtx = c /\ caller[c].pc \in Waiting \cup {"write"} /\ caller[c].op # None
Kept == \A i \in DOMAIN passed : passed[i].to = "request" => HeldFor(i) \/ AnsweredWith(i)
LiveInv == Live => Owned /\ Kept

\* A pending request is that of the caller in its call.
LEMMA OwnerWaits ==
  ASSUME MutualExclusion, Owned, NEW c \in Callers, caller[c].pc \in Holding, session.pending # None
  PROVE  caller[c].pc \in Waiting \cup {"write"} /\ caller[c].op # None /\ sendMtx = c
BY DEF Owned, MutualExclusion

LEMMA KeptStays ==
  ASSUME Kept, passed' = passed, answers' = answers,
         \/ session'.pending = session.pending
         \/ ~Answered
  PROVE  Kept'
BY DEF Kept, HeldFor, Answered, AnsweredWith

LEMMA LiveReader ==
  ASSUME TypeInv, BitOK, SameCalls, Owned, Kept, Reader PROVE Owned' /\ Kept'
<1> USE DEF TypeInv, TypeOK, SessionOK
<1>1. CASE Reader /\ ~MatchRequest /\ ~Dispatch
  <2>1. UNCHANGED <<passed, answers>>
    BY <1>1 DEF Reader, Receive, StopReceiving, HandleAck, AckData, DropDuplicate, RememberSequence,
       KeepUnmatched, ReaderStops, ReaderNotifies, history
  <2>2. session'.pending = session.pending
    <3>1. CASE Receive \/ StopReceiving \/ DropDuplicate \/ ReaderNotifies
      BY <3>1 DEF Receive, StopReceiving, DropDuplicate, ReaderNotifies
    <3>2. CASE HandleAck \/ AckData \/ RememberSequence \/ KeepUnmatched \/ ReaderStops
      BY <3>2 DEF HandleAck, AckData, RememberSequence, KeepUnmatched, ReaderStops
    <3>3. QED
      BY <1>1, <3>1, <3>2 DEF Reader
  <2>3. QED
    BY <2>1, <2>2, KeptStays DEF Owned, SameCalls, Waiting
<1>2. CASE Dispatch
  <2>1. reader.pc = "dispatch" /\ Passes(Current, "callbacks") /\ session' = session
    BY <1>2 DEF Dispatch
  <2>2. /\ DOMAIN passed' = 1 .. Len(passed) + 1 /\ passed'[Len(passed) + 1].to = "callbacks"
        /\ \A i \in DOMAIN passed : passed'[i] = passed[i]
        /\ answers' = answers /\ DOMAIN passed = 1 .. Len(passed) /\ Len(passed) \in Nat
    BY <2>1, PassedInOrder, DecidedType, SMTT(20) DEF Routes, Passes, HistoryOK
  <2>3. Kept'
    <3> SUFFICES ASSUME NEW i \in DOMAIN passed', passed'[i].to = "request"
                 PROVE  HeldFor(i)' \/ AnsweredWith(i)'
      BY DEF Kept
    <3>1. i \in DOMAIN passed /\ passed[i].to = "request"
      BY <2>2
    <3>2. QED
      BY <2>1, <2>2, <3>1 DEF Kept, HeldFor, Answered, AnsweredWith
  <2>4. QED
    BY <2>1, <2>3 DEF Owned, SameCalls, Waiting
<1>3. CASE MatchRequest
  <2>1. /\ reader.pc = "fresh" /\ Passes(Current, "request") /\ Answers(Current)
        /\ session'.pending = [session.pending EXCEPT !.response = Current]
        /\ session.pending \in Request
    BY <1>3 DEF MatchRequest, Answers
  <2>2. /\ DOMAIN passed' = 1 .. Len(passed) + 1
        /\ \A i \in DOMAIN passed : passed'[i] = passed[i]
        /\ answers' = answers /\ DOMAIN passed = 1 .. Len(passed) /\ Len(passed) \in Nat
    BY <2>1, PassedInOrder, DecidedType, SMTT(20) DEF Routes, Passes, HistoryOK
  <2>3. Current.id = Len(passed) + 1 /\ Current # None /\ Current \in Frame
    BY <2>1, NextDecided
  <2>4. session'.pending.response = Current /\ session'.pending # None /\ ~Answered
    <3>1. session'.pending \in Request /\ session'.pending.response = Current
      BY <2>1, <2>3 DEF Request
    <3>2. QED
      BY <2>1, <3>1, NoneAssumption DEF Answers, Answered
  <2>5. Kept'
    <3> SUFFICES ASSUME NEW i \in DOMAIN passed', passed'[i].to = "request"
                 PROVE  HeldFor(i)' \/ AnsweredWith(i)'
      BY DEF Kept
    <3>1. CASE i = Len(passed) + 1
      BY <2>3, <2>4, <3>1 DEF HeldFor, Answered
    <3>2. CASE i # Len(passed) + 1
      <4>1. i \in DOMAIN passed /\ passed[i].to = "request"
        BY <2>2, <3>2
      <4>2. QED
        BY <2>2, <2>4, <4>1 DEF Kept, HeldFor, AnsweredWith
    <3>3. QED
      BY <3>1, <3>2
  <2>6. session.pending # None
    BY <2>1 DEF Answers
  <2>7. QED
    BY <2>5, <2>6 DEF Owned, SameCalls, Waiting
<1>4. QED
  BY <1>1, <1>2, <1>3

LEMMA LiveCallers ==
  ASSUME TypeInv, Phases, MutualExclusion, Owned, Kept, NEW c \in Callers, Live, Live',
         CallStep(c) \/ TimeOut(c) \/ \E o \in Opcodes \cup {None} : Call(c, o)
  PROVE  Owned' /\ Kept'
<1> USE DEF TypeInv, TypeOK, SessionOK, CallerOK
<1>1. passed' = passed
  BY PhaseCallers
<1>2. CASE \E o \in Opcodes \cup {None} : Call(c, o)
  <2>1. /\ caller[c].pc = "idle" /\ UNCHANGED <<session, sendMtx, answers>>
        /\ \A d \in Callers : d # c => caller'[d] = caller[d]
    BY <1>2 DEF Call
  <2>2. \A d \in Callers : caller[d].pc \in Waiting \cup {"write"} => d # c
    BY <2>1 DEF Waiting
  <2>3. QED
    BY <1>1, <2>1, <2>2, KeptStays DEF Owned
<1>3. CASE Lock(c) \/ LoadSequence(c) \/ StoreSequence(c) \/ FetchSequence(c)
  <2>1. session'.pending = session.pending /\ answers' = answers
    BY <1>3 DEF Lock, LoadSequence, StoreSequence, FetchSequence, history
  <2>2. session.pending = None
    <3>1. CASE Lock(c)
      BY <3>1, NoneAssumption, SessionAssumption DEF Lock, Owned, SessionAssumption
    <3>2. CASE LoadSequence(c) \/ StoreSequence(c) \/ FetchSequence(c)
      <4>1. caller[c].pc \in Holding /\ caller[c].pc \notin Waiting \cup {"write"}
        BY <3>2 DEF LoadSequence, StoreSequence, FetchSequence, Step, Holding, Waiting
      <4>2. QED
        BY <4>1, OwnerWaits
    <3>3. QED
      BY <1>3, <3>1, <3>2
  <2>3. QED
    BY <1>1, <2>1, <2>2, KeptStays DEF Owned
<1>4. CASE Arm(c)
  <2>1. caller[c].pc = "arm" /\ caller' = [caller EXCEPT ![c].pc = "write"] /\ UNCHANGED <<sendMtx, answers>>
    BY <1>4 DEF Arm, Step, Goto, history
  <2>2. session.pending = None /\ sendMtx = c
    <3>1. caller[c].pc \in Holding /\ caller[c].pc \notin Waiting \cup {"write"}
      BY <2>1 DEF Holding, Waiting
    <3>2. QED
      BY <3>1, OwnerWaits DEF MutualExclusion
  <2>3. caller'[c].pc = "write" /\ caller'[c].op = caller[c].op
    BY <2>1
  <2>4. caller[c].op = None => session'.pending = session.pending
    BY <1>4 DEF Arm
  <2>5. Owned'
    BY <2>1, <2>2, <2>3, <2>4 DEF Owned
  <2>6. QED
    BY <1>1, <2>1, <2>2, <2>5, KeptStays DEF Answered
<1>5. CASE WriteRequest(c) \/ FindNotReady(c) \/ Park(c)
  <2>1. UNCHANGED <<session, sendMtx, answers>> /\ caller[c].pc \in Holding
    BY <1>5 DEF WriteRequest, FindNotReady, Park, Step, Holding, history
  <2>2. caller'[c].pc \in Waiting /\ caller'[c].op = caller[c].op
    BY <1>5 DEF WriteRequest, FindNotReady, Park, Step, Goto, Waiting
  <2>3. QED
    BY <1>1, <2>1, <2>2, OwnerWaits, KeptStays DEF Owned
<1>6. CASE Leaves(c)
  <2>1. caller[c].pc \in Holding
    BY <1>6, LeavesFree
  <2>2. CASE session.pending = None
    <3>1. answers' = answers /\ session'.pending = None
      BY <1>6, <2>2, Endings DEF Answered
    <3>2. QED
      BY <1>1, <2>2, <3>1, KeptStays DEF Owned, Answered
  <2>3. CASE session.pending # None
    <3>1. caller[c].op # None
      BY <2>1, <2>3, OwnerWaits
    <3>2. ~WriteTimesOut(c) /\ ~WriteFails(c)
      <4>1. ASSUME WriteTimesOut(c) PROVE FALSE
        BY <4>1 DEF WriteTimesOut, Ends, Live
      <4>2. ASSUME WriteFails(c) PROVE FALSE
        <5>1. session'.running = (session.running /\ net.link = "down") /\ net' = net
          BY <4>2 DEF WriteFails, Ends
        <5>2. QED
          BY <5>1 DEF Live, IsConnected
      <4>3. QED
        BY <4>1, <4>2
    <3>3. session'.pending = None
      BY <1>6, <3>1, <3>2 DEF Leaves, Finish, TimeOut, Conclude, Settled
    <3>4. Owned'
      BY <3>3 DEF Owned
    <3>5. CASE answers' = answers
      <4>1. ~Answered
        BY <1>6, <2>3, <3>3, <3>5, Endings, NoneAssumption DEF Live, HistoryOK
      <4>2. QED
        BY <1>1, <3>4, <3>5, <4>1, KeptStays
    <3>6. CASE answers' = Append(answers, Reply)
      <4>1. answers \in Seq([id : Nat, op : Opcodes]) /\ Len(answers) \in Nat
        BY DEF HistoryOK
      <4>2. /\ Len(answers) + 1 \in DOMAIN answers' /\ answers'[Len(answers) + 1] = Reply
            /\ \A k \in DOMAIN answers : k \in DOMAIN answers' /\ answers'[k] = answers[k]
        BY <3>6, <4>1
      <4>3. \A i : HeldFor(i) => Reply.id = i
        BY DEF HeldFor, Reply
      <4>4. \A i : HeldFor(i) \/ AnsweredWith(i) => AnsweredWith(i)'
        BY <4>2, <4>3 DEF AnsweredWith
      <4>5. QED
        BY <1>1, <3>4, <4>4 DEF Kept
    <3>7. QED
      BY <1>6, <3>5, <3>6, Endings
  <2>4. QED
    BY <2>2, <2>3
<1>7. QED
  BY <1>2, <1>3, <1>4, <1>5, <1>6 DEF CallStep, Leaves

LEMMA LiveNext == ASSUME DeliveryInv, SendInv, LiveInv, Next PROVE LiveInv'
<1> SUFFICES ASSUME Live' PROVE Owned' /\ Kept'
  BY DEF LiveInv
<1>1. Once /\ Once' /\ IsConnected' /\ TypeInv /\ Phases /\ BitOK /\ MutualExclusion
  BY DeliveryStep DEF Live, SendInv
<1>2. CASE Owner
  <2>1. SpawnReader
    BY <1>1, <1>2, CalmOwner
  <2>2. /\ session.pending = None /\ passed = <<>> /\ UNCHANGED <<passed, answers>>
        /\ session' = [session EXCEPT !.running = TRUE]
    BY <1>1, <2>1 DEF SpawnReader, OwnerAt, Phases, Opening, Pristine, history
  <2>3. session'.pending = None
    BY <1>1, <2>2 DEF TypeInv, TypeOK, SessionOK
  <2>4. QED
    BY <2>2, <2>3 DEF Owned, Kept
<1>3. CASE ~Owner
  <2>1. IsConnected /\ gaveUp \subseteq gaveUp'
    BY <1>1, <1>3, ConnectedBefore DEF Next
  <2>2. Live /\ Owned /\ Kept
    BY <1>1, <2>1 DEF Live, LiveInv
  <2>3. CASE Reader
    BY <1>1, <2>2, <2>3, CallsStay, LiveReader DEF Others
  <2>4. CASE Environment
    <3>1. UNCHANGED <<session, sendMtx, caller, passed, answers>>
      BY <2>4 DEF Environment, DeviceTakesRequest, DeviceTakesAck, DeviceNotifies, DeviceSends,
         LoseFrame, LinkBreaks, history
    <3>2. QED
      BY <2>2, <3>1, KeptStays DEF Owned
  <2>5. QED
    BY <1>1, <1>3, <2>2, <2>3, <2>4, LiveCallers DEF Next
<1>4. QED
  BY <1>2, <1>3

FateInv == DeliveryInv /\ StashInv /\ LiveInv

LEMMA FateInit == Init => StashInv /\ LiveInv
BY DEF Init, StashInv, Stash, Buffer, Holds, Returned, LiveInv, Live, IsConnected

LEMMA FateNext ==
  DeliveryInv /\ SendInv /\ StashInv /\ LiveInv /\ [Next]_vars => StashInv' /\ LiveInv'
<1>1. ASSUME StashInv, LiveInv, UNCHANGED vars PROVE StashInv' /\ LiveInv'
  <2>1. Decided' = Decided
    BY <1>1 DEF Decided, vars
  <2>2. StashInv'
    BY <1>1, <2>1, StashStays DEF StashInv, Once, vars
  <2>3. LiveInv'
    BY <1>1, KeptStays DEF LiveInv, Live, Once, IsConnected, Owned, vars
  <2>4. QED
    BY <2>2, <2>3
<1>2. QED
  BY <1>1, StashNext, LiveNext

LEMMA FateInvariant == Spec => []FateInv
BY FateInit, FateNext, DeliveryInvariant, SendInvariant, PTL DEF Spec, FateInv

\* What the headset has seen ACKed the reader has in its hands, the callbacks
\* were shown, or a request took: and that request holds it or has returned it,
\* unless the connection ended or the write of a request timed out.
THEOREM AckedIsDelivered == Spec => []ConfirmedIsDelivered
<1>1. ASSUME FateInv PROVE ConfirmedIsDelivered
  <2> SUFFICES ASSUME used.connects = 1, NEW i \in 1 .. Confirmed
               PROVE  \/ InHand(i)
                      \/ /\ i \in DOMAIN passed /\ passed[i].id = i
                         /\ passed[i].to = "request" =>
                              HeldFor(i) \/ AnsweredWith(i) \/ ~IsConnected \/ "write" \in gaveUp
    BY DEF ConfirmedIsDelivered
  <2>1. TypeInv /\ BitOK /\ Once
    BY <1>1 DEF FateInv, DeliveryInv, BitInv, Once
  <2>2. Confirmed \in Nat /\ Confirmed <= Received /\ Received \in Nat /\ Len(passed) \in Nat
    BY <2>1, CountTypes DEF BitOK, Counts
  <2>3. \/ Received = Len(passed)
        \/ Received = Len(passed) + 1 /\ reader.pc \in {"acked", "fresh", "dispatch"}
    <3>1. CASE reader.pc \in {"fresh", "dispatch"}
      BY <2>2, <3>1 DEF Received, Accepted
    <3>2. CASE reader.pc \notin {"fresh", "dispatch"}
      BY <2>2, <3>2 DEF Received, Accepted
    <3>3. QED
      BY <3>1, <3>2
  <2>4. CASE i <= Len(passed)
    <3>1. i \in DOMAIN passed /\ passed[i].id = i
      BY <2>1, <2>2, <2>4 DEF BitOK, Counts, TypeInv, TypeOK, HistoryOK
    <3>2. IsConnected /\ "write" \notin gaveUp => Kept
      BY <1>1, <2>1 DEF FateInv, LiveInv, Live
    <3>3. QED
      BY <3>1, <3>2 DEF Kept
  <2>5. CASE i > Len(passed)
    <3>1. i = Len(passed) + 1 /\ reader.pc \in {"acked", "fresh", "dispatch"}
      BY <2>2, <2>3, <2>5
    <3>2. QED
      BY <3>1 DEF InHand
  <2>6. QED
    BY <2>2, <2>4, <2>5
<1>2. QED
  BY <1>1, FateInvariant, PTL

-----------------------------------------------------------------------------
(* The receive half of the session implements OrderedDelivery. *)

\* What has been decided on has been produced.
LEMMA Made ==
  ASSUME TypeInv, BitOK
  PROVE  /\ Received <= dev.made /\ Decided <= dev.made /\ Decided <= Len(passed) + 1
         /\ Received \in Nat /\ dev.made \in Nat /\ Len(passed) \in Nat
<1>1. /\ Received <= Confirmed + (IF dev.sent THEN 1 ELSE 0) /\ Confirmed \in Nat
      /\ Received \in Nat /\ dev.made \in Nat /\ dev.queue \in Seq(Message)
      /\ dev.sent => dev.queue # <<>>
  BY CountTypes DEF BitOK, Counts, Headset, TypeInv, InFlight
<1>2. Len(dev.queue) \in Nat /\ (dev.queue # <<>> => Len(dev.queue) > 0)
  BY <1>1
<1>3. Received <= dev.made
  BY <1>1, <1>2 DEF Confirmed
<1>4. Decided <= Received /\ Decided <= Len(passed) + 1 /\ Decided \in Nat /\ Len(passed) \in Nat
  <2>1. Len(passed) \in Nat /\ Accepted \in Nat /\ Received \in {Accepted, Accepted + 1}
    BY CountTypes DEF Received
  <2>2. Decided \in {Len(passed), Len(passed) + 1} /\ Decided <= Accepted
    BY <2>1 DEF Decided, Accepted
  <2>3. QED
    BY <2>1, <2>2
<1>5. QED
  BY <1>1, <1>3, <1>4

Quietly == passed' = passed /\ answers' = answers
Replies ==
  /\ dev' = dev /\ passed' = passed /\ answers' = Append(answers, Reply)
  /\ Reply.id \in 1 .. dev.made /\ Reply.id <= Len(passed) + 1 /\ Reply.op \in Opcodes
  /\ \A k \in DOMAIN answers : Later(answers[k], Reply)

\* What a step makes of the frames produced, passed on and answered with.
LEMMA DeliverySteps ==
  ASSUME DeliveryInv, StashInv, Next, Once'
  PROVE  \/ dev'.made = dev.made /\ Quietly
         \/ dev'.made = dev.made + 1 /\ Quietly
         \/ /\ dev'.made = dev.made /\ Len(passed) < dev.made /\ answers' = answers
            /\ \E to \in Routes : Pass(to)
         \/ Replies
         \/ dev'.made = 0 /\ passed' = <<>> /\ answers' = <<>>
<1>1. Once /\ TypeInv /\ TypeInv' /\ Phases /\ BitOK /\ Stash
  BY DeliveryStep DEF StashInv
<1>2. CASE Reader
  <2>1. UNCHANGED <<dev, answers>>
    BY <1>2 DEF Reader, Receive, StopReceiving, HandleAck, AckData, DropDuplicate, RememberSequence,
       MatchRequest, KeepUnmatched, Dispatch, ReaderStops, ReaderNotifies, Passes, history
  <2>2. CASE MatchRequest \/ Dispatch
    <3>1. PICK to \in Routes : reader.pc \in {"fresh", "dispatch"} /\ Passes(Current, to)
      BY <2>2 DEF MatchRequest, Dispatch, Routes
    <3>2. Received = Len(passed) + 1 /\ Pass(to)
      BY <1>1, <3>1, PassedInOrder
    <3>3. Received <= dev.made /\ Len(passed) \in Nat /\ dev.made \in Nat
      BY <1>1, Made
    <3>4. QED
      BY <2>1, <3>2, <3>3
  <2>3. CASE ~MatchRequest /\ ~Dispatch
    <3>1. UNCHANGED passed
      BY <1>2, <2>3 DEF Reader, Receive, StopReceiving, HandleAck, AckData, DropDuplicate,
         RememberSequence, KeepUnmatched, ReaderStops, ReaderNotifies, history
    <3>2. QED
      BY <2>1, <3>1 DEF Quietly
  <2>4. QED
    BY <2>2, <2>3
<1>3. CASE Owner
  <2>1. CASE OpenTransport
    BY <2>1 DEF OpenTransport, FreshDevice
  <2>2. CASE ~OpenTransport
    <3>1. UNCHANGED <<dev, passed, answers>>
      BY <1>3, <2>2 DEF Owner, Connect, BeginDisconnect, StopReader, JoinReader, ClearSession,
         ConnectFails, Start, SpawnReader, history
    <3>2. QED
      BY <3>1 DEF Quietly
  <2>3. QED
    BY <2>1, <2>2
<1>4. CASE Environment
  <2>1. UNCHANGED <<passed, answers>>
    BY <1>4 DEF Environment, DeviceTakesRequest, DeviceTakesAck, DeviceNotifies, DeviceSends,
       LoseFrame, LinkBreaks, history
  <2>2. dev'.made = dev.made \/ dev'.made = dev.made + 1
    <3>1. CASE DeviceTakesRequest
      BY <1>1, <3>1, TakesRequest
    <3>2. CASE DeviceNotifies
      BY <1>1, <3>2, CountTypes, ProducesFrame DEF DeviceNotifies
    <3>3. CASE DeviceTakesAck
      BY <1>1, <3>3, CountTypes DEF DeviceTakesAck, Headset
    <3>4. CASE DeviceSends
      BY <1>1, <3>4, CountTypes DEF DeviceSends, Headset
    <3>5. CASE LoseFrame \/ LinkBreaks
      BY <3>5 DEF LoseFrame, LinkBreaks
    <3>6. QED
      BY <1>4, <3>1, <3>2, <3>3, <3>4, <3>5 DEF Environment
  <2>3. QED
    BY <2>1, <2>2 DEF Quietly
<1>5. ASSUME NEW c \in Callers, CallStep(c) \/ TimeOut(c) \/ \E o \in Opcodes \cup {None} : Call(c, o)
      PROVE  dev' = dev /\ passed' = passed /\ (answers' = answers \/ Replies)
  <2>1. dev' = dev /\ passed' = passed
    BY <1>1, <1>5, PhaseCallers
  <2>2. CASE ~Leaves(c)
    <3>1. answers' = answers
      BY <1>5, <2>2 DEF Leaves, CallStep, Call, Lock, LoadSequence, StoreSequence, FetchSequence, Arm,
         WriteRequest, FindNotReady, Park, history
    <3>2. QED
      BY <2>1, <3>1
  <2>3. CASE Leaves(c) /\ answers' # answers
    <3>1. Answered /\ answers' = Append(answers, Reply)
      BY <1>1, <2>3, Endings
    <3>2. /\ Reply.id \in 1 .. Decided
          /\ \A k \in DOMAIN answers : Later(answers[k], Reply)
      BY <1>1, <3>1 DEF Answered, Stash, Holds
    <3>3. Reply.id \in 1 .. dev.made /\ Reply.id <= Len(passed) + 1
      BY <1>1, <3>2, Made, DecidedType
    <3>4. Reply.op \in Opcodes
      BY <1>1, <3>1 DEF Reply, Answered, Request, TypeInv, TypeOK, SessionOK
    <3>5. QED
      BY <2>1, <3>1, <3>2, <3>3, <3>4 DEF Replies
  <2>4. QED
    BY <2>1, <2>2, <2>3
<1>6. QED
  BY <1>2, <1>3, <1>4, <1>5 DEF Next, Quietly

\* The receive half of a session implements OrderedDelivery: frames are passed
\* on in order, each once, and a request is answered with a frame that answered
\* none before, later than all that answered its opcode.
THEOREM ReceiveHalfIsOrdered == Spec => DeliversInOrder
<1>1. Init => Delivery!Init
  BY DEF Init, Delivery!Init, FreshDevice
<1>2. FateInv /\ [Next]_vars => [Delivery!Next]_(Delivery!vars)
  <2>1. ASSUME FateInv, Next PROVE [Delivery!Next]_(Delivery!vars)
    <3>1. CASE Once'
      <4>1. Once
        BY <2>1, <3>1, DeliveryStep DEF FateInv
      <4>2. CASE dev'.made = dev.made /\ Quietly
        BY <3>1, <4>1, <4>2 DEF Once, Quietly, Delivery!vars
      <4>3. CASE dev'.made = dev.made + 1 /\ Quietly
        BY <3>1, <4>1, <4>3 DEF Once, Quietly, Delivery!Next, Delivery!Produce
      <4>4. CASE /\ dev'.made = dev.made /\ Len(passed) < dev.made /\ answers' = answers
                 /\ \E to \in Routes : Pass(to)
        BY <3>1, <4>1, <4>4 DEF Once, Routes, Pass, Delivery!Next, Delivery!PassOn
      <4>5. CASE Replies
        <5>1. /\ answers' = Append(answers, [id |-> Reply.id, op |-> Reply.op])
              /\ \A k \in DOMAIN answers : answers[k].id # Reply.id
                                           /\ (answers[k].op = Reply.op => answers[k].id < Reply.id)
          BY <4>5 DEF Replies, Reply, Later
        <5>2. Delivery!Answer(Reply.id, Reply.op)
          BY <3>1, <4>1, <4>5, <5>1 DEF Replies, Once, Delivery!Answer
        <5>3. QED
          BY <3>1, <4>1, <4>5, <5>2 DEF Replies, Once, Delivery!Next
      <4>6. CASE dev'.made = 0 /\ passed' = <<>> /\ answers' = <<>>
        BY <3>1, <4>1, <4>6 DEF Once, Delivery!Next, Delivery!Reconnect
      <4>7. QED
        BY <2>1, <3>1, <4>2, <4>3, <4>4, <4>5, <4>6, DeliverySteps DEF FateInv
    <3>2. CASE ~Once'
      BY <3>2 DEF Once, Delivery!Next, Delivery!Reconnect
    <3>3. QED
      BY <3>1, <3>2
  <2>2. ASSUME UNCHANGED vars PROVE UNCHANGED Delivery!vars
    BY <2>2 DEF vars, Delivery!vars
  <2>3. QED
    BY <2>1, <2>2
<1>3. QED
  BY <1>1, <1>2, FateInvariant, PTL DEF Spec, Delivery!Spec, DeliversInOrder
=============================================================================
