------------------------- MODULE SonySessionProofs -------------------------
(***************************************************************************)
(* Theorems about SonyProtocolSession, for every set of callers, every     *)
(* modulus above 4 and every bound.                                        *)
(***************************************************************************)
EXTENDS SonySessionProperties, TLAPS

\* Facts the type invariant rests on: a frame is in the reader's hands whenever
\* it handles one, a call under way has a number, and the frame the headset has
\* in flight is the head of its queue.
Busy == {"frame", "acked", "fresh", "dispatch"}
HandsFull == reader.pc \in Busy => reader.batch # <<>>
Numbered == \A c \in Callers : caller[c].pc # "idle" => caller[c].call \in Calls
InFlight == dev.sent => dev.queue # <<>>

TypeInv == TypeOK /\ HandsFull /\ Numbered /\ InFlight

Usage == [calls : 0 .. MaxCalls, faults : Nat, connects : Nat, disconnects : Nat]

Pcs == {"idle", "lock", "load", "store", "fetch", "arm", "write", "check", "parking", "parked"}

LEMMA Moduli == /\ SeqModulus \in Nat /\ SeqModulus > 4
                /\ \A s \in SeqNo : s \in Nat /\ s % 2 \in {0, 1} /\ 1 - (s % 2) \in {0, 1}
                /\ {0, 1} \subseteq SeqNo
                /\ \A s \in SeqNo : Successor(s) \in SeqNo
BY SessionAssumption DEF SessionAssumption, SeqNo, Successor

\* What the sequences a step builds are made of.
LEMMA Pieces ==
  ASSUME NEW S, NEW s \in Seq(S)
  PROVE  /\ \A e \in S : Append(s, e) \in Seq(S)
         /\ s # <<>> => Head(s) \in S /\ Tail(s) \in Seq(S)
         /\ \A i \in DOMAIN s : s[i] \in S /\ Without(s, i) \in Seq(S)
         /\ \A n \in 1 .. Len(s) : /\ SubSeq(s, 1, n) \in Seq(S) /\ SubSeq(s, 1, n) # <<>>
                                   /\ SubSeq(s, n + 1, Len(s)) \in Seq(S)
<1>1. \A e \in S : Append(s, e) \in Seq(S)
  OBVIOUS
<1>2. s # <<>> => Head(s) \in S /\ Tail(s) \in Seq(S)
  OBVIOUS
<1>3. ASSUME NEW i \in DOMAIN s
      PROVE  s[i] \in S /\ Without(s, i) \in Seq(S)
  <2>1. i \in 1 .. Len(s) /\ s[i] \in S
    OBVIOUS
  <2>2. SubSeq(s, 1, i - 1) \in Seq(S)
    BY <2>1
  <2>3. SubSeq(s, i + 1, Len(s)) \in Seq(S)
    BY <2>1
  <2>4. QED
    BY <2>1, <2>2, <2>3 DEF Without
<1>4. ASSUME NEW n \in 1 .. Len(s)
      PROVE  /\ SubSeq(s, 1, n) \in Seq(S) /\ SubSeq(s, 1, n) # <<>>
             /\ SubSeq(s, n + 1, Len(s)) \in Seq(S)
  <2>1. SubSeq(s, 1, n) \in Seq(S) /\ Len(SubSeq(s, 1, n)) = n
    OBVIOUS
  <2>2. SubSeq(s, n + 1, Len(s)) \in Seq(S)
    OBVIOUS
  <2>3. QED
    BY <2>1, <2>2
<1>5. QED
  BY <1>1, <1>2, <1>3, <1>4

LEMMA Shorter ==
  ASSUME NEW S, NEW s \in Seq(S), NEW i \in DOMAIN s
  PROVE  Len(Without(s, i)) <= Len(s)
<1>1. i \in 1 .. Len(s) /\ Len(s) \in Nat
  OBVIOUS
<1>2. /\ SubSeq(s, 1, i - 1) \in Seq(S) /\ Len(SubSeq(s, 1, i - 1)) = i - 1
      /\ SubSeq(s, i + 1, Len(s)) \in Seq(S) /\ Len(SubSeq(s, i + 1, Len(s))) = Len(s) - i
  BY <1>1
<1>3. Len(Without(s, i)) = (i - 1) + (Len(s) - i)
  BY <1>2 DEF Without
<1>4. QED
  BY <1>1, <1>3

\* A fault is counted, and the history is otherwise left alone.
LEMMA FaultType == ASSUME TypeInv, UNCHANGED used \/ Fault PROVE used' \in Usage
<1>1. used \in Usage
  BY DEF TypeInv, TypeOK, HistoryOK, Usage
<1>2. QED
  BY <1>1 DEF Fault, Usage

LEMMA HistoryKept == ASSUME TypeInv, UNCHANGED history, used' \in Usage PROVE HistoryOK'
BY DEF TypeInv, TypeOK, HistoryOK, Usage, history

-----------------------------------------------------------------------------
(* The values the callers' helpers compute. *)

Results == {"ok", "timeout", "disconnected"}

LEMMA RequestTypes ==
  ASSUME TypeInv, NEW c \in Callers
  PROVE  /\ Settled(c) \in Request \cup {None}
         /\ Orphaned(c) \in Request \cup {None}
         /\ Evidence(c) => Taken(c) \in Calls \cup {None}
         /\ caller[c].op # None /\ caller[c].call \in Calls =>
              \A r \in Frame \cup {None} : NewRequest(c, r) \in Request
<1> USE DEF TypeInv, TypeOK, SessionOK, CallerOK
<1>1. Settled(c) \in Request \cup {None}
  BY DEF Settled
<1>2. Orphaned(c) \in Request \cup {None}
  BY DEF Orphaned, Request
<1>3. Evidence(c) => Taken(c) \in Calls \cup {None}
  BY DEF Evidence, Answered, Taken, Request, Frame
<1>4. caller[c].op # None /\ caller[c].call \in Calls =>
        \A r \in Frame \cup {None} : NewRequest(c, r) \in Request
  BY DEF NewRequest, Request
<1>5. QED
  BY <1>1, <1>2, <1>3, <1>4

\* A caller moves on within its call, or waiters are woken.
LEMMA CallerMoves ==
  ASSUME TypeInv, NEW c \in Callers, NEW to \in Pcs, caller[c].pc # "idle", Goto(c, to),
         sendMtx' \in Callers \cup {None}
  PROVE  CallerOK' /\ Numbered'
BY DEF TypeInv, TypeOK, CallerOK, Numbered, Goto, Pcs

LEMMA CallersWoken ==
  ASSUME TypeInv, NEW cs, caller' = Woken(cs), UNCHANGED sendMtx
  PROVE  CallerOK' /\ Numbered'
<1> USE DEF TypeInv, TypeOK
<1>1. ASSUME NEW c \in Callers
      PROVE  /\ caller'[c] \in [pc : Pcs, call : Calls \cup {None}, op : Opcodes \cup {None},
                                reg : SeqNo]
             /\ caller'[c].pc # "idle" => caller'[c].call \in Calls
  <2>1. caller'[c] = caller[c] \/ caller'[c] = [caller[c] EXCEPT !.pc = "check"]
    BY DEF Woken
  <2>2. caller'[c].pc # "idle" => caller[c].pc # "idle"
    BY DEF Woken
  <2>3. QED
    BY <2>1, <2>2 DEF CallerOK, Numbered, Pcs
<1>2. caller' = [c \in Callers |-> caller'[c]]
  BY DEF Woken
<1>3. QED
  BY <1>1, <1>2 DEF CallerOK, Numbered, Pcs

\* A call that ends leaves everything but the session and the bounds well typed.
LEMMA EndsType ==
  ASSUME TypeInv, NEW c \in Callers, caller[c].pc \in {"write", "check", "parked"},
         NEW out \in Results, NEW from \in Calls \cup {None}, Ends(c, out, from),
         out = "ok" => Evidence(c), SessionOK', used' \in Usage
  PROVE  TypeInv'
<1> USE DEF TypeInv, TypeOK, Ends
<1>1. CallerOK' /\ Numbered'
  BY CallerMoves DEF Pcs
<1>2. ThreadsOK' /\ HandsFull' /\ WireOK' /\ InFlight'
  BY DEF ThreadsOK, HandsFull, WireOK, InFlight
<1>3. HistoryOK'
  <2>1. [out |-> out, call |-> caller[c].call, from |-> from, op |-> caller[c].op]
           \in [out : {"ok", "timeout", "disconnected"}, call : Calls,
               from : Calls \cup {None}, op : Opcodes \cup {None}]
    BY DEF Numbered, CallerOK, Results
  <2>2. answers' \in Seq([id : Nat, op : Opcodes])
    <3>1. CASE out = "ok" /\ caller[c].op # None
      <4>1. session.pending \in Request /\ session.pending.response \in Frame
        BY <3>1 DEF Evidence, Answered, SessionOK, Request
      <4>2. Reply \in [id : Nat, op : Opcodes]
        BY <4>1 DEF Reply, Frame, Request
      <4>3. QED
        BY <3>1, <4>2 DEF HistoryOK
    <3>2. CASE ~(out = "ok" /\ caller[c].op # None)
      <4>1. answers' = answers
        BY <3>2
      <4>2. QED
        BY <4>1 DEF HistoryOK
    <3>3. QED
      BY <3>1, <3>2
  <2>3. gaveUp' \subseteq {"write", "check", "parked"}
    BY DEF HistoryOK
  <2>4. passed' = passed /\ outcome' = [outcome EXCEPT ![c] = [out |-> out, call |-> caller[c].call,
                                                             from |-> from, op |-> caller[c].op]]
    OBVIOUS
  <2> HIDE DEF Ends
  <2>5. QED
    BY <2>1, <2>2, <2>3, <2>4 DEF HistoryOK, Usage
<1>4. QED
  BY <1>1, <1>2, <1>3

LEMMA TypeWriteTimesOut == ASSUME TypeInv, NEW c \in Callers, WriteTimesOut(c) PROVE TypeInv'
<1>1. SessionOK'
  BY RequestTypes DEF TypeInv, TypeOK, SessionOK, WriteTimesOut
<1>2. used' \in Usage
  BY FaultType DEF WriteTimesOut
<1>3. QED
  BY <1>1, <1>2, EndsType DEF WriteTimesOut, Results

LEMMA TypeWriteFails == ASSUME TypeInv, NEW c \in Callers, WriteFails(c) PROVE TypeInv'
<1>1. SessionOK'
  BY RequestTypes DEF TypeInv, TypeOK, SessionOK, WriteFails
<1>2. used' \in Usage
  BY FaultType DEF WriteFails
<1>3. QED
  BY <1>1, <1>2, EndsType DEF WriteFails, Results

LEMMA TypeConclude ==
  ASSUME TypeInv, NEW c \in Callers, caller[c].pc \in {"check", "parked"}, Conclude(c)
  PROVE  TypeInv'
<1>1. SessionOK'
  <2>1. Settled(c) \in Request \cup {None}
    BY DEF Settled, TypeInv, TypeOK, SessionOK
  <2>2. \/ session' = [session EXCEPT !.pending = Settled(c)]
        \/ session' = [session EXCEPT !.pending = Settled(c), !.hasAck = None]
    BY DEF Conclude
  <2>3. QED
    BY <2>1, <2>2 DEF TypeInv, TypeOK, SessionOK
<1>2. used' \in Usage
  BY FaultType DEF Conclude
<1>3. PICK out \in Results, from \in Calls \cup {None} :
        Ends(c, out, from) /\ (out = "ok" => Evidence(c))
  BY RequestTypes DEF Conclude, Results
<1>4. QED
  BY <1>1, <1>2, <1>3, EndsType

LEMMA TypeFinish == ASSUME TypeInv, NEW c \in Callers, Finish(c) \/ TimeOut(c) PROVE TypeInv'
BY TypeConclude DEF Finish, TimeOut

\* The reader moves on with the frame it has, or to the next one.
LEMMA ReaderMoves ==
  ASSUME TypeInv, NEW from, NEW to \in Busy \cup {"exit", "bye", "done"}, ReaderAt(from, to),
         to \in Busy => from \in Busy, UNCHANGED owner
  PROVE  ThreadsOK' /\ HandsFull'
BY DEF TypeInv, TypeOK, ThreadsOK, HandsFull, ReaderAt, Busy

LEMMA ReaderAdvances ==
  ASSUME TypeInv, reader.pc \in Busy, NextFrame, UNCHANGED owner
  PROVE  ThreadsOK' /\ HandsFull'
<1> USE DEF TypeInv, TypeOK, ThreadsOK
<1>1. reader.batch \in Seq(Frame) /\ reader.batch # <<>>
  BY DEF HandsFull
<1>2. Tail(reader.batch) \in Seq(Frame) /\ (Len(reader.batch) > 1 => Tail(reader.batch) # <<>>)
  BY <1>1
<1>3. QED
  BY <1>2 DEF NextFrame, HandsFull, Busy

\* The frame in the reader's hands is one.
LEMMA CurrentType == ASSUME TypeInv, reader.pc \in Busy PROVE Current \in Frame
BY DEF TypeInv, TypeOK, ThreadsOK, HandsFull, Current

LEMMA TypeArm == ASSUME TypeInv, NEW c \in Callers, Arm(c) PROVE TypeInv'
<1> USE DEF TypeInv, TypeOK
<1>1. SessionOK'
  <2>1. CASE caller[c].op = None
    BY <2>1 DEF SessionOK, Arm
  <2>2. CASE caller[c].op # None
    <3>1. \A r \in Frame \cup {None} : NewRequest(c, r) \in Request
      BY <2>2, RequestTypes DEF Arm, Step, Numbered
    <3>2. CASE session' = [session EXCEPT !.hasAck = None, !.pending = NewRequest(c, None)]
      BY <3>1, <3>2 DEF SessionOK
    <3>3. CASE \E i \in Buffered(caller[c].op) :
                 session' = [session EXCEPT !.hasAck = None, !.unmatched = Without(@, i),
                                            !.pending = NewRequest(c, session.unmatched[i])]
      <4>1. PICK i \in Buffered(caller[c].op) :
                 session' = [session EXCEPT !.hasAck = None, !.unmatched = Without(@, i),
                                            !.pending = NewRequest(c, session.unmatched[i])]
        BY <3>3
      <4>2. i \in DOMAIN session.unmatched /\ session.unmatched \in Seq(Frame)
        BY DEF Buffered, SessionOK
      <4>3. session.unmatched[i] \in Frame /\ Without(session.unmatched, i) \in Seq(Frame)
        BY <4>2, Pieces
      <4>4. Len(Without(session.unmatched, i)) <= MaxUnmatched
        BY <4>2, <4>3, Shorter, SessionAssumption DEF SessionOK, SessionAssumption
      <4>5. NewRequest(c, session.unmatched[i]) \in Request
        BY <3>1, <4>3
      <4>6. QED
        BY <4>1, <4>3, <4>4, <4>5 DEF SessionOK
    <3>4. QED
      BY <2>2, <3>2, <3>3 DEF Arm
  <2>3. QED
    BY <2>1, <2>2
<1>2. CallerOK' /\ Numbered'
  BY CallerMoves DEF Arm, Step, Pcs, CallerOK
<1>3. ThreadsOK' /\ HandsFull' /\ WireOK' /\ InFlight' /\ HistoryOK'
  <2>1. UNCHANGED <<reader, owner, net, dev, used, history>>
    BY DEF Arm
  <2>2. QED
    BY <2>1 DEF ThreadsOK, HandsFull, WireOK, InFlight, HistoryOK, history
<1>4. QED
  BY <1>1, <1>2, <1>3

LEMMA TypeCall ==
  ASSUME TypeInv, NEW c \in Callers, NEW o \in Opcodes \cup {None}, Call(c, o)
  PROVE  TypeInv'
<1> USE DEF TypeInv, TypeOK
<1>1. used.calls + 1 \in Calls /\ used.calls + 1 \in 0 .. MaxCalls
  BY SessionAssumption DEF HistoryOK, Call, Calls, SessionAssumption
<1>2. CallerOK' /\ Numbered'
  BY <1>1, Moduli DEF CallerOK, Numbered, Call
<1>3. HistoryOK'
  BY <1>1 DEF HistoryOK, Call
<1>4. SessionOK' /\ ThreadsOK' /\ HandsFull' /\ WireOK' /\ InFlight'
  BY DEF SessionOK, ThreadsOK, HandsFull, WireOK, InFlight, Call
<1>5. QED
  BY <1>2, <1>3, <1>4

\* The steps that only move the caller, its number or the sequence number.
LEMMA TypeSequence ==
  ASSUME TypeInv, NEW c \in Callers,
         LoadSequence(c) \/ StoreSequence(c) \/ FetchSequence(c)
  PROVE  TypeInv'
<1> USE DEF TypeInv, TypeOK
<1>1. SessionOK'
  <2>1. CASE LoadSequence(c)
    BY <2>1 DEF SessionOK, LoadSequence
  <2>2. CASE StoreSequence(c)
    <3>1. caller[c].reg % 2 \in SeqNo
      BY Moduli DEF CallerOK
    <3>2. QED
      BY <2>2, <3>1 DEF SessionOK, StoreSequence
  <2>3. CASE FetchSequence(c)
    <3>1. Successor(session.sequence) \in SeqNo
      BY Moduli DEF SessionOK
    <3>2. QED
      BY <2>3, <3>1 DEF SessionOK, FetchSequence
  <2>4. QED
    BY <2>1, <2>2, <2>3
<1>2. CallerOK' /\ Numbered'
  <2>1. CASE LoadSequence(c)
    BY <2>1 DEF CallerOK, Numbered, SessionOK, LoadSequence
  <2>2. CASE StoreSequence(c)
    BY <2>2, CallerMoves DEF StoreSequence, Step, Pcs, CallerOK
  <2>3. CASE FetchSequence(c)
    BY <2>3 DEF CallerOK, Numbered, SessionOK, FetchSequence
  <2>4. QED
    BY <2>1, <2>2, <2>3
<1>3. ThreadsOK' /\ HandsFull' /\ WireOK' /\ InFlight' /\ HistoryOK'
  <2>1. UNCHANGED <<reader, owner, net, dev, used, history>>
    BY DEF LoadSequence, StoreSequence, FetchSequence
  <2>2. ThreadsOK' /\ HandsFull'
    BY <2>1 DEF ThreadsOK, HandsFull
  <2>3. WireOK' /\ InFlight' /\ HistoryOK'
    BY <2>1 DEF WireOK, InFlight, HistoryOK, history
  <2>4. QED
    BY <2>2, <2>3
<1>4. QED
  BY <1>1, <1>2, <1>3

LEMMA TypeWait ==
  ASSUME TypeInv, NEW c \in Callers, Lock(c) \/ FindNotReady(c) \/ Park(c)
  PROVE  TypeInv'
<1> USE DEF TypeInv, TypeOK
<1>1. CallerOK' /\ Numbered'
  <2>1. sendMtx' \in Callers \cup {None}
    BY DEF Lock, FindNotReady, Park, CallerOK
  <2>2. \E from, to \in Pcs \ {"idle"} : Step(c, from, to)
    BY DEF Lock, FindNotReady, Park, Pcs
  <2>3. QED
    BY <2>1, <2>2, CallerMoves DEF Step
<1>2. SessionOK' /\ ThreadsOK' /\ HandsFull' /\ WireOK' /\ InFlight' /\ HistoryOK'
  <2>1. UNCHANGED <<session, reader, owner, net, dev, used, history>>
    BY DEF Lock, FindNotReady, Park
  <2>2. SessionOK' /\ ThreadsOK' /\ HandsFull'
    BY <2>1 DEF SessionOK, ThreadsOK, HandsFull
  <2>3. WireOK' /\ InFlight' /\ HistoryOK'
    BY <2>1 DEF WireOK, InFlight, HistoryOK, history
  <2>4. QED
    BY <2>2, <2>3
<1>3. QED
  BY <1>1, <1>2

LEMMA TypeWriteRequest == ASSUME TypeInv, NEW c \in Callers, WriteRequest(c) PROVE TypeInv'
<1> USE DEF TypeInv, TypeOK
<1>1. CallerOK' /\ Numbered'
  BY CallerMoves DEF WriteRequest, Step, Pcs, CallerOK
<1>2. RequestFrame(c) \in Frame
  BY DEF RequestFrame, Frame, CallerOK, WriteRequest, Step
<1>3. WireOK' /\ InFlight'
  <2>1. Append(net.toDev, RequestFrame(c)) \in Seq(Frame)
    BY <1>2 DEF WireOK
  <2>2. net' = [net EXCEPT !.toDev = Append(@, RequestFrame(c))] /\ UNCHANGED dev
    BY DEF WriteRequest
  <2>3. QED
    BY <2>1, <2>2 DEF WireOK, InFlight
<1>4. SessionOK' /\ ThreadsOK' /\ HandsFull' /\ HistoryOK'
  BY DEF SessionOK, ThreadsOK, HandsFull, HistoryOK, WriteRequest, history
<1>5. QED
  BY <1>1, <1>3, <1>4

LEMMA TypeCallers ==
  ASSUME TypeInv, NEW c \in Callers,
         \/ \E o \in Opcodes \cup {None} : Call(c, o)
         \/ CallStep(c) \/ TimeOut(c)
  PROVE  TypeInv'
BY TypeCall, TypeSequence, TypeWait, TypeArm, TypeWriteRequest, TypeWriteTimesOut, TypeWriteFails,
   TypeFinish DEF CallStep
-----------------------------------------------------------------------------
(* The reader *)

LEMMA TypeReceive == ASSUME TypeInv, Receive PROVE TypeInv'
<1> USE DEF TypeInv, TypeOK
<1>1. PICK n \in 1 .. Len(net.toHost) :
        /\ reader' = [pc |-> "frame", batch |-> SubSeq(net.toHost, 1, n)]
        /\ net' = [net EXCEPT !.toHost = SubSeq(@, n + 1, Len(@))]
  BY DEF Receive
<1>2. net.toHost \in Seq(Frame)
  BY DEF WireOK
<1>3. /\ SubSeq(net.toHost, 1, n) \in Seq(Frame) /\ SubSeq(net.toHost, 1, n) # <<>>
      /\ SubSeq(net.toHost, n + 1, Len(net.toHost)) \in Seq(Frame)
  BY <1>2, Pieces
<1>4. UNCHANGED <<session, sendMtx, caller, owner, dev, used, history>>
  BY DEF Receive
<1>5. ThreadsOK' /\ HandsFull'
  BY <1>1, <1>3, <1>4 DEF ThreadsOK, HandsFull
<1>6. WireOK' /\ InFlight'
  BY <1>1, <1>3, <1>4 DEF WireOK, InFlight
<1>7. SessionOK' /\ CallerOK' /\ Numbered' /\ HistoryOK'
  BY <1>4 DEF SessionOK, CallerOK, Numbered, HistoryOK, history
<1>8. QED
  BY <1>5, <1>6, <1>7

LEMMA TypeHandleAck == ASSUME TypeInv, HandleAck PROVE TypeInv'
<1> USE DEF TypeInv, TypeOK
<1>1. Current \in Frame
  BY CurrentType DEF HandleAck, Busy
<1>2. SessionOK'
  BY <1>1 DEF SessionOK, HandleAck, Frame
<1>3. CallerOK' /\ Numbered'
  BY CallersWoken DEF HandleAck
<1>4. ThreadsOK' /\ HandsFull'
  BY ReaderAdvances DEF HandleAck, Busy
<1>5. WireOK' /\ InFlight' /\ HistoryOK'
  BY DEF WireOK, InFlight, HistoryOK, HandleAck, history
<1>6. QED
  BY <1>2, <1>3, <1>4, <1>5

LEMMA TypeAckData == ASSUME TypeInv, AckData PROVE TypeInv'
<1> USE DEF TypeInv, TypeOK
<1>1. Current \in Frame
  BY CurrentType DEF AckData, ReaderAt, Busy
<1>2. Append(net.toDev, HostAck(Current)) \in Seq(Frame)
  <2>1. HostAck(Current) \in Frame
    BY <1>1, Moduli DEF HostAck, Frame
  <2>2. QED
    BY <2>1 DEF WireOK
<1>3. WireOK' /\ InFlight'
  BY <1>2 DEF WireOK, InFlight, AckData
<1>4. CallerOK' /\ Numbered'
  <2>1. UNCHANGED sendMtx /\ (UNCHANGED caller \/ caller' = Woken(Callers))
    BY DEF AckData
  <2>2. CASE UNCHANGED caller
    BY <2>1, <2>2 DEF CallerOK, Numbered
  <2>3. QED
    BY <2>1, <2>2, CallersWoken
<1>5. SessionOK'
  BY DEF SessionOK, AckData
<1>6. ThreadsOK' /\ HandsFull'
  BY ReaderMoves DEF AckData, Busy
<1>7. HistoryOK'
  <2>1. UNCHANGED history /\ (UNCHANGED used \/ Fault)
    BY DEF AckData
  <2>2. QED
    BY <2>1, FaultType, HistoryKept
<1>8. QED
  BY <1>3, <1>4, <1>5, <1>6, <1>7

LEMMA TypeDuplicates == ASSUME TypeInv, DropDuplicate \/ RememberSequence PROVE TypeInv'
<1> USE DEF TypeInv, TypeOK
<1>1. Current \in Frame
  BY CurrentType DEF DropDuplicate, RememberSequence, ReaderAt, Busy
<1>2. SessionOK'
  BY <1>1 DEF SessionOK, DropDuplicate, RememberSequence, Frame
<1>3. ThreadsOK' /\ HandsFull'
  BY ReaderMoves, ReaderAdvances DEF DropDuplicate, RememberSequence, Busy, ReaderAt
<1>4. CallerOK' /\ Numbered' /\ WireOK' /\ InFlight' /\ HistoryOK'
  BY DEF CallerOK, Numbered, WireOK, InFlight, HistoryOK, DropDuplicate, RememberSequence, history
<1>5. QED
  BY <1>2, <1>3, <1>4

LEMMA TypeMatchRequest == ASSUME TypeInv, MatchRequest PROVE TypeInv'
<1> USE DEF TypeInv, TypeOK
<1>1. Current \in Frame
  BY CurrentType DEF MatchRequest, Busy
<1>2. SessionOK'
  <2>1. [session.pending EXCEPT !.response = Current] \in Request
    BY <1>1 DEF SessionOK, MatchRequest, Answers, Request
  <2>2. session' = [session EXCEPT !.pending = [@ EXCEPT !.response = Current]]
    BY DEF MatchRequest
  <2>3. QED
    BY <2>1, <2>2 DEF SessionOK
<1>3. CallerOK' /\ Numbered'
  BY CallersWoken DEF MatchRequest
<1>4. ThreadsOK' /\ HandsFull'
  BY ReaderAdvances DEF MatchRequest, Busy
<1>5. WireOK' /\ InFlight'
  BY DEF WireOK, InFlight, MatchRequest
<1>6. HistoryOK'
  BY <1>1 DEF HistoryOK, MatchRequest, Passes, Frame
<1>7. QED
  BY <1>2, <1>3, <1>4, <1>5, <1>6

\* The cap of _unmatchedFrames.
LEMMA CappedType ==
  ASSUME NEW s \in Seq(Frame), Len(s) <= MaxUnmatched, NEW f \in Frame
  PROVE  Capped(Append(s, f)) \in Seq(Frame) /\ Len(Capped(Append(s, f))) <= MaxUnmatched
<1>1. Append(s, f) \in Seq(Frame) /\ Len(Append(s, f)) = Len(s) + 1 /\ Append(s, f) # <<>>
  OBVIOUS
<1>2. Tail(Append(s, f)) \in Seq(Frame) /\ Len(Tail(Append(s, f))) = Len(s)
  BY <1>1
<1>3. QED
  BY <1>1, <1>2, SessionAssumption DEF Capped, SessionAssumption

LEMMA TypeKeepUnmatched == ASSUME TypeInv, KeepUnmatched PROVE TypeInv'
<1> USE DEF TypeInv, TypeOK
<1>1. Current \in Frame
  BY CurrentType DEF KeepUnmatched, ReaderAt, Busy
<1>2. SessionOK'
  <2>1. /\ Capped(Append(session.unmatched, Current)) \in Seq(Frame)
        /\ Len(Capped(Append(session.unmatched, Current))) <= MaxUnmatched
    BY <1>1, CappedType DEF SessionOK
  <2>2. session' = [session EXCEPT !.unmatched = Capped(Append(@, Current))]
    BY DEF KeepUnmatched
  <2>3. QED
    BY <2>1, <2>2 DEF SessionOK
<1>3. ThreadsOK' /\ HandsFull'
  BY ReaderMoves DEF KeepUnmatched, Busy
<1>4. CallerOK' /\ Numbered' /\ WireOK' /\ InFlight' /\ HistoryOK'
  BY DEF CallerOK, Numbered, WireOK, InFlight, HistoryOK, KeepUnmatched, history
<1>5. QED
  BY <1>2, <1>3, <1>4

LEMMA TypeDispatch == ASSUME TypeInv, Dispatch PROVE TypeInv'
<1> USE DEF TypeInv, TypeOK
<1>1. Current \in Frame
  BY CurrentType DEF Dispatch, Busy
<1>2. ThreadsOK' /\ HandsFull'
  BY ReaderAdvances DEF Dispatch, Busy
<1>3. HistoryOK'
  BY <1>1 DEF HistoryOK, Dispatch, Passes, Frame
<1>4. SessionOK' /\ CallerOK' /\ Numbered' /\ WireOK' /\ InFlight'
  BY DEF SessionOK, CallerOK, Numbered, WireOK, InFlight, Dispatch
<1>5. QED
  BY <1>2, <1>3, <1>4

LEMMA TypeReaderEnds ==
  ASSUME TypeInv, StopReceiving \/ ReaderStops \/ ReaderNotifies PROVE TypeInv'
<1> USE DEF TypeInv, TypeOK
<1>1. ThreadsOK' /\ HandsFull'
  BY ReaderMoves DEF StopReceiving, ReaderStops, ReaderNotifies, Busy
<1>2. CallerOK' /\ Numbered'
  <2>1. UNCHANGED sendMtx /\ (UNCHANGED caller \/ caller' = Woken(Callers))
    BY DEF StopReceiving, ReaderStops, ReaderNotifies, NotifyAll
  <2>2. CASE UNCHANGED caller
    BY <2>1, <2>2 DEF CallerOK, Numbered
  <2>3. QED
    BY <2>1, <2>2, CallersWoken
<1>3. SessionOK'
  BY DEF SessionOK, StopReceiving, ReaderStops, ReaderNotifies
<1>4. WireOK' /\ InFlight' /\ HistoryOK'
  <2>1. UNCHANGED <<net, dev, used, history>>
    BY DEF StopReceiving, ReaderStops, ReaderNotifies
  <2>2. QED
    BY <2>1 DEF WireOK, InFlight, HistoryOK, history
<1>5. QED
  BY <1>1, <1>2, <1>3, <1>4

LEMMA TypeReader == ASSUME TypeInv, Reader PROVE TypeInv'
BY TypeReceive, TypeHandleAck, TypeAckData, TypeDuplicates, TypeMatchRequest, TypeKeepUnmatched,
   TypeDispatch, TypeReaderEnds DEF Reader
-----------------------------------------------------------------------------
(* The owner *)

OwnerPcs == {"idle", "disconnect", "stop", "join", "clear", "open", "start", "spawn"}

LEMMA OwnerMoves ==
  ASSUME TypeInv, NEW from, NEW to \in OwnerPcs, OwnerAt(from, to), UNCHANGED reader
  PROVE  ThreadsOK' /\ HandsFull'
BY DEF TypeInv, TypeOK, ThreadsOK, HandsFull, OwnerAt, OwnerPcs

LEMMA OwnerJumps ==
  ASSUME TypeInv, NEW to \in OwnerPcs, NEW b \in BOOLEAN, owner' = [pc |-> to, reopen |-> b],
         UNCHANGED reader
  PROVE  ThreadsOK' /\ HandsFull'
BY DEF TypeInv, TypeOK, ThreadsOK, HandsFull, OwnerPcs

LEMMA TypeConnect == ASSUME TypeInv, Connect PROVE TypeInv'
<1> USE DEF TypeInv, TypeOK
<1>1. UNCHANGED <<session, sendMtx, caller, reader, net, dev, history>>
  BY DEF Connect
<1>2. used' \in Usage
  <2>1. used \in Usage
    BY DEF HistoryOK, Usage
  <2>2. used' = [used EXCEPT !.connects = @ + 1]
    BY DEF Connect
  <2>3. QED
    BY <2>1, <2>2 DEF Usage
<1>3. \E to \in OwnerPcs, b \in BOOLEAN : owner' = [pc |-> to, reopen |-> b]
  <2>1. CASE session.running
    BY <2>1 DEF Connect, OwnerPcs
  <2>2. CASE ~session.running
    BY <2>2 DEF Connect, OwnerPcs
  <2>3. QED
    BY <2>1, <2>2
<1>4. ThreadsOK' /\ HandsFull'
  BY <1>1, <1>3, OwnerJumps
<1>5. SessionOK' /\ CallerOK' /\ Numbered' /\ WireOK' /\ InFlight'
  BY <1>1 DEF SessionOK, CallerOK, Numbered, WireOK, InFlight
<1>6. HistoryOK'
  BY <1>1, <1>2, HistoryKept
<1>7. QED
  BY <1>4, <1>5, <1>6

LEMMA TypeBeginDisconnect == ASSUME TypeInv, BeginDisconnect PROVE TypeInv'
<1> USE DEF TypeInv, TypeOK
<1>1. UNCHANGED <<sendMtx, caller, reader, dev, history>>
  BY DEF BeginDisconnect
<1>2. used' \in Usage
  <2>1. used \in Usage
    BY DEF HistoryOK, Usage
  <2>2. UNCHANGED used \/ used' = [used EXCEPT !.disconnects = @ + 1]
    BY DEF BeginDisconnect
  <2>3. QED
    BY <2>1, <2>2 DEF Usage
<1>3. ThreadsOK' /\ HandsFull'
  BY DEF ThreadsOK, HandsFull, BeginDisconnect
<1>4. SessionOK'
  BY DEF SessionOK, BeginDisconnect
<1>5. WireOK' /\ InFlight'
  BY DEF WireOK, InFlight, BeginDisconnect
<1>6. CallerOK' /\ Numbered'
  BY <1>1 DEF CallerOK, Numbered
<1>7. HistoryOK'
  BY <1>1, <1>2, HistoryKept
<1>8. QED
  BY <1>3, <1>4, <1>5, <1>6, <1>7

LEMMA TypeStopReader == ASSUME TypeInv, StopReader PROVE TypeInv'
<1> USE DEF TypeInv, TypeOK
<1>1. ThreadsOK' /\ HandsFull'
  BY OwnerMoves DEF StopReader, OwnerPcs
<1>2. CallerOK' /\ Numbered'
  BY CallersWoken DEF StopReader, NotifyAll
<1>3. SessionOK' /\ WireOK' /\ InFlight' /\ HistoryOK'
  BY DEF SessionOK, WireOK, InFlight, HistoryOK, StopReader, history
<1>4. QED
  BY <1>1, <1>2, <1>3

LEMMA TypeJoinReader == ASSUME TypeInv, JoinReader PROVE TypeInv'
<1> USE DEF TypeInv, TypeOK
<1>1. ThreadsOK' /\ HandsFull'
  BY OwnerMoves DEF JoinReader, OwnerPcs
<1>2. WireOK' /\ InFlight'
  BY DEF WireOK, InFlight, JoinReader
<1>3. SessionOK' /\ CallerOK' /\ Numbered' /\ HistoryOK'
  BY DEF SessionOK, CallerOK, Numbered, HistoryOK, JoinReader, history
<1>4. QED
  BY <1>1, <1>2, <1>3

LEMMA TypeClearSession == ASSUME TypeInv, ClearSession PROVE TypeInv'
<1> USE DEF TypeInv, TypeOK
<1>1. \E to \in OwnerPcs : owner' = [pc |-> to, reopen |-> FALSE]
  BY DEF ClearSession, OwnerPcs
<1>2. ThreadsOK' /\ HandsFull'
  BY <1>1, OwnerJumps DEF ClearSession
<1>3. CallerOK' /\ Numbered'
  BY CallersWoken DEF ClearSession, NotifyAll
<1>4. SessionOK'
  <2>1. /\ session'.unmatched = <<>>
        /\ session' = [running |-> session.running, sequence |-> 0, hasAck |-> None,
                       pending |-> None, unmatched |-> <<>>, lastSeen |-> None]
    BY DEF ClearSession
  <2>2. 0 \in SeqNo /\ 0 <= MaxUnmatched /\ <<>> \in Seq(Frame) /\ Len(<<>>) = 0
    BY Moduli, SessionAssumption DEF SessionAssumption
  <2>3. session'.running \in BOOLEAN
    BY <2>1 DEF SessionOK
  <2>4. QED
    BY <2>1, <2>2 DEF SessionOK
<1>5. WireOK' /\ InFlight' /\ HistoryOK'
  BY DEF WireOK, InFlight, HistoryOK, ClearSession, history
<1>6. QED
  BY <1>2, <1>3, <1>4, <1>5

LEMMA TypeOpenTransport == ASSUME TypeInv, OpenTransport PROVE TypeInv'
<1> USE DEF TypeInv, TypeOK
<1>1. WireOK' /\ InFlight'
  BY DEF WireOK, InFlight, OpenTransport, FreshDevice
<1>2. ThreadsOK' /\ HandsFull'
  BY OwnerMoves DEF OpenTransport, OwnerPcs
<1>3. SessionOK' /\ CallerOK' /\ Numbered'
  BY DEF SessionOK, CallerOK, Numbered, OpenTransport
<1>4. HistoryOK'
  <2>1. gaveUp' = {} /\ answers' = <<>>
    BY DEF OpenTransport
  <2>2. UNCHANGED <<used, outcome>> /\ passed' = <<>>
    BY DEF OpenTransport
  <2>3. QED
    BY <2>1, <2>2 DEF HistoryOK
<1>5. QED
  BY <1>1, <1>2, <1>3, <1>4

LEMMA TypeConnectFails == ASSUME TypeInv, ConnectFails PROVE TypeInv'
<1> USE DEF TypeInv, TypeOK
<1>1. ThreadsOK' /\ HandsFull'
  BY OwnerMoves DEF ConnectFails, OwnerPcs
<1>2. WireOK' /\ InFlight'
  BY DEF WireOK, InFlight, ConnectFails
<1>3. SessionOK' /\ CallerOK' /\ Numbered' /\ HistoryOK'
  BY DEF SessionOK, CallerOK, Numbered, HistoryOK, ConnectFails, history
<1>4. QED
  BY <1>1, <1>2, <1>3

LEMMA TypeStart == ASSUME TypeInv, Start PROVE TypeInv'
<1> USE DEF TypeInv, TypeOK
<1>1. UNCHANGED <<sendMtx, reader, net, dev, used, history>>
  BY DEF Start
<1>2. ThreadsOK' /\ HandsFull'
  BY <1>1, OwnerMoves DEF Start, OwnerPcs
<1>3. SessionOK' /\ CallerOK' /\ Numbered'
  <2>1. CASE UNCHANGED <<session, caller>>
    BY <1>1, <2>1 DEF SessionOK, CallerOK, Numbered
  <2>2. CASE /\ NotifyAll
             /\ session' = [session EXCEPT !.hasAck = None, !.pending = None, !.unmatched = <<>>,
                                           !.lastSeen = None]
    <3>1. CallerOK' /\ Numbered'
      BY <1>1, <2>2, CallersWoken DEF NotifyAll
    <3>2. 0 <= MaxUnmatched /\ <<>> \in Seq(Frame) /\ Len(<<>>) = 0
      BY SessionAssumption DEF SessionAssumption
    <3>3. QED
      BY <2>2, <3>1, <3>2 DEF SessionOK
  <2>3. QED
    BY <2>1, <2>2 DEF Start
<1>4. WireOK' /\ InFlight' /\ HistoryOK'
  BY <1>1 DEF WireOK, InFlight, HistoryOK, history
<1>5. QED
  BY <1>2, <1>3, <1>4

LEMMA TypeSpawnReader == ASSUME TypeInv, SpawnReader PROVE TypeInv'
<1> USE DEF TypeInv, TypeOK
<1>1. ThreadsOK' /\ HandsFull'
  <2>1. reader' = [pc |-> "receive", batch |-> <<>>] /\ owner' = [owner EXCEPT !.pc = "idle"]
    BY DEF SpawnReader, OwnerAt
  <2>2. QED
    BY <2>1 DEF ThreadsOK, HandsFull, Busy
<1>2. SessionOK'
  BY DEF SessionOK, SpawnReader
<1>3. CallerOK' /\ Numbered' /\ WireOK' /\ InFlight' /\ HistoryOK'
  BY DEF CallerOK, Numbered, WireOK, InFlight, HistoryOK, SpawnReader, history
<1>4. QED
  BY <1>1, <1>2, <1>3

LEMMA TypeOwner == ASSUME TypeInv, Owner PROVE TypeInv'
BY TypeConnect, TypeBeginDisconnect, TypeStopReader, TypeJoinReader, TypeClearSession,
   TypeOpenTransport, TypeConnectFails, TypeStart, TypeSpawnReader DEF Owner

-----------------------------------------------------------------------------
(* The headset and the link *)

\* The environment touches the wire and its bounds only.
LEMMA WireSteps ==
  ASSUME TypeInv, WireOK', InFlight', UNCHANGED <<session, sendMtx, caller, reader, owner>>,
         UNCHANGED history, UNCHANGED used \/ Fault
  PROVE  TypeInv'
<1> USE DEF TypeInv, TypeOK
<1>1. SessionOK' /\ CallerOK' /\ Numbered'
  BY DEF SessionOK, CallerOK, Numbered
<1>2. ThreadsOK' /\ HandsFull'
  BY DEF ThreadsOK, HandsFull
<1>3. HistoryOK'
  BY FaultType, HistoryKept
<1>4. QED
  BY <1>1, <1>2, <1>3

Message == [op : Opcodes \cup {Notice}, call : Calls \cup {None}, id : Nat]
Headset == [queue : Seq(Message), sent : BOOLEAN, bit : {0, 1}, last : SeqNo \cup {None},
            made : Nat]

LEMMA ProduceType ==
  ASSUME NEW d \in Headset, NEW o \in Opcodes \cup {Notice}, NEW call \in Calls \cup {None}
  PROVE  Produce(d, o, call) \in Headset /\ Produce(d, o, call).queue # <<>>
<1> DEFINE m == [op |-> o, call |-> call, id |-> d.made + 1]
<1>1. d.queue \in Seq(Message) /\ d.made + 1 \in Nat
  BY DEF Headset
<1>2. m \in Message
  BY <1>1 DEF Message
<1>3. Append(d.queue, m) \in Seq(Message) /\ Append(d.queue, m) # <<>>
  BY <1>1, <1>2
<1>4. Produce(d, o, call) = [d EXCEPT !.queue = Append(@, m), !.made = @ + 1]
  BY DEF Produce
<1> HIDE DEF m
<1>5. QED
  BY <1>1, <1>3, <1>4 DEF Headset

LEMMA TypeDeviceTakesRequest == ASSUME TypeInv, DeviceTakesRequest PROVE TypeInv'
<1> DEFINE f == Head(net.toDev)
           d == [dev EXCEPT !.last = f.seq]
<1>1. dev \in Headset /\ net.toDev \in Seq(Frame) /\ net.toHost \in Seq(Frame)
  BY DEF TypeInv, TypeOK, WireOK, Headset, Message
<1>2. f \in Frame /\ Tail(net.toDev) \in Seq(Frame)
  BY <1>1 DEF DeviceTakesRequest
<1>3. [HostAck(f) EXCEPT !.call = f.call] \in Frame
  BY <1>2, Moduli DEF HostAck, Frame
<1>4. d \in Headset /\ d.queue = dev.queue /\ d.sent = dev.sent
  BY <1>1, <1>2 DEF Headset, Frame
<1>5. dev' = IF f.op = None THEN d ELSE Produce(d, f.op, f.call)
  BY DEF DeviceTakesRequest
<1>6. dev' \in Headset /\ (dev'.sent => dev'.queue # <<>>)
  <2>1. CASE f.op = None
    BY <1>4, <1>5, <2>1 DEF TypeInv, InFlight
  <2>2. CASE f.op # None
    <3>1. f.op \in Opcodes \cup {Notice} /\ f.call \in Calls \cup {None}
      BY <1>2, <2>2 DEF Frame
    <3>2. QED
      BY <1>4, <1>5, <2>2, <3>1, ProduceType
  <2>3. QED
    BY <2>1, <2>2
<1>7. net' \in [link : {"up", "broken", "down"}, toDev : Seq(Frame), toHost : Seq(Frame)]
  <2>1. net' = [net EXCEPT !.toDev = Tail(@),
                           !.toHost = Append(@, [HostAck(f) EXCEPT !.call = f.call])]
    BY DEF DeviceTakesRequest
  <2>2. Append(net.toHost, [HostAck(f) EXCEPT !.call = f.call]) \in Seq(Frame)
    BY <1>1, <1>3
  <2>3. QED
    BY <1>2, <2>1, <2>2 DEF TypeInv, TypeOK, WireOK
<1>8. QED
  BY <1>6, <1>7, WireSteps DEF DeviceTakesRequest, WireOK, InFlight, Headset, Message

LEMMA TypeDeviceTakesAck == ASSUME TypeInv, DeviceTakesAck PROVE TypeInv'
<1>1. Tail(net.toDev) \in Seq(Frame) /\ net' = [net EXCEPT !.toDev = Tail(@)]
  BY DEF DeviceTakesAck, TypeInv, TypeOK, WireOK
<1>2. dev \in Headset
  BY DEF TypeInv, TypeOK, WireOK, Headset, Message
<1>3. dev' \in Headset /\ (dev'.sent => dev'.queue # <<>>)
  <2>1. CASE dev' = dev
    BY <1>2, <2>1 DEF TypeInv, InFlight
  <2>2. CASE dev.sent /\ dev' = [dev EXCEPT !.queue = Tail(@), !.sent = FALSE, !.bit = 1 - @]
    <3>1. Tail(dev.queue) \in Seq(Message) /\ 1 - dev.bit \in {0, 1}
      BY <1>2, <2>2 DEF TypeInv, InFlight, Headset
    <3>2. QED
      BY <1>2, <2>2, <3>1 DEF Headset
  <2>3. QED
    BY <2>1, <2>2 DEF DeviceTakesAck
<1>4. WireOK' /\ InFlight'
  BY <1>1, <1>3 DEF TypeInv, TypeOK, WireOK, InFlight, Headset, Message
<1>5. QED
  BY <1>4, WireSteps DEF DeviceTakesAck

LEMMA TypeDeviceNotifies == ASSUME TypeInv, DeviceNotifies PROVE TypeInv'
<1>1. dev \in Headset
  BY DEF TypeInv, TypeOK, WireOK, Headset, Message
<1>2. dev' \in Headset /\ dev'.queue # <<>>
  BY <1>1, ProduceType DEF DeviceNotifies
<1>3. WireOK' /\ InFlight'
  BY <1>2 DEF DeviceNotifies, TypeInv, TypeOK, WireOK, InFlight, Headset, Message
<1>4. QED
  BY <1>3, WireSteps DEF DeviceNotifies

LEMMA TypeDeviceSends == ASSUME TypeInv, DeviceSends PROVE TypeInv'
<1> DEFINE h == Head(dev.queue)
           f == [type |-> "data", seq |-> dev.bit, op |-> h.op, call |-> h.call, id |-> h.id]
<1>1. h \in Message /\ dev.bit \in {0, 1}
  <2>1. dev.queue \in Seq(Message) /\ dev.queue # <<>>
    BY DEF DeviceSends, TypeInv, TypeOK, WireOK, Message
  <2>2. QED
    BY <2>1 DEF TypeInv, TypeOK, WireOK
<1>2. f \in Frame
  BY <1>1, Moduli DEF Frame, Message
<1>3. Append(net.toHost, f) \in Seq(Frame)
  BY <1>2 DEF TypeInv, TypeOK, WireOK
<1>4. net' = [net EXCEPT !.toHost = Append(@, f)] /\ dev' = [dev EXCEPT !.sent = TRUE]
  BY DEF DeviceSends
<1>5. WireOK' /\ InFlight'
  BY <1>3, <1>4 DEF DeviceSends, TypeInv, TypeOK, WireOK, InFlight
<1>6. QED
  BY <1>5, WireSteps DEF DeviceSends

LEMMA TypeLink == ASSUME TypeInv, LoseFrame \/ LinkBreaks PROVE TypeInv'
<1>1. /\ net.toDev # <<>> => Tail(net.toDev) \in Seq(Frame)
      /\ net.toHost # <<>> => Tail(net.toHost) \in Seq(Frame)
  BY DEF TypeInv, TypeOK, WireOK
<1>2. WireOK'
  <2>1. CASE LoseFrame
    BY <1>1, <2>1 DEF LoseFrame, TypeInv, TypeOK, WireOK
  <2>2. CASE LinkBreaks
    BY <2>2 DEF LinkBreaks, TypeInv, TypeOK, WireOK
  <2>3. QED
    BY <2>1, <2>2
<1>3. InFlight'
  BY DEF LoseFrame, LinkBreaks, TypeInv, InFlight
<1>4. QED
  BY <1>2, <1>3, WireSteps DEF LoseFrame, LinkBreaks

LEMMA TypeEnvironment == ASSUME TypeInv, Environment PROVE TypeInv'
BY TypeDeviceTakesRequest, TypeDeviceTakesAck, TypeDeviceNotifies, TypeDeviceSends, TypeLink
   DEF Environment

-----------------------------------------------------------------------------
LEMMA TypeInit == Init => TypeInv
<1> SUFFICES ASSUME Init PROVE TypeInv
  OBVIOUS
<1>1. SessionOK /\ CallerOK
  BY Moduli, SessionAssumption DEF Init, SessionOK, CallerOK, SessionAssumption
<1>2. ThreadsOK /\ WireOK
  BY DEF Init, ThreadsOK, WireOK, FreshDevice
<1>3. HistoryOK
  <2>1. gaveUp = {} /\ passed = <<>> /\ answers = <<>>
    BY DEF Init
  <2>2. outcome \in [Callers -> {None}]
    BY DEF Init
  <2>3. used \in Usage
    BY SessionAssumption DEF Init, SessionAssumption, Usage
  <2>4. QED
    BY <2>1, <2>2, <2>3 DEF HistoryOK, Usage
<1>4. HandsFull /\ Numbered /\ InFlight
  BY DEF Init, HandsFull, Busy, Numbered, InFlight, FreshDevice
<1>5. QED
  BY <1>1, <1>2, <1>3, <1>4 DEF TypeInv, TypeOK

LEMMA TypeNext == TypeInv /\ [Next]_vars => TypeInv'
<1>1. ASSUME TypeInv, Next PROVE TypeInv'
  BY <1>1, TypeCallers, TypeReader, TypeOwner, TypeEnvironment DEF Next
<1>2. ASSUME TypeInv, UNCHANGED vars PROVE TypeInv'
  <2>1. SessionOK' /\ CallerOK' /\ ThreadsOK' /\ Numbered' /\ HandsFull'
    BY <1>2 DEF TypeInv, TypeOK, SessionOK, CallerOK, ThreadsOK, Numbered, HandsFull, vars
  <2>2. WireOK' /\ HistoryOK' /\ InFlight'
    BY <1>2 DEF TypeInv, TypeOK, WireOK, HistoryOK, InFlight, vars
  <2>3. QED
    BY <2>1, <2>2 DEF TypeInv, TypeOK
<1>3. QED
  BY <1>1, <1>2

LEMMA TypeInvariant == Spec => []TypeInv
BY TypeInit, TypeNext, PTL DEF Spec

\* Every variable of the session keeps its type, and _unmatchedFrames its cap.
THEOREM TypeCorrect == Spec => []TypeOK
<1>1. TypeInv => TypeOK
  BY DEF TypeInv
<1>2. QED
  BY TypeInvariant, <1>1, PTL

-----------------------------------------------------------------------------
(* What _sendMtx gives: the request bit, and the owner of _pendingRequest. *)

\* The points of a call between taking _sendMtx and releasing it.
Holding == {"load", "store", "fetch", "arm", "write", "check", "parking", "parked"}
MutualExclusion == \A c \in Callers : caller[c].pc \in Holding => sendMtx = c

\* nextSequenceNumber() in progress: the counter never passes 2, and is folded
\* to one bit when fetch_add gets to it.
BitsOf(s) == \A i \in DOMAIN s : s[i].type = "data" => s[i].seq \in {0, 1}
CounterInv ==
  /\ session.sequence \in 0 .. 2
  /\ \A c \in Callers : /\ caller[c].pc = "fetch" => session.sequence \in {0, 1}
                        /\ caller[c].pc \in {"arm", "write"} => caller[c].reg \in {0, 1}
  /\ BitsOf(net.toDev)

\* The owner of a pending request holds _sendMtx and awaits a response.
OwnedRequest ==
  session.pending # None =>
    \/ session.pending.orphan
    \/ \E c \in Callers : /\ sendMtx = c /\ caller[c].pc \in Holding /\ caller[c].op # None
                          /\ caller[c].call = session.pending.call

SendInv == TypeInv /\ MutualExclusion /\ CounterInv /\ OwnedRequest

-----------------------------------------------------------------------------
(* What the reader, the owner and the environment may do to a call. *)

Others == Reader \/ Owner \/ Environment

\* They leave _sendMtx and the calls alone, save that they wake waiters.
LEMMA OthersWake ==
  ASSUME TypeInv, Others
  PROVE  /\ sendMtx' = sendMtx
         /\ \A c \in Callers : /\ caller'[c].pc \in {caller[c].pc, "check"}
                               /\ caller'[c].pc # caller[c].pc => caller[c].pc = "parked"
                               /\ caller'[c].call = caller[c].call
                               /\ caller'[c].op = caller[c].op
                               /\ caller'[c].reg = caller[c].reg
<1>1. sendMtx' = sendMtx /\ (caller' = caller \/ \E cs : caller' = Woken(cs))
  <2>1. CASE Reader
    BY <2>1 DEF Reader, Receive, StopReceiving, HandleAck, AckData, DropDuplicate,
       RememberSequence, MatchRequest, KeepUnmatched, Dispatch, ReaderStops, ReaderNotifies,
       NotifyAll
  <2>2. CASE Owner
    BY <2>2 DEF Owner, Connect, BeginDisconnect, StopReader, JoinReader, ClearSession,
       OpenTransport, ConnectFails, Start, SpawnReader, NotifyAll
  <2>3. CASE Environment
    BY <2>3 DEF Environment, DeviceTakesRequest, DeviceTakesAck, DeviceNotifies, DeviceSends,
       LoseFrame, LinkBreaks
  <2>4. QED
    BY <2>1, <2>2, <2>3 DEF Others
<1>2. ASSUME NEW cs, caller' = Woken(cs), NEW c \in Callers
      PROVE  caller'[c] \in {caller[c], [caller[c] EXCEPT !.pc = "check"]}
             /\ (caller'[c] # caller[c] => caller[c].pc = "parked")
  BY <1>2 DEF Woken
<1>3. \A c \in Callers : caller[c] \in [pc : Pcs, call : Calls \cup {None},
                                        op : Opcodes \cup {None}, reg : SeqNo]
  BY DEF TypeInv, TypeOK, CallerOK, Pcs
<1>4. QED
  BY <1>1, <1>2, <1>3

\* The counter only takes the bit of an ACK, or is reset.
LEMMA OthersSequence ==
  ASSUME TypeInv, Others PROVE session'.sequence \in {session.sequence, 0, 1}
<1> USE DEF TypeInv, TypeOK, SessionOK
<1>1. CASE HandleAck
  <2>1. Current.seq \in Nat
    BY <1>1, CurrentType, Moduli DEF HandleAck, Busy, Frame
  <2>2. session'.sequence = IF Current.seq <= 1 THEN Current.seq ELSE session.sequence
    BY <1>1 DEF HandleAck
  <2>3. QED
    BY <2>1, <2>2
<1>2. CASE Reader /\ ~HandleAck
  BY <1>2 DEF Reader, Receive, StopReceiving, AckData, DropDuplicate,
     RememberSequence, MatchRequest, KeepUnmatched, Dispatch, ReaderStops, ReaderNotifies
<1>3. CASE Owner
  <2>1. CASE ClearSession
    BY <2>1 DEF ClearSession
  <2>2. CASE Start
    BY <2>2 DEF Start
  <2>3. CASE BeginDisconnect \/ SpawnReader
    BY <2>3 DEF BeginDisconnect, SpawnReader
  <2>4. CASE Connect \/ StopReader \/ JoinReader \/ OpenTransport \/ ConnectFails
    BY <2>4 DEF Connect, StopReader, JoinReader, OpenTransport, ConnectFails
  <2>5. QED
    BY <1>3, <2>1, <2>2, <2>3, <2>4 DEF Owner
<1>4. CASE Environment
  BY <1>4 DEF Environment, DeviceTakesRequest, DeviceTakesAck, DeviceNotifies, DeviceSends,
     LoseFrame, LinkBreaks
<1>5. QED
  BY <1>1, <1>2, <1>3, <1>4 DEF Others

\* A pending request may be answered or forgotten, not replaced.
LEMMA OthersPending ==
  ASSUME TypeInv, Others
  PROVE  session'.pending = None \/
           /\ session.pending # None
           /\ session'.pending.orphan = session.pending.orphan
           /\ session'.pending.call = session.pending.call
<1> USE DEF TypeInv, TypeOK, SessionOK
<1>1. CASE MatchRequest
  <2>1. session.pending # None /\ session.pending \in Request
    BY <1>1 DEF MatchRequest, Answers
  <2>2. session'.pending = [session.pending EXCEPT !.response = Current]
    BY <1>1 DEF MatchRequest
  <2>3. QED
    BY <2>1, <2>2 DEF Request
<1>2. CASE Reader /\ ~MatchRequest
  BY <1>2 DEF Reader, Receive, StopReceiving, HandleAck, AckData, DropDuplicate,
     RememberSequence, KeepUnmatched, Dispatch, ReaderStops, ReaderNotifies
<1>3. CASE Owner
  <2>1. CASE ClearSession
    BY <2>1 DEF ClearSession
  <2>2. CASE Start
    BY <2>2 DEF Start
  <2>3. CASE BeginDisconnect \/ SpawnReader
    BY <2>3 DEF BeginDisconnect, SpawnReader
  <2>4. CASE Connect \/ StopReader \/ JoinReader \/ OpenTransport \/ ConnectFails
    BY <2>4 DEF Connect, StopReader, JoinReader, OpenTransport, ConnectFails
  <2>5. QED
    BY <1>3, <2>1, <2>2, <2>3, <2>4 DEF Owner
<1>4. CASE Environment
  BY <1>4 DEF Environment, DeviceTakesRequest, DeviceTakesAck, DeviceNotifies, DeviceSends,
     LoseFrame, LinkBreaks
<1>5. QED
  BY <1>1, <1>2, <1>3, <1>4 DEF Others

\* Frames to the headset: one may be appended, the oldest may go, or all.
LEMMA BitsKept ==
  ASSUME NEW s \in Seq(Frame), BitsOf(s)
  PROVE  /\ BitsOf(<<>>)
         /\ s # <<>> => BitsOf(Tail(s))
         /\ \A f \in Frame : (f.type = "data" => f.seq \in {0, 1}) => BitsOf(Append(s, f))
<1>1. BitsOf(<<>>)
  BY DEF BitsOf
<1>2. ASSUME s # <<>> PROVE BitsOf(Tail(s))
  <2>1. ASSUME NEW i \in DOMAIN Tail(s) PROVE i + 1 \in DOMAIN s /\ Tail(s)[i] = s[i + 1]
    BY <1>2
  <2>2. QED
    BY <2>1 DEF BitsOf
<1>3. ASSUME NEW f \in Frame, f.type = "data" => f.seq \in {0, 1} PROVE BitsOf(Append(s, f))
  <2>1. ASSUME NEW i \in DOMAIN Append(s, f)
        PROVE  (i \in DOMAIN s /\ Append(s, f)[i] = s[i]) \/ Append(s, f)[i] = f
    OBVIOUS
  <2>2. QED
    BY <1>3, <2>1 DEF BitsOf
<1>4. QED
  BY <1>1, <1>2, <1>3

LEMMA OthersWire == ASSUME TypeInv, BitsOf(net.toDev), Others PROVE BitsOf(net'.toDev)
<1>1. net.toDev \in Seq(Frame)
  BY DEF TypeInv, TypeOK, WireOK
<1>2. \/ net'.toDev = net.toDev \/ net'.toDev = <<>>
      \/ net.toDev # <<>> /\ net'.toDev = Tail(net.toDev)
      \/ reader.pc \in Busy /\ net'.toDev = Append(net.toDev, HostAck(Current))
  <2> USE DEF TypeInv, TypeOK, WireOK
  <2>1. CASE Reader
    BY <2>1 DEF Reader, Receive, StopReceiving, HandleAck, AckData, DropDuplicate, ReaderAt,
       RememberSequence, MatchRequest, KeepUnmatched, Dispatch, ReaderStops, ReaderNotifies, Busy
  <2>2. CASE Owner
    BY <2>2 DEF Owner, Connect, BeginDisconnect, StopReader, JoinReader, ClearSession,
       OpenTransport, ConnectFails, Start, SpawnReader
  <2>3. CASE Environment
    BY <2>3 DEF Environment, DeviceTakesRequest, DeviceTakesAck, DeviceNotifies, DeviceSends,
       LoseFrame, LinkBreaks
  <2>4. QED
    BY <2>1, <2>2, <2>3 DEF Others
<1>3. reader.pc \in Busy => HostAck(Current) \in Frame /\ HostAck(Current).type = "ack"
  BY CurrentType, Moduli DEF HostAck, Frame
<1>4. QED
  BY <1>1, <1>2, <1>3, BitsKept

LEMMA OthersKeep == ASSUME SendInv, Others PROVE MutualExclusion' /\ CounterInv' /\ OwnedRequest'
<1>1. MutualExclusion'
  BY OthersWake DEF SendInv, MutualExclusion, Holding
<1>2. CounterInv'
  <2>1. session'.sequence \in 0 .. 2
    BY OthersSequence DEF SendInv, CounterInv
  <2>2. ASSUME NEW c \in Callers
        PROVE  /\ caller'[c].pc = "fetch" => session'.sequence \in {0, 1}
               /\ caller'[c].pc \in {"arm", "write"} => caller'[c].reg \in {0, 1}
    BY OthersWake, OthersSequence DEF SendInv, CounterInv
  <2>3. BitsOf(net'.toDev)
    BY OthersWire DEF SendInv, CounterInv
  <2>4. QED
    BY <2>1, <2>2, <2>3 DEF CounterInv, BitsOf
<1>3. OwnedRequest'
  BY OthersWake, OthersPending DEF SendInv, OwnedRequest, Holding
<1>4. QED
  BY <1>1, <1>2, <1>3

-----------------------------------------------------------------------------
(* What a call does. *)

\* A step of caller c: the other callers stay where they are.
LEMMA CallFrame ==
  ASSUME TypeInv, NEW c \in Callers, CallStep(c) \/ TimeOut(c)
  PROVE  /\ \A d \in Callers : d # c => caller'[d] = caller[d]
         /\ caller'[c].call = caller[c].call /\ caller'[c].op = caller[c].op
         /\ caller[c].pc # "idle"
<1> USE DEF TypeInv, TypeOK, CallerOK
<1>1. CASE Lock(c) \/ StoreSequence(c) \/ Arm(c) \/ WriteRequest(c) \/ FindNotReady(c) \/ Park(c)
  <2>1. \E from, to \in Pcs \ {"idle"} : Step(c, from, to)
    BY <1>1 DEF Lock, StoreSequence, Arm, WriteRequest, FindNotReady, Park, Pcs
  <2>2. QED
    BY <2>1 DEF Step, Goto
<1>2. CASE LoadSequence(c) \/ FetchSequence(c)
  BY <1>2 DEF LoadSequence, FetchSequence
<1>3. CASE WriteTimesOut(c) \/ WriteFails(c) \/ Finish(c) \/ TimeOut(c)
  <2>1. Goto(c, "idle") /\ caller[c].pc # "idle"
    BY <1>3 DEF WriteTimesOut, WriteFails, Finish, TimeOut, Conclude, Ends
  <2>2. QED
    BY <2>1 DEF Goto
<1>4. QED
  BY <1>1, <1>2, <1>3 DEF CallStep

\* The steps that end a call release _sendMtx, which the caller held.
Leaves(c) == WriteTimesOut(c) \/ WriteFails(c) \/ Finish(c) \/ TimeOut(c)

LEMMA LeavesFree ==
  ASSUME TypeInv, NEW c \in Callers, Leaves(c)
  PROVE  /\ sendMtx' = None /\ caller'[c].pc = "idle" /\ caller[c].pc \in Holding
         /\ session'.sequence = session.sequence /\ UNCHANGED net
         /\ \/ caller[c].op = None /\ session'.pending = session.pending
            \/ session'.pending = None
            \/ /\ session.pending # None
               /\ session'.pending = [session.pending EXCEPT !.orphan = TRUE]
<1> USE DEF TypeInv, TypeOK, CallerOK, SessionOK
<1>1. Goto(c, "idle") /\ sendMtx' = None /\ UNCHANGED net /\ caller[c].pc \in Holding
  BY DEF Leaves, WriteTimesOut, WriteFails, Finish, TimeOut, Conclude, Ends, Holding
<1>2. session'.sequence = session.sequence /\ session'.pending \in {Orphaned(c), Settled(c)}
  <2>1. CASE WriteTimesOut(c)
    BY <2>1 DEF WriteTimesOut
  <2>2. CASE WriteFails(c)
    BY <2>2 DEF WriteFails
  <2>3. CASE Conclude(c)
    BY <2>3 DEF Conclude
  <2>4. QED
    BY <2>1, <2>2, <2>3 DEF Leaves, Finish, TimeOut
<1>3. (caller[c].op = None /\ Settled(c) = session.pending) \/ Settled(c) = None
  BY DEF Settled
<1>4. \/ caller[c].op = None /\ Orphaned(c) = session.pending
      \/ session.pending = None /\ Orphaned(c) = None
      \/ session.pending # None /\ Orphaned(c) = [session.pending EXCEPT !.orphan = TRUE]
  <2>1. CASE caller[c].op = None \/ session.pending = None
    BY <2>1 DEF Orphaned
  <2>2. CASE caller[c].op # None /\ session.pending # None
    BY <2>2 DEF Orphaned
  <2>3. QED
    BY <2>1, <2>2
<1>5. QED
  BY <1>1, <1>2, <1>3, <1>4 DEF Goto

LEMMA LeavesKeep ==
  ASSUME SendInv, NEW c \in Callers, Leaves(c)
  PROVE  MutualExclusion' /\ CounterInv' /\ OwnedRequest'
<1>1. TypeInv /\ (CallStep(c) \/ TimeOut(c)) /\ sendMtx = c
  BY LeavesFree DEF SendInv, MutualExclusion, Leaves, CallStep
<1>2. /\ \A d \in Callers : d # c => caller'[d] = caller[d]
      /\ sendMtx' = None /\ caller'[c].pc = "idle"
      /\ session'.sequence = session.sequence /\ UNCHANGED net
  BY <1>1, CallFrame, LeavesFree
<1>3. \A d \in Callers : caller[d].pc \in Holding => d = c
  BY <1>1 DEF SendInv, MutualExclusion
<1>4. MutualExclusion'
  BY <1>2, <1>3 DEF MutualExclusion, Holding
<1>5. CounterInv'
  BY <1>2, <1>3 DEF SendInv, CounterInv, Holding, BitsOf
<1>6. OwnedRequest'
  <2>1. SUFFICES ASSUME session'.pending # None PROVE session'.pending.orphan
    BY DEF OwnedRequest
  <2>2. CASE caller[c].op = None /\ session'.pending = session.pending
    BY <1>1, <2>1, <2>2 DEF SendInv, OwnedRequest
  <2>3. CASE /\ session.pending # None
             /\ session'.pending = [session.pending EXCEPT !.orphan = TRUE]
    <3>1. session.pending \in Request
      BY <2>3 DEF SendInv, TypeInv, TypeOK, SessionOK
    <3>2. QED
      BY <2>3, <3>1 DEF Request
  <2>4. QED
    BY <1>1, <2>1, <2>2, <2>3, LeavesFree
<1>7. QED
  BY <1>4, <1>5, <1>6

\* The steps inside a call: _sendMtx is taken once, and kept.
Works(c) ==
  \/ LoadSequence(c) \/ StoreSequence(c) \/ FetchSequence(c) \/ Arm(c) \/ WriteRequest(c)
  \/ FindNotReady(c) \/ Park(c)

LEMMA WorksKeep ==
  ASSUME SendInv, NEW c \in Callers, Works(c)
  PROVE  MutualExclusion' /\ CounterInv' /\ OwnedRequest'
<1> USE DEF SendInv, TypeInv, TypeOK, CallerOK, SessionOK
<1>1. /\ \A d \in Callers : d # c => caller'[d] = caller[d]
      /\ caller'[c].call = caller[c].call /\ caller'[c].op = caller[c].op
  BY CallFrame DEF Works, CallStep
<1>2. caller[c].pc \in Holding /\ caller'[c].pc \in Holding /\ sendMtx' = sendMtx
  <2>1. CASE LoadSequence(c) \/ FetchSequence(c)
    BY <2>1 DEF LoadSequence, FetchSequence, Holding
  <2>2. CASE StoreSequence(c) \/ Arm(c) \/ WriteRequest(c) \/ FindNotReady(c) \/ Park(c)
    <3>1. sendMtx' = sendMtx /\ \E from, to \in Holding : Step(c, from, to)
      BY <2>2 DEF StoreSequence, Arm, WriteRequest, FindNotReady, Park, Holding
    <3>2. QED
      BY <3>1 DEF Step, Goto
  <2>3. QED
    BY <2>1, <2>2 DEF Works
<1>3. sendMtx = c /\ \A d \in Callers : caller[d].pc \in Holding => d = c
  BY <1>2 DEF MutualExclusion
<1>4. MutualExclusion'
  BY <1>1, <1>2, <1>3 DEF MutualExclusion
<1>5. CounterInv'
  <2>1. SUFFICES /\ session'.sequence \in 0 .. 2
                 /\ caller'[c].pc = "fetch" => session'.sequence \in {0, 1}
                 /\ caller'[c].pc \in {"arm", "write"} => caller'[c].reg \in {0, 1}
                 /\ BitsOf(net'.toDev)
    BY <1>1, <1>3 DEF CounterInv, Holding, BitsOf
  <2>2. CASE LoadSequence(c)
    BY <2>2, Moduli DEF LoadSequence, NeedsFold, CounterInv
  <2>3. CASE StoreSequence(c)
    <3>1. caller[c].reg % 2 \in {0, 1}
      BY Moduli
    <3>2. QED
      BY <2>3, <3>1 DEF StoreSequence, Step, Goto, CounterInv
  <2>4. CASE FetchSequence(c)
    <3>1. session.sequence \in {0, 1} /\ Successor(session.sequence) \in {1, 2}
      BY <2>4, Moduli DEF FetchSequence, CounterInv, Successor
    <3>2. QED
      BY <2>4, <3>1 DEF FetchSequence, CounterInv
  <2>5. CASE Arm(c)
    <3>1. session'.sequence = session.sequence /\ UNCHANGED net /\ Step(c, "arm", "write")
      BY <2>5 DEF Arm
    <3>2. QED
      BY <3>1 DEF Step, Goto, CounterInv
  <2>6. CASE WriteRequest(c)
    <3>1. RequestFrame(c) \in Frame /\ RequestFrame(c).seq \in {0, 1}
      BY <2>6 DEF WriteRequest, Step, RequestFrame, Frame, CounterInv
    <3>2. net.toDev \in Seq(Frame) /\ net'.toDev = Append(net.toDev, RequestFrame(c))
      BY <2>6 DEF WriteRequest, WireOK
    <3>3. BitsOf(net'.toDev)
      BY <3>1, <3>2, BitsKept DEF CounterInv
    <3>4. UNCHANGED session /\ Step(c, "write", "check")
      BY <2>6 DEF WriteRequest
    <3>5. QED
      BY <3>3, <3>4 DEF Step, Goto, CounterInv
  <2>7. CASE FindNotReady(c) \/ Park(c)
    BY <2>7 DEF FindNotReady, Park, Step, Goto, CounterInv
  <2>8. QED
    BY <2>2, <2>3, <2>4, <2>5, <2>6, <2>7 DEF Works
<1>6. OwnedRequest'
  <2>1. CASE Arm(c)
    <3>1. CASE session' = [session EXCEPT !.hasAck = None]
      BY <1>1, <1>2, <1>3, <3>1 DEF OwnedRequest
    <3>2. CASE session' = [session EXCEPT !.hasAck = None, !.pending = NewRequest(c, None)]
               /\ caller[c].op # None
      BY <1>1, <1>2, <1>3, <3>2 DEF OwnedRequest, NewRequest
    <3>3. ASSUME NEW i \in Buffered(caller[c].op), caller[c].op # None,
                 session' = [session EXCEPT !.hasAck = None, !.unmatched = Without(@, i),
                                            !.pending = NewRequest(c, session.unmatched[i])]
          PROVE  OwnedRequest'
      BY <1>1, <1>2, <1>3, <3>3 DEF OwnedRequest, NewRequest
    <3>4. QED
      BY <2>1, <3>1, <3>2, <3>3 DEF Arm
  <2>2. CASE ~Arm(c)
    <3>1. session'.pending = session.pending
      <4>1. CASE StoreSequence(c)
        BY <4>1 DEF StoreSequence
      <4>2. CASE FetchSequence(c)
        BY <4>2 DEF FetchSequence
      <4>3. CASE LoadSequence(c) \/ WriteRequest(c) \/ FindNotReady(c) \/ Park(c)
        <5>1. session' = session
          BY <4>3 DEF LoadSequence, WriteRequest, FindNotReady, Park
        <5>2. QED
          BY <5>1
      <4>4. QED
        BY <2>2, <4>1, <4>2, <4>3 DEF Works
    <3>2. QED
      BY <1>1, <1>2, <1>3, <3>1 DEF OwnedRequest
  <2>3. QED
    BY <2>1, <2>2
<1>7. QED
  BY <1>4, <1>5, <1>6

LEMMA EntersKeep ==
  ASSUME SendInv, NEW c \in Callers,
         Lock(c) \/ \E o \in Opcodes \cup {None} : Call(c, o)
  PROVE  MutualExclusion' /\ CounterInv' /\ OwnedRequest'
<1> USE DEF SendInv, TypeInv, TypeOK, CallerOK
<1>1. /\ \A d \in Callers : d # c => caller'[d] = caller[d]
      /\ caller[c].pc \in {"idle", "lock"} /\ UNCHANGED <<session, net>>
  BY DEF Lock, Call, Step, Goto
<1>2. \/ caller'[c].pc = "lock" /\ UNCHANGED sendMtx
      \/ caller'[c].pc = "load" /\ sendMtx = None /\ sendMtx' = c
  BY DEF Lock, Call, Step, Goto
<1>3. None \notin Callers
  BY SessionAssumption DEF SessionAssumption
<1>4. MutualExclusion'
  BY <1>1, <1>2, <1>3 DEF MutualExclusion, Holding
<1>5. CounterInv'
  BY <1>1, <1>2 DEF CounterInv, BitsOf
<1>6. OwnedRequest'
  BY <1>1, <1>2, <1>3 DEF OwnedRequest, Holding
<1>7. QED
  BY <1>4, <1>5, <1>6

-----------------------------------------------------------------------------
LEMMA SendInvariant == Spec => []SendInv
<1>1. Init => SendInv
  BY TypeInit DEF Init, SendInv, MutualExclusion, Holding, CounterInv, BitsOf, OwnedRequest
<1>2. SendInv /\ [Next]_vars => SendInv'
  <2>1. ASSUME SendInv, [Next]_vars PROVE TypeInv'
    BY <2>1, TypeNext DEF SendInv
  <2>2. ASSUME SendInv, Next PROVE MutualExclusion' /\ CounterInv' /\ OwnedRequest'
    <3>1. CASE Others
      BY <2>2, <3>1, OthersKeep
    <3>2. ASSUME NEW c \in Callers,
                 \/ \E o \in Opcodes \cup {None} : Call(c, o)
                 \/ CallStep(c) \/ TimeOut(c)
          PROVE  MutualExclusion' /\ CounterInv' /\ OwnedRequest'
      <4>1. \/ Leaves(c) \/ Works(c) \/ Lock(c)
            \/ \E o \in Opcodes \cup {None} : Call(c, o)
        BY <3>2 DEF CallStep, Leaves, Works
      <4>2. QED
        BY <2>2, <4>1, LeavesKeep, WorksKeep, EntersKeep
    <3>3. QED
      BY <2>2, <3>1, <3>2 DEF Next, Others
  <2>3. ASSUME SendInv, UNCHANGED vars PROVE MutualExclusion' /\ CounterInv' /\ OwnedRequest'
    BY <2>3 DEF SendInv, MutualExclusion, CounterInv, BitsOf, OwnedRequest, vars
  <2>4. QED
    BY <2>1, <2>2, <2>3 DEF SendInv
<1>3. QED
  BY <1>1, <1>2, PTL DEF Spec

\* Every data frame the session writes carries a one-bit sequence number: the
\* reader only ever stores 0 or 1 between the accesses of nextSequenceNumber(),
\* and _sendMtx keeps a second caller out of them.
THEOREM RequestsCarryOneBit == Spec => []OneBitSequence
<1>1. SendInv => OneBitSequence
  BY DEF SendInv, CounterInv, BitsOf, OneBitSequence
<1>2. QED
  BY SendInvariant, <1>1, PTL

\* _pendingRequest is that of the caller inside _sendMtx, or was left behind by
\* a failed write.
THEOREM PendingIsOwned == Spec => []NoOrphanRequest
<1>1. SendInv => NoOrphanRequest
  BY DEF SendInv, OwnedRequest, NoOrphanRequest
<1>2. QED
  BY SendInvariant, <1>1, PTL

\* The critical section of _sendMtx has one caller at a time.
THEOREM SendMutexExcludes == Spec => []MutualExclusion
<1>1. SendInv => MutualExclusion
  BY DEF SendInv
<1>2. QED
  BY SendInvariant, <1>1, PTL
=============================================================================
