---------------------------- MODULE RfcommProofs ----------------------------
(***************************************************************************)
(* The macOS connector keeps its bounds, a send that returns was written,  *)
(* there is one native channel at a time, and every frame the headset sent *)
(* is handed on once, in order and unchanged (TypeOK, SendIsWritten,       *)
(* OneChannel and FramesSurvive of RfcommConnector), for any frames and    *)
(* noise between them, chunks and buffer sizes.                            *)
(***************************************************************************)
EXTENDS RfcommConnector, FrameCodecProofs

Sending == {"sending", "sendChecked", "sendParked"}

WriteType ==
  /\ write \in [id : Nat, at : {"none", "queued", "started", "done", "failed"}]
  /\ inflight \in Nat /\ sends \in Nat /\ reported \in Nat /\ written \in Nat
  /\ stop \in BOOLEAN /\ connected \in BOOLEAN /\ opened \in {"no", "ok", "failed"}
BytesType ==
  /\ input \in Inputs /\ received \in Seq(Byte) /\ buffer \in Seq(Byte) /\ arrived \in Nat
  /\ Len(received) <= MaxReceived
ThreadsType ==
  /\ caller \in {"idle", "joining", "opening", "openChecked", "openParked", "failing", "sending",
                 "sendChecked", "sendParked", "leaving"}
  /\ reader \in {"none", "check", "checked", "parked"}
  /\ owner \in {"none", "starting", "loop", "writing", "callback", "leaving", "closing", "ended"}
  /\ channel \in {"none", "opening", "open", "closed"}

\* The channel belongs to the owner: it is opened after the last one was closed,
\* completes once, and carries writes only when it is open.
ChannelInv ==
  /\ owner \in {"none", "starting", "ended"} => channel \in {"none", "closed"} /\ inflight = 0
  /\ owner = "callback" => channel = "open" /\ ~connected
  /\ owner \in {"starting", "callback"} \/ channel = "opening" => inflight = 0 /\ write = NoWrite
  /\ owner = "writing" => channel = "open" /\ inflight = 0 /\ write.at = "started"
  /\ connected => channel = "open" /\ owner \in {"loop", "writing", "leaving"}

\* A write in flight is the one in the state, and while the connection lasts the
\* caller waits for a write the owner has not finished; each that is done was
\* counted as written.
WriteInv ==
  /\ inflight # 0 => write.id = inflight /\ write.at = "started"
  /\ connected /\ write.at \in {"queued", "started"} => caller \in Sending
  /\ reported + (IF write.at = "done" THEN 1 ELSE 0) <= written

\* What is kept of the stream begins a frame and is short, or has no start marker.
BufferInv ==
  /\ Len(buffer) < 2 * MaxFrameSize + ReadSize
  /\ Len(buffer) <= 2 * MaxFrameSize \/ \A k \in 1 .. Len(buffer) : buffer[k] # StartMarker

\* What the reader has taken of the input.
Taken == SubSeq(input.bytes, 1, consumed)

\* No byte is lost between the channel and the reader while the connection lasts;
\* what was parsed is what a parse of all that was taken finds, and the buffer holds
\* the frame it ends in, unless that is too long to become one.
StreamInv ==
  /\ consumed \in Nat /\ consumed <= arrived /\ arrived <= Len(input.bytes)
  /\ ~stop => received = SubSeq(input.bytes, consumed + 1, arrived)
  /\ frames = Parsed(Taken)
  /\ Holds(Taken, buffer)

SendInv == WriteType /\ ThreadsType /\ ChannelInv /\ WriteInv
ByteInv == BytesType /\ BufferInv

-----------------------------------------------------------------------------
(* Threads that are woken, and a state that is cancelled.                  *)

LEMMA WokenIs ==
  ASSUME ThreadsType
  PROVE  /\ Woken(caller) \in {"idle", "joining", "opening", "openChecked", "openParked", "failing",
                               "sending", "sendChecked", "sendParked", "leaving"}
         /\ caller \in Sending => Woken(caller) \in Sending
         /\ Woken(reader) \in {"none", "check", "checked", "parked"}
  BY DEF ThreadsType, Woken, Sending

\* A step that changes no count, and of the state only what cancel() changes.
LEMMA CancelKeeps ==
  ASSUME SendInv, Cancel, UNCHANGED <<sends, channel, inflight, countVars>>, ThreadsType',
         owner' \in {owner, "leaving", "closing"}, owner' = owner \/ owner \notin {"none", "ended"}
  PROVE  SendInv'
<1> USE DEF Cancel, countVars, SendInv
<1>1. WriteType'
  BY DEF WriteType
<1>2. ChannelInv'
  BY DEF ChannelInv
<1>3. WriteInv'
  BY DEF WriteInv
<1> QED
  BY <1>1, <1>2, <1>3

\* A step of the threads that leaves the state and the channel alone.
LEMMA ThreadsKeep ==
  ASSUME SendInv, UNCHANGED <<sends, channel, inflight, countVars, stateVars>>, ThreadsType',
         caller \in Sending => caller' \in Sending,
         owner' = owner \/ (owner' = "leaving" /\ owner \in {"starting", "loop"})
  PROVE  SendInv'
<1> USE DEF stateVars, countVars, SendInv
<1>1. WriteType'
  BY DEF WriteType
<1>2. ChannelInv'
  BY DEF ChannelInv
<1>3. WriteInv'
  BY DEF WriteInv
<1> QED
  BY <1>1, <1>2, <1>3

-----------------------------------------------------------------------------
(* The caller, the reader and the owner.                                   *)

LEMMA CallerKeeps ==
  ASSUME SendInv,
         \/ BeginConnect \/ OpenReturns \/ OpenFails \/ CallerWaits \/ SendFails
         \/ BeginDisconnect \/ Joined \/ CancelPending
  PROVE  SendInv'
<1> USE DEF callerKeeps
<1>1. CASE BeginConnect \/ OpenFails \/ SendFails \/ BeginDisconnect \/ CancelPending
  <2>1. Cancel /\ UNCHANGED <<sends, channel, inflight, countVars, owner>>
    BY <1>1 DEF BeginConnect, OpenFails, SendFails, BeginDisconnect, CancelPending
  <2>2. ThreadsType'
    <3>1. ThreadsType
      BY DEF SendInv
    <3>2. UNCHANGED <<channel, owner>>
      BY <2>1
    <3>3. /\ caller' \in {"joining", "failing", "idle", "leaving", Woken(caller)}
          /\ reader' \in {reader, Woken(reader)}
      BY <1>1 DEF BeginConnect, OpenFails, SendFails, BeginDisconnect, CancelPending, Notify
    <3> QED
      BY <3>1, <3>2, <3>3, WokenIs DEF ThreadsType
  <2> QED
    BY <2>1, <2>2, CancelKeeps
<1>2. CASE CallerWaits
  <2>1. UNCHANGED <<sends, channel, inflight, countVars, stateVars, owner, reader>>
    BY <1>2 DEF CallerWaits
  <2>2. \/ caller = "opening" /\ caller' = "openChecked"
        \/ caller = "openChecked" /\ caller' = "openParked"
        \/ caller = "sending" /\ caller' = "sendChecked"
        \/ caller = "sendChecked" /\ caller' = "sendParked"
    BY <1>2 DEF CallerWaits, Waits
  <2>3. ThreadsType' /\ (caller \in Sending => caller' \in Sending)
    BY <2>1, <2>2 DEF SendInv, ThreadsType, Sending
  <2> QED
    BY <2>1, <2>3, ThreadsKeep
<1>3. CASE OpenReturns
  <2>1. /\ UNCHANGED <<sends, channel, inflight, countVars, stateVars, owner>>
        /\ caller = "opening" /\ caller' = "idle" /\ reader' = "check"
    BY <1>3 DEF OpenReturns
  <2>2. ThreadsType' /\ caller \notin Sending
    BY <2>1 DEF SendInv, ThreadsType, Sending
  <2> QED
    BY <2>1, <2>2, ThreadsKeep
<1>4. CASE Joined
  <2>1. /\ UNCHANGED <<sends, channel, inflight, countVars, stateVars, owner, reader>>
        /\ caller \in {"leaving", "failing"} /\ caller' = "idle"
    BY <1>4 DEF Joined
  <2>2. ThreadsType' /\ caller \notin Sending
    BY <2>1 DEF SendInv, ThreadsType, Sending
  <2> QED
    BY <2>1, <2>2, ThreadsKeep
<1> QED
  BY <1>1, <1>2, <1>3, <1>4

\* A new state: the last connection's channel is closed.
LEMMA StartOwnerKeeps ==
  ASSUME SendInv, StartOwner
  PROVE  SendInv'
<1>1. /\ owner \in {"none", "ended"} /\ owner' = "starting" /\ caller' = "opening"
      /\ ~stop' /\ stop' \in BOOLEAN /\ ~connected' /\ connected' \in BOOLEAN /\ opened' = "no"
      /\ write' = NoWrite /\ reported' = 0 /\ written' = 0 /\ sends' = 0
      /\ UNCHANGED <<reader, channel, inflight>>
  BY DEF StartOwner, CanJoin
<1>2. WriteType' /\ ThreadsType'
  BY <1>1 DEF SendInv, WriteType, ThreadsType, NoWrite
<1>3. ChannelInv'
  BY <1>1 DEF SendInv, ChannelInv
<1>4. WriteInv'
  BY <1>1 DEF SendInv, ChannelInv, WriteInv, NoWrite
<1> QED
  BY <1>2, <1>3, <1>4 DEF SendInv

LEMMA SendKeeps ==
  ASSUME SendInv, Send
  PROVE  SendInv'
<1>1. /\ caller = "idle" /\ connected /\ sends' = sends + 1 /\ caller' = "sending"
      /\ write' = [id |-> sends + 1, at |-> "queued"] /\ reader' = Woken(reader)
      /\ UNCHANGED <<owner, channel, inflight, stop, connected, opened, countVars>>
  BY DEF Send
<1>2. inflight = 0 /\ channel = "open" /\ owner \in {"loop", "leaving"}
  <2>1. write.at # "started"
    BY <1>1 DEF SendInv, WriteInv, Sending
  <2> QED
    BY <1>1, <2>1 DEF SendInv, WriteInv, ChannelInv
<1>3. WriteType'
  BY <1>1 DEF SendInv, WriteType, countVars
<1>4. ThreadsType'
  BY <1>1, WokenIs DEF SendInv, ThreadsType
<1>5. ChannelInv'
  BY <1>1, <1>2 DEF ChannelInv
<1>6. WriteInv'
  <2>1. reported' <= written'
    BY <1>1 DEF SendInv, WriteInv, WriteType, countVars
  <2>2. write'.at = "queued" /\ inflight' = 0 /\ caller' \in Sending /\ reported' \in Nat
    BY <1>1, <1>2, <1>3 DEF Sending, WriteType
  <2> QED
    BY <2>1, <2>2 DEF WriteInv
<1> QED
  BY <1>3, <1>4, <1>5, <1>6 DEF SendInv

LEMMA SendReturnsKeeps ==
  ASSUME SendInv, SendReturns
  PROVE  SendInv'
<1>1. /\ write.at = "done" /\ caller' = "idle" /\ write' = NoWrite /\ reported' = reported + 1
      /\ UNCHANGED <<sends, owner, channel, inflight, stop, connected, opened, reader, written>>
  BY DEF SendReturns, IsWritten
<1>2. inflight = 0
  BY <1>1 DEF SendInv, WriteInv
<1>3. reported + 1 <= written
  BY <1>1 DEF SendInv, WriteInv
<1>4. WriteType' /\ ThreadsType'
  BY <1>1 DEF SendInv, WriteType, ThreadsType, NoWrite
<1>5. ChannelInv'
  BY <1>1 DEF SendInv, ChannelInv
<1>6. WriteInv'
  BY <1>1, <1>2, <1>3, <1>4 DEF WriteInv, NoWrite, WriteType
<1> QED
  BY <1>4, <1>5, <1>6 DEF SendInv

LEMMA ReaderKeeps ==
  ASSUME SendInv, Receive \/ ReaderWaits
  PROVE  SendInv'
<1>1. /\ UNCHANGED <<sends, caller, owner, channel, stop, connected, opened, write, inflight, countVars>>
      /\ reader' \in {reader, "none", "checked", "parked", "check"}
  BY DEF Receive, ReaderWaits, readerKeeps
<1>2. WriteType' /\ ThreadsType'
  BY <1>1 DEF SendInv, WriteType, ThreadsType, countVars
<1>3. ChannelInv' /\ WriteInv'
  BY <1>1 DEF SendInv, ChannelInv, WriteInv, countVars
<1> QED
  BY <1>2, <1>3 DEF SendInv

LEMMA TakeWriteKeeps ==
  ASSUME SendInv, TakeWrite
  PROVE  SendInv'
<1> USE DEF ownerKeeps
<1>1. /\ owner = "loop" /\ connected /\ write.at = "queued"
      /\ owner' = "writing" /\ write' = [write EXCEPT !.at = "started"]
      /\ UNCHANGED <<sends, inflight, caller, reader, channel, stop, connected, opened, countVars>>
  BY DEF TakeWrite
<1>2. channel = "open" /\ caller \in Sending /\ inflight = 0
  BY <1>1 DEF SendInv, ChannelInv, WriteInv
<1>3. WriteType' /\ ThreadsType'
  BY <1>1 DEF SendInv, WriteType, ThreadsType, countVars
<1>4. write'.at = "started"
  BY <1>1 DEF SendInv, WriteType
<1>5. ChannelInv'
  BY <1>1, <1>2, <1>4 DEF ChannelInv
<1>6. WriteInv'
  <2>1. reported' \in Nat /\ reported <= written /\ UNCHANGED <<reported, written>>
    BY <1>1, <1>3 DEF SendInv, WriteInv, WriteType, countVars
  <2> QED
    BY <1>1, <1>2, <1>4, <2>1 DEF WriteInv
<1> QED
  BY <1>3, <1>5, <1>6 DEF SendInv

LEMMA GiveWriteKeeps ==
  ASSUME SendInv, GiveWrite
  PROVE  SendInv'
<1>1. /\ owner = "writing" /\ channel = "open" /\ inflight = 0 /\ write.at = "started"
      /\ write.id \in Nat /\ reported <= written
      /\ UNCHANGED <<sends, channel, countVars>>
  BY DEF GiveWrite, SendInv, ChannelInv, WriteInv, WriteType
<1>2. CASE owner' = "loop" /\ inflight' = write.id /\ UNCHANGED <<stateVars, caller, reader>>
  <2>1. WriteType' /\ ThreadsType'
    BY <1>1, <1>2 DEF SendInv, WriteType, ThreadsType, countVars, stateVars
  <2>2. ChannelInv'
    BY <1>1, <1>2 DEF SendInv, ChannelInv, stateVars
  <2>3. WriteInv'
    BY <1>1, <1>2 DEF SendInv, WriteInv, countVars, stateVars
  <2> QED
    BY <2>1, <2>2, <2>3 DEF SendInv
<1>3. CASE /\ owner' = "loop" /\ write' = [write EXCEPT !.at = "failed"]
           /\ stop' = TRUE /\ connected' = FALSE /\ Notify /\ UNCHANGED <<opened, inflight>>
  <2>1. WriteType'
    BY <1>1, <1>3 DEF SendInv, WriteType, countVars
  <2>2. ThreadsType'
    BY <1>1, <1>3, WokenIs DEF SendInv, ThreadsType, Notify
  <2>3. ChannelInv'
    BY <1>1, <1>3 DEF ChannelInv
  <2>4. write'.at = "failed"
    BY <1>3 DEF SendInv, WriteType
  <2>5. WriteInv'
    <3>1. reported' \in Nat /\ reported' <= written'
      BY <1>1, <2>1 DEF WriteType, countVars
    <3> QED
      BY <1>1, <1>3, <2>4, <3>1 DEF WriteInv
  <2> QED
    BY <2>1, <2>2, <2>3, <2>5 DEF SendInv
<1>4. CASE owner' = "leaving" /\ Cancel /\ Notify /\ UNCHANGED inflight
  <2>1. ThreadsType'
    BY <1>1, <1>4, WokenIs DEF SendInv, ThreadsType, Notify
  <2> QED
    BY <1>1, <1>4, <2>1, CancelKeeps
<1> QED
  BY <1>2, <1>3, <1>4 DEF GiveWrite

LEMMA OwnerKeeps ==
  ASSUME SendInv, OwnerStep
  PROVE  SendInv'
<1> USE DEF ownerKeeps
<1>1. CASE OwnerStarts
  <2>1. CASE owner' = "loop"
    <3>1. /\ owner = "starting" /\ channel' = "opening"
          /\ UNCHANGED <<sends, inflight, countVars, stateVars, caller, reader>>
      BY <1>1, <2>1 DEF OwnerStarts
    <3>2. WriteType' /\ ThreadsType' /\ WriteInv'
      BY <2>1, <3>1 DEF SendInv, WriteType, ThreadsType, WriteInv, countVars, stateVars
    <3>3. ChannelInv'
      BY <2>1, <3>1 DEF SendInv, ChannelInv, stateVars
    <3> QED
      BY <3>2, <3>3 DEF SendInv
  <2>2. CASE owner' = "leaving"
    <3>1. owner = "starting" /\ Cancel /\ Notify /\ UNCHANGED <<sends, channel, inflight, countVars>>
      BY <1>1, <2>2 DEF OwnerStarts
    <3>2. ThreadsType'
      BY <2>2, <3>1, WokenIs DEF SendInv, ThreadsType, Notify
    <3> QED
      BY <2>2, <3>1, <3>2, CancelKeeps
  <2> QED
    BY <1>1, <2>1, <2>2 DEF OwnerStarts
<1>2. CASE OwnerLeaves
  <2>1. /\ UNCHANGED <<sends, channel, inflight, countVars, stateVars, caller, reader>>
        /\ owner \in {"starting", "loop"} /\ owner' = "leaving"
    BY <1>2 DEF OwnerLeaves
  <2>2. ThreadsType'
    BY <2>1 DEF SendInv, ThreadsType
  <2> QED
    BY <2>1, <2>2, ThreadsKeep
<1>3. CASE OwnerFails \/ FinalCancel
  <2>1. /\ owner \in {"loop", "leaving"} /\ owner' \in {"leaving", "closing"} /\ Cancel /\ Notify
        /\ UNCHANGED <<sends, channel, inflight, countVars>>
    BY <1>3 DEF OwnerFails, FinalCancel
  <2>2. ThreadsType'
    BY <2>1, WokenIs DEF SendInv, ThreadsType, Notify
  <2> QED
    BY <2>1, <2>2, CancelKeeps
<1>4. CASE CloseChannel
  <2>1. /\ owner = "closing" /\ owner' = "ended" /\ channel' = "closed" /\ inflight' = 0
        /\ UNCHANGED <<sends, countVars, stateVars, caller, reader>>
    BY <1>4 DEF CloseChannel
  <2>2. ~connected
    BY <2>1 DEF SendInv, ChannelInv
  <2>3. WriteType' /\ ThreadsType'
    BY <2>1 DEF SendInv, WriteType, ThreadsType, countVars, stateVars
  <2>4. ChannelInv' /\ WriteInv'
    BY <2>1, <2>2 DEF SendInv, ChannelInv, WriteInv, countVars, stateVars
  <2> QED
    BY <2>3, <2>4 DEF SendInv
<1>5. CASE Opened
  <2>1. /\ owner = "callback" /\ owner' = "loop" /\ connected' = TRUE /\ Notify
        /\ UNCHANGED <<sends, inflight, countVars, channel, stop, opened, write>>
    BY <1>5 DEF Opened
  <2>2. channel = "open" /\ inflight = 0 /\ write = NoWrite
    BY <2>1 DEF SendInv, ChannelInv
  <2>3. WriteType'
    BY <2>1 DEF SendInv, WriteType, countVars
  <2>4. ThreadsType'
    BY <2>1, WokenIs DEF SendInv, ThreadsType, Notify
  <2>5. ChannelInv'
    BY <2>1, <2>2 DEF ChannelInv
  <2>6. WriteInv'
    BY <2>1, <2>2 DEF SendInv, WriteInv, NoWrite, countVars
  <2> QED
    BY <2>3, <2>4, <2>5, <2>6 DEF SendInv
<1>6. CASE GiveWrite
  BY <1>6, GiveWriteKeeps
<1> QED
  BY <1>1, <1>2, <1>3, <1>4, <1>5, <1>6 DEF OwnerStep

-----------------------------------------------------------------------------
(* The channel's callbacks.                                                *)

LEMMA NativeKeeps ==
  ASSUME SendInv, Native
  PROVE  SendInv'
<1> USE DEF ownerKeeps
<1>1. /\ Notify => /\ caller' \in {"idle", "joining", "opening", "openChecked", "openParked", "failing",
                                     "sending", "sendChecked", "sendParked", "leaving"}
                   /\ reader' \in {"none", "check", "checked", "parked"}
      /\ Notify /\ caller \in Sending => caller' \in Sending
  BY WokenIs DEF SendInv, Notify
<1>2. CASE OpenCompletes
  <2>1. /\ owner = "loop" /\ channel = "opening" /\ owner' \in {"loop", "callback"} /\ Notify
        /\ UNCHANGED <<sends, inflight, countVars, stop, connected, write>>
        /\ \/ opened' = "ok" /\ channel' = "open"
           \/ opened' = "failed" /\ channel' = "closed" /\ owner' = "loop"
    BY <1>2 DEF OpenCompletes
  <2>2. ~connected /\ inflight = 0 /\ write = NoWrite
    BY <2>1 DEF SendInv, ChannelInv
  <2>3. WriteType' /\ ThreadsType'
    BY <1>1, <2>1 DEF SendInv, WriteType, ThreadsType, countVars
  <2>4. ChannelInv' /\ WriteInv'
    BY <2>1, <2>2 DEF SendInv, ChannelInv, WriteInv, countVars
  <2> QED
    BY <2>3, <2>4 DEF SendInv
<1>3. CASE HeadsetCloses
  <2>1. /\ owner = "loop" /\ channel' = "closed" /\ inflight' = 0 /\ Cancel /\ Notify
        /\ UNCHANGED <<sends, owner, countVars>>
    BY <1>3 DEF HeadsetCloses
  <2>2. WriteType' /\ ThreadsType'
    BY <1>1, <2>1 DEF SendInv, WriteType, ThreadsType, countVars, Cancel
  <2>3. ChannelInv' /\ WriteInv'
    BY <2>1 DEF SendInv, ChannelInv, WriteInv, countVars, Cancel
  <2> QED
    BY <2>2, <2>3 DEF SendInv
<1>4. CASE \E n \in Chunks : DataArrives(n)
  <2>1. /\ owner = "loop" /\ channel = "open" /\ Notify /\ stop' \in {stop, TRUE}
        /\ connected' \in {connected, FALSE}
        /\ UNCHANGED <<sends, owner, channel, opened, write, inflight, countVars>>
    BY <1>4 DEF DataArrives
  <2>2. WriteType' /\ ThreadsType'
    BY <1>1, <2>1 DEF SendInv, WriteType, ThreadsType, countVars
  <2>3. ChannelInv'
    BY <2>1 DEF SendInv, ChannelInv
  <2>4. WriteInv'
    <3>1. connected' => connected
      BY <2>1
    <3> QED
      BY <1>1, <2>1, <3>1 DEF SendInv, WriteInv, countVars
  <2> QED
    BY <2>2, <2>3, <2>4 DEF SendInv
<1>5. CASE WriteCompletes
  <2>1. /\ owner = "loop" /\ inflight # 0 /\ inflight' = 0 /\ Notify
        /\ UNCHANGED <<sends, owner, channel, opened, reported>>
    BY <1>5 DEF WriteCompletes
  <2>2. write.id = inflight /\ write.at = "started" /\ reported <= written
    BY <2>1 DEF SendInv, WriteInv, WriteType
  <2>3. ThreadsType'
    BY <1>1, <2>1 DEF SendInv, ThreadsType
  <2>4. CASE /\ written' = written + 1 /\ write' = [write EXCEPT !.at = "done"]
             /\ UNCHANGED <<stop, connected>>
    <3>1. WriteType'
      BY <2>1, <2>4 DEF SendInv, WriteType
    <3>2. ChannelInv'
      BY <2>1, <2>4 DEF SendInv, ChannelInv
    <3>3. write'.at = "done"
      BY <2>4 DEF SendInv, WriteType
    <3>4. reported + 1 <= written'
      BY <2>2, <2>4 DEF SendInv, WriteType
    <3>5. WriteInv'
      BY <2>1, <3>3, <3>4 DEF WriteInv
    <3> QED
      BY <2>3, <3>1, <3>2, <3>5 DEF SendInv
  <2>5. CASE /\ UNCHANGED written /\ write' = [write EXCEPT !.at = "failed"] /\ stop' = TRUE
             /\ connected' = FALSE
    <3>1. WriteType'
      BY <2>1, <2>5 DEF SendInv, WriteType
    <3>2. ChannelInv'
      BY <2>1, <2>5 DEF SendInv, ChannelInv
    <3>3. write'.at = "failed"
      BY <2>5 DEF SendInv, WriteType
    <3>4. WriteInv'
      BY <2>1, <2>2, <2>5, <3>1, <3>3 DEF WriteInv, WriteType
    <3> QED
      BY <2>3, <3>1, <3>2, <3>4 DEF SendInv
  <2> QED
    BY <1>5, <2>2, <2>4, <2>5 DEF WriteCompletes
<1> QED
  BY <1>2, <1>3, <1>4, <1>5 DEF Native

-----------------------------------------------------------------------------
(* The bytes.                                                              *)

LEMMA Associative ==
  \A a \in Seq(Byte), b \in Seq(Byte), c \in Seq(Byte) : (a \o b) \o c = a \o (b \o c)
  BY ConcatAssociative

LEMMA PieceIs ==
  ASSUME NEW s, IsSent(s)
  PROVE  /\ Piece(s) \in Seq(Byte) /\ Piece(s) # <<>> /\ Piece(s)[1] = StartMarker
         /\ Parsed(Piece(s)) = <<s.frame>> /\ Bounded(Piece(s)) /\ s.frame \in Result
<1> DEFINE w == Wire(s.frame)
<1>1. s.frame \in Frame /\ Encode(s.frame) # <<>> /\ s.then \in Seq(Byte) /\ Parsed(s.then) = <<>>
  BY DEF IsSent, IsNoise
<1>2. w \in Seq(Byte) /\ Len(w) \in Nat /\ Len(w) >= 2 /\ w[1] = StartMarker
  BY <1>1, WireIs
<1>3. Parsed(w) = <<s.frame>> /\ Closed(w) /\ Bounded(w) /\ s.frame \in Result
  BY <1>1, WireParsed
<1> HIDE DEF w
<1>4. Splits(w, s.then)
  BY <1>3 DEF Splits
<1>5. Parsed(w \o s.then) = <<s.frame>>
  <2>1. Parsed(w \o s.then) = <<s.frame>> \o <<>>
    BY <1>1, <1>2, <1>3, <1>4, ParsedSplits
  <2>2. <<s.frame>> \in Seq(Result)
    BY <1>3
  <2> QED
    BY <2>1, <2>2, ConcatEmptySeq
<1>6. Bounded(w \o s.then)
  BY <1>1, <1>2, <1>3, <1>4, BoundedSplits, NothingParsed
<1>7. /\ w \o s.then \in Seq(Byte) /\ Len(w \o s.then) = Len(w) + Len(s.then) /\ Len(s.then) \in Nat
      /\ \A i \in 1 .. Len(w) : (w \o s.then)[i] = w[i]
  BY <1>1, <1>2, ConcatIs
<1>8. (w \o s.then)[1] = StartMarker /\ w \o s.then # <<>>
  BY <1>2, <1>7, EmptySeq
<1> QED
  BY <1>3, <1>5, <1>6, <1>7, <1>8 DEF Piece, w

\* Every frame a headset sent is found in the bytes, and nothing else is.
LEMMA InputIs ==
  ASSUME NEW i \in Inputs
  PROVE  i.bytes \in Seq(Byte) /\ Parsed(i.bytes) = i.intact /\ Bounded(i.bytes)
<1> PICK t \in Transmissions : i = [bytes |-> Bytes(t), intact |-> Frames(t), sends |-> t.sends]
  BY DEF Inputs
<1> DEFINE n == Len(t.sent)
           S == {t.sent[k] : k \in 1 .. n}
           Pieces(x) == [k \in 1 .. Len(x) |-> Piece(x[k])]
           Sent(x) == [k \in 1 .. Len(x) |-> x[k].frame]
           All(x) == t.before \o FlattenSeq(Pieces(x))
           T == {x \in Seq(S) : All(x) \in Seq(Byte) /\ Parsed(All(x)) = Sent(x) /\ Bounded(All(x))}
<1>1. /\ t.before \in Seq(Byte) /\ Parsed(t.before) = <<>> /\ n \in Nat
      /\ \A k \in 1 .. n : IsSent(t.sent[k])
  BY ConnectorAssumption DEF IsNoise
<1>2. \A e \in S : IsSent(e)
  BY <1>1
<1> HIDE DEF S
<1>3. ASSUME NEW x \in Seq(S) PROVE Pieces(x) \in Seq(Seq(Byte)) /\ Sent(x) \in Seq(Result)
  <2>1. \A k \in 1 .. Len(x) : x[k] \in S
    BY LenProperties
  <2>2. \A k \in 1 .. Len(x) : Piece(x[k]) \in Seq(Byte) /\ x[k].frame \in Result
    BY <1>2, <2>1, PieceIs
  <2>3. Len(x) \in Nat
    BY LenProperties
  <2> QED
    BY <2>2, <2>3
<1>4. <<>> \in T
  <2>1. <<>> \in Seq(S) /\ Pieces(<<>>) = <<>> /\ Sent(<<>>) = <<>>
    OBVIOUS
  <2>2. All(<<>>) = t.before
    BY <1>1, <2>1, FlattenEmpty, ConcatEmptySeq
  <2>3. Bounded(t.before)
    BY <1>1, NothingParsed
  <2> QED
    BY <1>1, <2>1, <2>2, <2>3
<1>5. ASSUME NEW x \in Seq(S), NEW e \in S, x \in T PROVE Append(x, e) \in T
  <2> DEFINE y == Append(x, e)
             p == Piece(e)
  <2>1. y \in Seq(S) /\ Len(y) = Len(x) + 1 /\ Len(x) \in Nat /\ y[Len(x) + 1] = e
        /\ \A k \in 1 .. Len(x) : y[k] = x[k]
    BY AppendProperties, LenProperties
  <2>2. /\ p \in Seq(Byte) /\ p # <<>> /\ p[1] = StartMarker /\ Parsed(p) = <<e.frame>> /\ Bounded(p)
        /\ e.frame \in Result
    BY <1>2, PieceIs
  <2> HIDE DEF y, p
  <2>3. Pieces(y) = Append(Pieces(x), p)
    <3>1. /\ Pieces(x) \in Seq(Seq(Byte)) /\ Len(Pieces(x)) = Len(x)
          /\ \A k \in 1 .. Len(x) : Pieces(x)[k] = Piece(x[k])
      BY <1>3, <2>1
    <3> QED
      BY <2>1, <3>1 DEF p
  <2>4. Sent(y) = Sent(x) \o <<e.frame>>
    BY <1>3, <2>1, <2>2
  <2>5. FlattenSeq(Pieces(y)) = FlattenSeq(Pieces(x)) \o p /\ FlattenSeq(Pieces(x)) \in Seq(Byte)
    <3>1. Pieces(x) \in Seq(Seq(Byte))
      BY <1>3
    <3> HIDE DEF Pieces
    <3> QED
      BY <2>2, <2>3, <3>1, FlattenAppend, FlattenType
  <2> HIDE DEF Pieces
  <2> DEFINE f == FlattenSeq(Pieces(x))
  <2>6. All(y) = All(x) \o p /\ All(x) \in Seq(Byte)
    <3>1. All(y) = t.before \o (f \o p) /\ f \in Seq(Byte)
      BY <2>5
    <3>2. All(x) = t.before \o f /\ All(x) \in Seq(Byte)
      BY <1>5
    <3> HIDE DEF f
    <3>3. (t.before \o f) \o p = t.before \o (f \o p)
      <4>1. t.before \in Seq(Byte) /\ f \in Seq(Byte) /\ p \in Seq(Byte)
        BY <1>1, <2>2, <3>1
      <4> QED
        BY <4>1, Associative
    <3> HIDE DEF All
    <3> QED
      BY <3>1, <3>2, <3>3
  <2>7. Parsed(All(x)) = Sent(x) /\ Bounded(All(x))
    BY <1>5
  <2> HIDE DEF All, Sent
  <2>8. Splits(All(x), p)
    BY <2>2 DEF Splits
  <2>9. Parsed(All(y)) = Sent(y)
    BY <2>2, <2>4, <2>6, <2>7, <2>8, ParsedSplits
  <2>10. Bounded(All(y)) /\ All(y) \in Seq(Byte)
    BY <2>2, <2>6, <2>7, <2>8, BoundedSplits, ConcatIs
  <2> QED
    BY <2>1, <2>9, <2>10 DEF y
<1> HIDE DEF T
<1>6. \A x \in Seq(S) : x \in T
  BY <1>4, <1>5, SeqInduction
<1> DEFINE s == [k \in 1 .. n |-> t.sent[k]]
<1>7. s \in Seq(S) /\ Len(s) = n
  BY <1>1 DEF S
<1>8. All(s) = i.bytes /\ Sent(s) = i.intact
  BY <1>7 DEF Bytes, Frames
<1> QED
  <2>1. s \in T
    BY <1>6, <1>7
  <2> HIDE DEF s
  <2>2. All(s) \in Seq(Byte) /\ Parsed(All(s)) = Sent(s) /\ Bounded(All(s))
    BY <2>1 DEF T
  <2> QED
    BY <1>8, <2>2

\* What is kept begins with its only start marker.
LEMMA KeptBegins ==
  ASSUME NEW bytes \in Seq(Byte)
  PROVE  \/ Kept(bytes) = <<>>
         \/ \E i \in 1 .. Len(bytes) :
              /\ bytes[i] = StartMarker /\ Kept(bytes) = SubSeq(bytes, i, Len(bytes))
              /\ \A k \in i + 1 .. Len(bytes) : bytes[k] # StartMarker
<1> DEFINE n == Len(bytes)
           i == From(bytes, n + 1)
<1>1. n \in Nat /\ n + 1 \in Nat /\ (n + 1) - 1 = n
  BY LenProperties
<1>2. CASE OpenBefore(bytes, n + 1) = {}
  BY <1>2 DEF Kept
<1>3. CASE OpenBefore(bytes, n + 1) # {}
  <2>1. /\ i \in 1 .. (n + 1) - 1 /\ bytes[i] = StartMarker
        /\ \A k \in i + 1 .. (n + 1) - 1 : bytes[k] \notin Ending
    BY <1>1, <1>3, OpenIs
  <2>2. Kept(bytes) = SubSeq(bytes, i, n)
    BY <1>3 DEF Kept
  <2> HIDE DEF i
  <2> QED
    BY <1>1, <2>1, <2>2 DEF Ending
<1> QED
  BY <1>2, <1>3

LEMMA ReceiveBounds ==
  ASSUME ByteInv, Receive
  PROVE  ByteInv'
<1> DEFINE n == IF Len(received) < ReadSize THEN Len(received) ELSE ReadSize
           chunk == SubSeq(received, 1, n)
           bytes == buffer \o chunk
           b == Len(buffer)
<1>1. /\ received \in Seq(Byte) /\ buffer \in Seq(Byte) /\ Len(received) \in Nat /\ b \in Nat
      /\ Len(received) <= MaxReceived /\ MaxReceived \in Nat /\ ReadSize \in Nat \ {0}
      /\ MaxFrameSize \in Nat \ {0}
  BY LenProperties, ConnectorAssumption DEF ByteInv, BytesType
<1>2. n \in 0 .. ReadSize /\ n <= Len(received)
  BY <1>1
<1>3. /\ received' = SubSeq(received, n + 1, Len(received)) /\ buffer' = Rest(bytes)
      /\ UNCHANGED <<input, arrived>>
  BY DEF Receive, Parse, readerKeeps
<1> HIDE DEF n
<1>4. received' \in Seq(Byte) /\ Len(received') <= MaxReceived
  <2>1. received' \in Seq(Byte) /\ Len(received') = Len(received) - n
    BY <1>1, <1>2, <1>3, SubSeqProperties
  <2> QED
    BY <1>1, <1>2, <2>1
<1>5. chunk \in Seq(Byte) /\ Len(chunk) = n
  BY <1>1, <1>2, SubSeqProperties
<1> HIDE DEF chunk
<1>6. /\ bytes \in Seq(Byte) /\ Len(bytes) = b + n
      /\ \A i \in 1 .. b : bytes[i] = buffer[i]
  <2>1. /\ bytes \in Seq(Byte) /\ Len(bytes) = Len(buffer) + Len(chunk)
        /\ \A i \in 1 .. Len(buffer) + Len(chunk) :
             bytes[i] = IF i <= Len(buffer) THEN buffer[i] ELSE chunk[i - Len(buffer)]
    BY <1>1, <1>5, ConcatProperties
  <2> HIDE DEF bytes
  <2>2. \A i \in 1 .. b : i \in 1 .. Len(buffer) + Len(chunk) /\ i <= Len(buffer)
    BY <1>1, <1>2, <1>5
  <2> QED
    BY <1>5, <2>1, <2>2
<1> HIDE DEF bytes
<1>7. CASE Kept(bytes) = <<>>
  <2>1. buffer' = <<>>
    BY <1>1, <1>3, <1>7 DEF Rest
  <2>2. buffer' \in Seq(Byte) /\ Len(buffer') = 0
    BY <2>1, EmptySeq
  <2>3. BufferInv'
    BY <1>1, <2>2 DEF BufferInv
  <2> QED
    BY <1>3, <1>4, <2>2, <2>3 DEF ByteInv, BytesType
<1>8. CASE \E i \in 1 .. Len(bytes) :
              /\ bytes[i] = StartMarker /\ Kept(bytes) = SubSeq(bytes, i, Len(bytes))
              /\ \A k \in i + 1 .. Len(bytes) : bytes[k] # StartMarker
  <2> PICK i \in 1 .. Len(bytes) :
              /\ bytes[i] = StartMarker /\ Kept(bytes) = SubSeq(bytes, i, Len(bytes))
              /\ \A k \in i + 1 .. Len(bytes) : bytes[k] # StartMarker
    BY <1>8
  <2> DEFINE kept == Kept(bytes)
  <2>1. /\ kept \in Seq(Byte) /\ Len(kept) = b + n - i + 1
        /\ \A k \in 1 .. b + n - i + 1 : kept[k] = bytes[i + k - 1]
    BY <1>1, <1>2, <1>6, SubSeqProperties
  <2>2. Len(kept) <= 2 * MaxFrameSize + ReadSize
    <3>1. CASE b <= 2 * MaxFrameSize
      BY <1>1, <1>2, <1>6, <2>1, <3>1
    <3>2. CASE \A k \in 1 .. b : buffer[k] # StartMarker
      <4>1. i > b
        <5>1. i \in Nat /\ i >= 1
          BY <1>1, <1>2, <1>6
        <5>2. ~(i \in 1 .. b)
          BY <1>6, <3>2
        <5> QED
          BY <1>1, <5>1, <5>2
      <4> QED
        BY <1>1, <1>2, <1>6, <2>1, <4>1
    <3> QED
      BY <3>1, <3>2 DEF ByteInv, BufferInv
  <2> HIDE DEF kept
  <2>3. CASE Len(kept) <= 2 * MaxFrameSize
    <3>1. buffer' = kept
      BY <1>1, <1>2, <1>3, <1>6, <2>1, <2>3 DEF Rest, kept
    <3>2. BufferInv'
      BY <1>1, <2>1, <2>3, <3>1, <1>2, <1>6 DEF BufferInv
    <3> QED
      BY <1>3, <1>4, <2>1, <3>1, <3>2 DEF ByteInv, BytesType
  <2>4. CASE ~(Len(kept) <= 2 * MaxFrameSize)
    <3>1. Len(kept) \in Nat /\ Len(kept) > 2 * MaxFrameSize /\ kept # <<>>
      BY <1>1, <1>2, <1>6, <2>1, <2>4, EmptySeq, SMTT(30)
    <3>2. buffer' = Tail(kept)
      BY <1>3, <3>1 DEF Rest, kept
    <3>3. /\ buffer' \in Seq(Byte) /\ Len(buffer') = Len(kept) - 1
          /\ \A k \in 1 .. Len(buffer') : buffer'[k] = kept[k + 1]
      BY <2>1, <3>1, <3>2, HeadTailProperties
    <3>4. \A k \in 1 .. Len(buffer') : buffer'[k] # StartMarker
      <4> TAKE k \in 1 .. Len(buffer')
      <4>1. k + 1 \in 1 .. b + n - i + 1 /\ i + (k + 1) - 1 \in i + 1 .. Len(bytes)
        BY <1>1, <1>2, <1>6, <2>1, <3>1, <3>3
      <4> QED
        BY <2>1, <3>3, <4>1
    <3>5. Len(buffer') < 2 * MaxFrameSize + ReadSize
      BY <1>1, <2>2, <3>1, <3>3
    <3>6. BufferInv'
      BY <3>4, <3>5 DEF BufferInv
    <3> QED
      BY <1>3, <1>4, <3>3, <3>6 DEF ByteInv, BytesType
  <2> QED
    BY <2>3, <2>4
<1> QED
  BY <1>6, <1>7, <1>8, KeptBegins

LEMMA DataBounds ==
  ASSUME ByteInv, NEW n \in Chunks, DataArrives(n)
  PROVE  ByteInv'
<1> DEFINE more == SubSeq(input.bytes, arrived + 1, arrived + n)
<1>1. /\ n \in Nat /\ arrived \in Nat /\ input.bytes \in Seq(Byte) /\ n <= Len(input.bytes) - arrived
      /\ Len(input.bytes) \in Nat /\ MaxReceived \in Nat /\ received \in Seq(Byte)
      /\ Len(received) \in Nat
  BY LenProperties, ConnectorAssumption, InputIs DEF ByteInv, BytesType, DataArrives
<1>2. UNCHANGED <<input, buffer>> /\ arrived' = arrived + n
  BY DEF DataArrives, readerVars
<1>3. CASE Len(received) + n > MaxReceived
  <2>1. received' = received
    BY <1>3 DEF DataArrives
  <2> QED
    BY <1>1, <1>2, <2>1 DEF ByteInv, BytesType, BufferInv
<1>4. CASE ~(Len(received) + n > MaxReceived)
  <2>1. received' = received \o more
    BY <1>4 DEF DataArrives
  <2>2. more \in Seq(Byte) /\ Len(more) = n
    BY <1>1, SubSeqProperties
  <2> HIDE DEF more
  <2>3. received' \in Seq(Byte) /\ Len(received') = Len(received) + n
    BY <1>1, <2>1, <2>2, ConcatProperties
  <2>4. Len(received') <= MaxReceived
    BY <1>1, <1>4, <2>3
  <2> QED
    BY <1>1, <1>2, <2>3, <2>4 DEF ByteInv, BytesType, BufferInv
<1> QED
  BY <1>3, <1>4

LEMMA NoBytes ==
  ASSUME ByteInv, UNCHANGED <<input, received, buffer, arrived>>
  PROVE  ByteInv'
  BY DEF ByteInv, BytesType, BufferInv

LEMMA BytesKeep ==
  ASSUME ByteInv, Next
  PROVE  ByteInv'
<1> USE DEF callerKeeps, ownerKeeps, readerKeeps, readerVars, stateVars, Cancel
<1>1. CASE StartOwner
  <2>1. received' = <<>> /\ buffer' = <<>> /\ arrived' = 0 /\ input' = input
    BY <1>1 DEF StartOwner
  <2> QED
    BY <2>1, EmptySeq, ConnectorAssumption DEF ByteInv, BytesType, BufferInv
<1>2. CASE BeginConnect \/ OpenReturns \/ OpenFails \/ CallerWaits
  BY <1>2, NoBytes DEF BeginConnect, OpenReturns, OpenFails, CallerWaits
<1>3. CASE Send \/ SendReturns \/ SendFails \/ BeginDisconnect \/ Joined \/ CancelPending
  BY <1>3, NoBytes DEF Send, SendReturns, SendFails, BeginDisconnect, Joined, CancelPending
<1>4. CASE ReaderWaits
  BY <1>4, NoBytes DEF ReaderWaits
<1>5. CASE OwnerStep
  BY <1>5, NoBytes DEF OwnerStep, OwnerStarts, OwnerLeaves, OwnerFails, FinalCancel, CloseChannel, Opened,
                     GiveWrite
<1>6. CASE TakeWrite \/ OpenCompletes \/ HeadsetCloses \/ WriteCompletes
  BY <1>6, NoBytes DEF TakeWrite, OpenCompletes, HeadsetCloses, WriteCompletes
<1> QED
  BY <1>1, <1>2, <1>3, <1>4, <1>5, <1>6, ReceiveBounds, DataBounds
     DEF Next, User, CallerStep, ReaderStep, Native

-----------------------------------------------------------------------------
(* The threads and the bytes together.                                     *)

ConnectorInv == SendInv /\ ByteInv

LEMMA AlwaysConnectorInv == Spec => []ConnectorInv
<1>1. Init => ConnectorInv
  <2> SUFFICES ASSUME Init PROVE ConnectorInv
    OBVIOUS
  <2>1. SendInv
    <3>1. WriteType /\ ThreadsType
      BY DEF Init, WriteType, ThreadsType, NoWrite
    <3>2. ChannelInv
      BY DEF Init, ChannelInv
    <3>3. WriteInv
      BY DEF Init, WriteInv, NoWrite
    <3> QED
      BY <3>1, <3>2, <3>3 DEF SendInv
  <2>2. ByteInv
    BY EmptySeq, ConnectorAssumption DEF Init, ByteInv, BytesType, BufferInv
  <2> QED
    BY <2>1, <2>2 DEF ConnectorInv
<1>2. ASSUME ConnectorInv, Next PROVE ConnectorInv'
  <2>1. SendInv'
    BY <1>2, CallerKeeps, StartOwnerKeeps, SendKeeps, SendReturnsKeeps, ReaderKeeps, OwnerKeeps,
       TakeWriteKeeps, NativeKeeps DEF ConnectorInv, Next, User, CallerStep, ReaderStep
  <2> QED
    BY <1>2, <2>1, BytesKeep DEF ConnectorInv
<1>3. ConnectorInv /\ UNCHANGED vars => ConnectorInv'
  <2> SUFFICES ASSUME ConnectorInv, UNCHANGED vars PROVE ConnectorInv'
    OBVIOUS
  <2>1. SendInv'
    BY DEF ConnectorInv, SendInv, WriteType, ThreadsType, ChannelInv, WriteInv, vars
  <2>2. ByteInv'
    BY NoBytes DEF ConnectorInv, vars
  <2> QED
    BY <2>1, <2>2 DEF ConnectorInv
<1> QED
  BY <1>1, <1>2, <1>3, PTL DEF Spec

-----------------------------------------------------------------------------
(* What the reader has taken, and what it holds of it.                     *)

LEMMA SliceIs ==
  ASSUME NEW s \in Seq(Byte), NEW i \in Nat, NEW j \in Nat, i <= j, j <= Len(s)
  PROVE  LET a == SubSeq(s, i + 1, j) IN
         a \in Seq(Byte) /\ Len(a) = j - i /\ \A l \in 1 .. j - i : a[l] = s[i + l]
<1> DEFINE p == i + 1
           a == SubSeq(s, p, j)
           n == j - i
<1>1. p \in Nat /\ 1 <= p /\ p <= j + 1 /\ n \in Nat /\ j - p + 1 = n
  OBVIOUS
<1>2. \A l \in 1 .. n : p + l - 1 = i + l
  OBVIOUS
<1> HIDE DEF p, n
<1>3. /\ a \in Seq(Byte) /\ Len(a) = j - p + 1
      /\ \A l \in 1 .. j - p + 1 : a[l] = s[p + l - 1]
  BY <1>1, SubSeqIs
<1> HIDE DEF a
<1>4. \A l \in 1 .. n : a[l] = s[i + l]
  BY <1>1, <1>2, <1>3
<1> QED
  BY <1>1, <1>3, <1>4 DEF a, p, n

\* A sequence cut in two places.
LEMMA CutIs ==
  ASSUME NEW s \in Seq(Byte), NEW i \in Nat, NEW j \in Nat, NEW k \in Nat, i <= j, j <= k, k <= Len(s)
  PROVE  LET a == SubSeq(s, i + 1, j)
             b == SubSeq(s, j + 1, k)
             c == SubSeq(s, i + 1, k) IN
         /\ a \in Seq(Byte) /\ b \in Seq(Byte) /\ c \in Seq(Byte) /\ Len(c) = k - i /\ c = a \o b
         /\ SubSeq(c, 1, j - i) = a /\ SubSeq(c, j - i + 1, k - i) = b
<1> DEFINE a == SubSeq(s, i + 1, j)
           b == SubSeq(s, j + 1, k)
           c == SubSeq(s, i + 1, k)
           n == j - i
           m == k - i
<1>1. n \in Nat /\ m \in Nat /\ n <= m /\ Len(s) \in Nat /\ j <= Len(s) /\ i <= k
  BY LenProperties
<1>2. a \in Seq(Byte) /\ Len(a) = n /\ \A l \in 1 .. n : a[l] = s[i + l]
  BY <1>1, SliceIs
<1>3. b \in Seq(Byte) /\ Len(b) = m - n /\ \A l \in 1 .. m - n : b[l] = s[j + l]
  <2>1. k - j = m - n
    OBVIOUS
  <2>2. b \in Seq(Byte) /\ Len(b) = k - j /\ \A l \in 1 .. k - j : b[l] = s[j + l]
    BY <1>1, SliceIs
  <2> HIDE DEF b, m, n
  <2> QED
    BY <2>1, <2>2
<1>4. c \in Seq(Byte) /\ Len(c) = m /\ \A l \in 1 .. m : c[l] = s[i + l]
  BY <1>1, SliceIs
<1>5. \A l \in 1 .. m - n : s[i + (n + l)] = s[j + l]
  BY <1>1
<1> HIDE DEF a, b, c, n, m
<1>6. c = a \o b
  <2> DEFINE d == a \o b
  <2>1. /\ d \in Seq(Byte) /\ Len(d) = Len(a) + Len(b)
        /\ \A l \in 1 .. Len(a) + Len(b) : d[l] = IF l <= Len(a) THEN a[l] ELSE b[l - Len(a)]
    <3>1. a \in Seq(Byte) /\ b \in Seq(Byte)
      BY <1>2, <1>3
    <3> HIDE DEF d
    <3> QED
      BY <3>1, ConcatProperties DEF d
  <2> HIDE DEF d
  <2>2. Len(d) = m /\ \A l \in 1 .. m : d[l] = IF l <= n THEN a[l] ELSE b[l - n]
    BY <1>1, <1>2, <1>3, <2>1
  <2>3. ASSUME NEW l \in 1 .. m PROVE d[l] = c[l]
    <3>1. CASE l <= n
      <4>1. l \in 1 .. n
        BY <3>1
      <4>2. d[l] = a[l]
        BY <2>2, <3>1
      <4> QED
        BY <1>2, <1>4, <4>1, <4>2
    <3>2. CASE ~(l <= n)
      <4>1. l - n \in 1 .. m - n /\ n + (l - n) = l
        BY <1>1, <3>2
      <4>2. s[i + (n + (l - n))] = s[j + (l - n)]
        BY <1>5, <4>1
      <4> QED
        BY <1>3, <1>4, <2>2, <3>2, <4>1, <4>2
    <3> QED
      BY <3>1, <3>2
  <2>4. d = c
    BY <1>4, <2>1, <2>2, <2>3, SeqEqual
  <2> QED
    BY <2>4 DEF d
<1>7. SubSeq(c, 1, n) = a
  <2> DEFINE d == SubSeq(c, 1, n)
  <2>1. d \in Seq(Byte) /\ Len(d) = n - 1 + 1 /\ \A l \in 1 .. n - 1 + 1 : d[l] = c[1 + l - 1]
    BY <1>1, <1>4, SubSeqIs
  <2> HIDE DEF d
  <2>2. Len(d) = n
    BY <1>1, <2>1
  <2>3. ASSUME NEW l \in 1 .. n PROVE d[l] = a[l]
    <3>1. l \in 1 .. n - 1 + 1 /\ l \in 1 .. m /\ 1 + l - 1 = l
      BY <1>1
    <3>2. d[l] = c[1 + l - 1]
      BY <2>1, <3>1
    <3> QED
      BY <1>2, <1>4, <3>1, <3>2
  <2>4. d = a
    BY <1>2, <2>1, <2>2, <2>3, SeqEqual
  <2> QED
    BY <2>4 DEF d
<1>8. SubSeq(c, n + 1, m) = b
  <2> DEFINE d == SubSeq(c, n + 1, m)
  <2>1. n + 1 \in Nat /\ 1 <= n + 1 /\ n + 1 <= m + 1 /\ m <= Len(c)
    BY <1>1, <1>4
  <2>2. /\ d \in Seq(Byte) /\ Len(d) = m - (n + 1) + 1
        /\ \A l \in 1 .. m - (n + 1) + 1 : d[l] = c[(n + 1) + l - 1]
    BY <1>1, <1>4, <2>1, SubSeqIs
  <2> HIDE DEF d
  <2>3. Len(d) = m - n
    BY <1>1, <2>2
  <2>4. ASSUME NEW l \in 1 .. m - n PROVE d[l] = b[l]
    <3>1. l \in 1 .. m - (n + 1) + 1 /\ n + l \in 1 .. m /\ (n + 1) + l - 1 = n + l
      BY <1>1
    <3>2. d[l] = c[(n + 1) + l - 1]
      BY <2>2, <3>1
    <3> QED
      BY <1>3, <1>4, <1>5, <3>1, <3>2
  <2>5. d = b
    BY <1>3, <2>2, <2>3, <2>4, SeqEqual
  <2> QED
    BY <2>5 DEF d
<1> QED
  BY <1>2, <1>3, <1>4, <1>6, <1>7, <1>8 DEF a, b, c, n, m

LEMMA StreamKeeps ==
  ASSUME StreamInv, UNCHANGED <<input, arrived, received, readerVars>>, stop => stop'
  PROVE  StreamInv'
  BY DEF StreamInv, Taken, readerVars

LEMMA NothingTaken ==
  /\ \A i \in Inputs : SubSeq(i.bytes, 1, 0) = <<>> /\ Len(i.bytes) \in Nat
  /\ Parsed(<<>>) = <<>> /\ Holds(<<>>, <<>>)
<1>1. \A i \in Inputs : SubSeq(i.bytes, 1, 0) = <<>> /\ Len(i.bytes) \in Nat
  BY InputIs, LenProperties, SubSeqEmpty
<1> DEFINE e == <<>>
<1>2. e \in Seq(Byte) /\ Len(e) = 0
  OBVIOUS
<1> HIDE DEF e
<1>3. \A j \in 1 .. Len(e) : e[j] # StartMarker
  BY <1>2
<1>4. Parsed(e) = <<>> /\ Closed(e)
  BY <1>2, <1>3, NoMarkerParsed
<1>5. Kept(e) = <<>>
  BY <1>2, <1>4, KeptIs
<1>6. e = <<>> /\ Len(<<>>) = 0 /\ 0 <= 2 * MaxFrameSize
  BY ConnectorAssumption DEF e
<1> QED
  BY <1>1, <1>4, <1>5, <1>6 DEF Holds

LEMMA ReceiveStream ==
  ASSUME ByteInv, StreamInv, Receive
  PROVE  StreamInv'
<1> DEFINE n == IF Len(received) < ReadSize THEN Len(received) ELSE ReadSize
           all == input.bytes
           chunk == SubSeq(received, 1, n)
           next == consumed + n
<1>1. /\ input \in Inputs /\ all \in Seq(Byte) /\ buffer \in Seq(Byte) /\ Len(all) \in Nat
      /\ arrived \in Nat
      /\ consumed \in Nat /\ consumed <= arrived /\ arrived <= Len(all) /\ Bounded(all)
      /\ frames = Parsed(Taken) /\ Holds(Taken, buffer) /\ ReadSize \in Nat
  BY InputIs, LenProperties, ConnectorAssumption DEF ByteInv, BytesType, StreamInv
<1>2. /\ received = SubSeq(all, consumed + 1, arrived)
      /\ received' = SubSeq(received, n + 1, Len(received)) /\ consumed' = next
      /\ frames' = frames \o Parsed(buffer \o chunk) /\ buffer' = Rest(buffer \o chunk)
      /\ UNCHANGED <<input, arrived>>
  BY DEF Receive, Parse, readerKeeps, StreamInv
<1> HIDE DEF all
<1>3. Len(received) = arrived - consumed
  BY <1>1, <1>2, CutIs
<1>4. n \in Nat /\ next \in Nat /\ consumed <= next /\ next <= arrived /\ next - consumed = n
  BY <1>1, <1>3
<1> HIDE DEF n, next
<1>5. /\ chunk = SubSeq(all, consumed + 1, next) /\ received' = SubSeq(all, next + 1, arrived)
      /\ chunk \in Seq(Byte)
  BY <1>1, <1>2, <1>3, <1>4, CutIs
<1> HIDE DEF chunk
<1> DEFINE done == SubSeq(all, 1, next)
           rest == SubSeq(all, next + 1, Len(all))
<1>6. /\ done = Taken \o chunk /\ Taken \in Seq(Byte) /\ done \in Seq(Byte)
      /\ all = done \o rest /\ rest \in Seq(Byte)
  <2> DEFINE z == 0
             last == Len(all)
  <2>1. /\ z \in Nat /\ last \in Nat /\ z <= consumed /\ z <= next /\ next <= last /\ last <= last
        /\ z + 1 = 1 /\ last <= Len(all)
    BY <1>1, <1>4
  <2>2. rest = SubSeq(all, next + 1, last)
    OBVIOUS
  <2> HIDE DEF z, last, rest
  <2>3. /\ SubSeq(all, z + 1, next) = SubSeq(all, z + 1, consumed) \o SubSeq(all, consumed + 1, next)
        /\ SubSeq(all, z + 1, consumed) \in Seq(Byte) /\ SubSeq(all, z + 1, next) \in Seq(Byte)
    BY <1>1, <1>4, <2>1, CutIs
  <2>4. SubSeq(all, z + 1, last) = SubSeq(all, z + 1, next) \o rest /\ rest \in Seq(Byte)
    BY <1>1, <1>4, <2>2, <2>1, CutIs
  <2>5. SubSeq(all, 1, last) = all
    BY <1>1, SubSeqFull DEF last
  <2>6. Taken = SubSeq(all, 1, consumed)
    BY DEF Taken, all
  <2> QED
    BY <1>5, <2>1, <2>3, <2>4, <2>5, <2>6
<1> HIDE DEF rest
<1>7. Taken' = Taken \o chunk /\ Bounded(Taken \o chunk)
  <2>1. Taken' = done
    BY <1>2 DEF Taken, all
  <2> HIDE DEF done
  <2>2. Bounded(done \o rest) /\ done \in Seq(Byte) /\ rest \in Seq(Byte)
    BY <1>1, <1>6
  <2>3. Bounded(done)
    BY <2>2, BoundedPrefix
  <2> QED
    BY <1>6, <2>1, <2>3
<1>8. Parsed(Taken \o chunk) = frames' /\ Holds(Taken \o chunk, buffer')
  <2> DEFINE bytes == buffer \o chunk
  <2>1. /\ Taken \in Seq(Byte) /\ chunk \in Seq(Byte) /\ buffer \in Seq(Byte)
        /\ Bounded(Taken \o chunk) /\ Holds(Taken, buffer)
    BY <1>1, <1>5, <1>6, <1>7
  <2>2. Parsed(Taken \o chunk) = Parsed(Taken) \o Parsed(bytes) /\ Holds(Taken \o chunk, Rest(bytes))
    BY <2>1, ReadsGoOn
  <2>3. frames' = Parsed(Taken) \o Parsed(bytes) /\ buffer' = Rest(bytes)
    BY <1>1, <1>2
  <2> HIDE DEF bytes
  <2> QED
    BY <2>2, <2>3
<1>9. /\ consumed' \in Nat /\ consumed' <= arrived' /\ arrived' <= Len(input'.bytes)
      /\ received' = SubSeq(input'.bytes, consumed' + 1, arrived')
  BY <1>1, <1>2, <1>4, <1>5 DEF all
<1>10. frames' = Parsed(Taken') /\ Holds(Taken', buffer')
  BY <1>7, <1>8
<1> QED
  BY <1>9, <1>10 DEF StreamInv

LEMMA DataStream ==
  ASSUME ByteInv, StreamInv, NEW n \in Chunks, DataArrives(n)
  PROVE  StreamInv'
<1> DEFINE all == input.bytes
           next == arrived + n
<1>1. /\ all \in Seq(Byte) /\ Len(all) \in Nat /\ arrived \in Nat /\ n \in Nat
      /\ consumed \in Nat /\ consumed <= arrived /\ n <= Len(all) - arrived
  BY InputIs, LenProperties, ConnectorAssumption DEF ByteInv, BytesType, StreamInv, DataArrives
<1>2. /\ UNCHANGED <<input, consumed, buffer, frames>> /\ arrived' = next
      /\ received = SubSeq(all, consumed + 1, arrived)
      /\ stop' \/ received' = received \o SubSeq(all, arrived + 1, arrived + n)
  BY DEF DataArrives, readerVars, StreamInv
<1> HIDE DEF all
<1>3. next \in Nat /\ arrived <= next /\ next <= Len(all) /\ consumed <= next
  BY <1>1
<1>4. ~stop' => received' = SubSeq(all, consumed + 1, next)
  <2>1. SubSeq(all, consumed + 1, next) = SubSeq(all, consumed + 1, arrived) \o SubSeq(all, arrived + 1, next)
    <3> HIDE DEF next
    <3> QED
      BY <1>1, <1>3, CutIs
  <2> QED
    BY <1>2, <2>1
<1> QED
  BY <1>1, <1>2, <1>3, <1>4 DEF StreamInv, Taken, all

LEMMA StreamNext ==
  ASSUME ConnectorInv, StreamInv, Next
  PROVE  StreamInv'
<1> USE DEF callerKeeps, ownerKeeps, readerKeeps, stateVars, Cancel
<1>1. CASE StartOwner
  <2>1. /\ input' \in Inputs /\ consumed' = 0 /\ arrived' = 0 /\ received' = <<>> /\ buffer' = <<>>
        /\ frames' = <<>>
    BY <1>1 DEF StartOwner, ConnectorInv, ByteInv, BytesType
  <2>2. SubSeq(input'.bytes, 1, 0) = <<>> /\ Len(input'.bytes) \in Nat
    BY <2>1, NothingTaken
  <2>3. consumed' \in Nat /\ consumed' <= arrived' /\ arrived' <= Len(input'.bytes) /\ consumed' + 1 = 1
    BY <2>1, <2>2
  <2>4. received' = SubSeq(input'.bytes, consumed' + 1, arrived') /\ Taken' = <<>>
    BY <2>1, <2>2, <2>3 DEF Taken
  <2> QED
    BY <2>1, <2>3, <2>4, NothingTaken DEF StreamInv
<1>2. CASE BeginConnect \/ OpenReturns \/ OpenFails \/ CallerWaits
  BY <1>2, StreamKeeps DEF BeginConnect, OpenReturns, OpenFails, CallerWaits
<1>3. CASE Send \/ SendReturns \/ SendFails \/ BeginDisconnect \/ Joined \/ CancelPending
  BY <1>3, StreamKeeps DEF Send, SendReturns, SendFails, BeginDisconnect, Joined, CancelPending
<1>4. CASE ReaderWaits
  BY <1>4, StreamKeeps DEF ReaderWaits
<1>5. CASE OwnerStep
  BY <1>5, StreamKeeps DEF OwnerStep, OwnerStarts, OwnerLeaves, OwnerFails, FinalCancel, CloseChannel, Opened,
                     GiveWrite
<1>6. CASE TakeWrite \/ OpenCompletes \/ HeadsetCloses \/ WriteCompletes
  BY <1>6, StreamKeeps DEF TakeWrite, OpenCompletes, HeadsetCloses, WriteCompletes
<1>7. ASSUME Receive \/ \E n \in Chunks : DataArrives(n) PROVE StreamInv'
  BY <1>7, ReceiveStream, DataStream DEF ConnectorInv
<1> QED
  BY <1>1, <1>2, <1>3, <1>4, <1>5, <1>6, <1>7 DEF Next, User, CallerStep, ReaderStep, Native

-----------------------------------------------------------------------------
(* Theorems.                                                               *)

\* For any input and sizes: the connector keeps at most MaxReceived bytes for
\* recv(), and the session's _streamBuffer stays below two frames and a read, also
\* when a frame never ends.
THEOREM BuffersAreBounded == Spec => []TypeOK
<1>1. ConnectorInv => TypeOK
  BY DEF ConnectorInv, SendInv, WriteType, ThreadsType, ByteInv, BytesType, BufferInv, TypeOK
<1> QED
  BY <1>1, AlwaysConnectorInv, PTL

\* send() returns when the native channel has taken the write, never before, and
\* the bytes of a write outlive a send that gave up on them (pendingWrite).
THEOREM SendsAreWritten == Spec => []SendIsWritten
<1>1. ConnectorInv => SendIsWritten
  BY DEF ConnectorInv, SendInv, WriteType, WriteInv, SendIsWritten
<1> QED
  BY <1>1, AlwaysConnectorInv, PTL

\* runConnection() opens a channel when the one of the last connection has been
\* closed, however connect(), disconnect() and cancel() fall between their steps.
THEOREM ChannelIsAlone == Spec => OneChannel
<1>1. ConnectorInv /\ [Next]_vars =>
        [owner = "starting" /\ owner' = "loop" => channel \in {"none", "closed"}]_vars
  BY DEF ConnectorInv, SendInv, ChannelInv
<1> QED
  BY <1>1, AlwaysConnectorInv, PTL DEF Spec, OneChannel

\* Whatever a headset sends (frames of any length up to MAX_FRAME_SIZE, any bytes
\* without a whole frame in them before, between and after), however the channel,
\* recv() and the overflow test cut it: the frames _parseStream() has handed on are
\* those of the bytes it was given, and with the last byte exactly the frames sent.
THEOREM FramesSurviveDelivery == Spec => []FramesSurvive
<1>1. Init => StreamInv
  <2> SUFFICES ASSUME Init PROVE StreamInv
    OBVIOUS
  <2>1. /\ input \in Inputs /\ consumed = 0 /\ arrived = 0 /\ received = <<>> /\ buffer = <<>>
        /\ frames = <<>>
    BY DEF Init
  <2>2. SubSeq(input.bytes, 1, 0) = <<>> /\ Len(input.bytes) \in Nat
    BY <2>1, NothingTaken
  <2>3. consumed \in Nat /\ consumed <= arrived /\ arrived <= Len(input.bytes) /\ consumed + 1 = 1
    BY <2>1, <2>2
  <2>4. received = SubSeq(input.bytes, consumed + 1, arrived) /\ Taken = <<>>
    BY <2>1, <2>2, <2>3 DEF Taken
  <2> QED
    BY <2>1, <2>3, <2>4, NothingTaken DEF StreamInv
<1>2. ConnectorInv /\ StreamInv /\ [Next]_vars => StreamInv'
  <2> SUFFICES ASSUME ConnectorInv, StreamInv, [Next]_vars PROVE StreamInv'
    OBVIOUS
  <2>1. CASE UNCHANGED vars
    BY <2>1, StreamKeeps DEF vars, readerVars
  <2> QED
    BY <2>1, StreamNext
<1>3. ConnectorInv /\ StreamInv => FramesSurvive
  <2> SUFFICES ASSUME ConnectorInv, StreamInv PROVE FramesSurvive
    OBVIOUS
  <2>1. input.bytes \in Seq(Byte) /\ Parsed(input.bytes) = input.intact
    BY InputIs DEF ConnectorInv, ByteInv, BytesType
  <2>2. frames = Parsed(SubSeq(input.bytes, 1, consumed))
    BY DEF StreamInv, Taken
  <2>3. SubSeq(input.bytes, 1, Len(input.bytes)) = input.bytes
    BY <2>1, SubSeqFull
  <2> QED
    BY <2>1, <2>2, <2>3 DEF FramesSurvive
<1> QED
  BY <1>1, <1>2, <1>3, AlwaysConnectorInv, PTL DEF Spec
=============================================================================
