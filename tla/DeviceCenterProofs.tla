--------------------------- MODULE DeviceCenterProofs ---------------------------
(***************************************************************************)
(* What the desktop application shows is the outcome of the user's last    *)
(* action, no notification is lost and no listener outlives the backend    *)
(* (OutcomeIsOwn, NotificationIsPublished and CallbackIsSafe of            *)
(* DeviceCenter), for any number of actions, changes and faults.           *)
(*                                                                         *)
(* The argument: the generations of the commands that are still to come    *)
(* grow and are above the worker's, so a signal of the GUI's generation    *)
(* means that the worker has reached the last action.  While it performs   *)
(* one, the GUI's queue holds nothing of that generation; when it is done  *)
(* the snapshot or the error is ahead of the completion.                   *)
(***************************************************************************)
EXTENDS DeviceCenter, SequenceTheorems, TLAPS

Kinds == {"none", "start", "command", "poll", "notify", "discover", "shutdown"}
Steps == {"idle", "begin", "publish", "discover", "enter", "native", "cancelled", "subscribe",
          "disconnect"}
Events == [kind : Kinds, gen : Nat]
Signals == [kind : {"snapshot", "error", "completed"}, gen : Nat, version : Nat]

CenterType ==
  /\ gui \in {"running", "stopping", "waiting", "gone"}
  /\ generation \in Nat /\ busy \in BOOLEAN /\ lastError \in Nat /\ shown \in Nat
  /\ inbox \in Seq(Signals) /\ posted \in Seq(Events)
  /\ event \in Events /\ step \in Steps /\ reply \in Nat /\ seen \in Nat
  /\ reader \in {"idle", "updated", "calling", "posting"}
  /\ truth \in Nat /\ announced \in Nat /\ published \in Nat

\* Where the worker can be with each event.
AtWork ==
  /\ step = "idle" <=> event.kind = "none"
  /\ event.kind = "start" => step \in {"begin", "publish", "discover"}
  /\ event.kind = "discover" => step = "begin"
  /\ event.kind = "command" => step \in {"begin", "enter", "native", "cancelled", "subscribe"}
  /\ event.kind = "poll" => step \in {"enter", "native", "cancelled", "publish"}
  /\ event.kind = "notify" => step \in {"begin", "publish"}
  /\ event.kind = "shutdown" => step \in {"begin", "disconnect"}
  /\ \A i \in 1 .. Len(posted) : posted[i].kind \notin {"none", "poll"}

\* Once the listener is gone nobody wakes the reader again.
CallInv ==
  /\ gui = "gone" => stopped /\ step = "idle"
  /\ stopped /\ step # "disconnect" => reader = "idle"

BaseInv == CenterType /\ AtWork /\ CallInv

\* The commands still to come: in order, above the worker's generation and not
\* above the GUI's, which rests only when there are none.
IsCommand(i) == posted[i].kind = "command"
ToCome(i) ==
  IsCommand(i) => /\ seen < posted[i].gen /\ posted[i].gen <= generation
                  /\ event.kind = "command" => event.gen < posted[i].gen
                  /\ \A j \in 1 .. i - 1 : IsCommand(j) => posted[j].gen < posted[i].gen
CommandInv ==
  /\ seen <= generation
  /\ \A i \in 1 .. Len(posted) : ToCome(i)
  /\ event.kind = "command" =>
       /\ event.gen <= generation
       /\ IF step = "begin" THEN seen < event.gen ELSE seen = event.gen /\ 0 < seen
  /\ ~busy => seen = generation /\ event.kind # "command"

\* start() is the first event and there is no other.
StartInv ==
  /\ event.kind = "start" => seen = 0
  /\ \A i \in 1 .. Len(posted) : posted[i].kind = "start" => i = 1 /\ seen = 0 /\ step = "idle"

\* What the GUI will show once it has read what is posted to it: the error, or
\* the snapshot, is read before the completion.
Current(i, kind) == inbox[i].kind = kind /\ inbox[i].gen = generation
Ahead(i, kind) == \E j \in 1 .. i - 1 : Current(j, kind)
Warned(i) == lastError = generation + 1 \/ Ahead(i, "error")
Read(i) ==
  /\ inbox[i].gen <= seen
  /\ event.kind = "command" /\ step # "begin" => inbox[i].gen < seen
  /\ Current(i, "snapshot") => inbox[i].version >= reply \/ Warned(i)
  /\ Current(i, "completed") => shown >= reply \/ Warned(i) \/ Ahead(i, "snapshot")
DisplayInv ==
  /\ \A i \in 1 .. Len(inbox) : Read(i)
  /\ ~busy => lastError = generation + 1 \/ shown >= reply
  /\ lastError \in {Nothing, generation + 1}
  /\ generation = 0 => reply = 0
  /\ reply <= truth

\* A notification under way: the flag is up while its event is to come.
NotifyToCome == \E i \in 1 .. Len(posted) : posted[i] = Event("notify", 0)
StartToCome == event.kind = "start" \/ \E i \in 1 .. Len(posted) : posted[i].kind = "start"
NoticeInv ==
  /\ published <= truth /\ announced <= truth
  /\ step = "subscribe" => published <= reply
  /\ StartToCome => ~timer /\ ~subscribed
  /\ usingIpc => ~subscribed
  /\ StartToCome \/ usingIpc => announced = 0 /\ reader \in {"idle", "updated"}
  /\ pending => \/ gui = "gone" \/ reader = "posting" \/ NotifyToCome
                \/ event.kind = "notify" /\ step = "begin"
  /\ \/ announced <= published \/ stopped \/ gui = "gone" \/ reader = "posting" \/ NotifyToCome
     \/ event.kind = "notify"
     \/ event.kind = "poll" /\ step = "publish"

----------------------------------------------------------------------------
(* The two queues.                                                         *)

LEMMA TailIs ==
  ASSUME NEW S, NEW s \in Seq(S), s # <<>>
  PROVE  /\ Tail(s) \in Seq(S) /\ Head(s) \in S /\ Len(s) \in Nat \ {0}
         /\ Len(Tail(s)) = Len(s) - 1 /\ Head(s) = s[1]
         /\ \A i \in 1 .. Len(Tail(s)) : Tail(s)[i] = s[i + 1]
  BY HeadTailProperties, EmptySeq

LEMMA AppendIs ==
  ASSUME NEW S, NEW s \in Seq(S), NEW e \in S
  PROVE  /\ Append(s, e) \in Seq(S) /\ Len(s) \in Nat /\ Len(Append(s, e)) = Len(s) + 1
         /\ \A i \in 1 .. Len(Append(s, e)) : Append(s, e)[i] = IF i = Len(s) + 1 THEN e ELSE s[i]
  BY AppendProperties

LEMMA EmitIs ==
  ASSUME inbox \in Seq(Signals), NEW signals \in Seq(Signals), Emit(signals)
  PROVE  /\ inbox' \in Seq(Signals) /\ Len(inbox) \in Nat /\ Len(signals) \in Nat
         /\ gui # "running" => Len(inbox') = 0
         /\ gui = "running" =>
              /\ Len(inbox') = Len(inbox) + Len(signals)
              /\ \A i \in 1 .. Len(inbox') :
                   inbox'[i] = IF i <= Len(inbox) THEN inbox[i] ELSE signals[i - Len(inbox)]
<1>1. CASE gui = "running"
  BY <1>1, ConcatProperties DEF Emit
<1>2. CASE gui # "running"
  BY <1>2, EmptySeq, LenProperties DEF Emit
<1> QED
  BY <1>1, <1>2

LEMMA SignalsAre ==
  ASSUME seen \in Nat, NEW v \in Nat
  PROVE  /\ Snapshot(v) \in Signals /\ Error \in Signals /\ Completed \in Signals
         /\ Snapshot(v).gen = seen /\ Error.gen = seen /\ Completed.gen = seen
         /\ Snapshot(v).kind = "snapshot" /\ Error.kind = "error" /\ Completed.kind = "completed"
         /\ Snapshot(v).version = v
  BY DEF Snapshot, Error, Completed, Signals, Nothing

LEMMA JoinIs ==
  ASSUME NEW S, NEW e \in S, NEW f \in S
  PROVE  <<e>> \o <<>> = <<e>> /\ <<e>> \o <<f>> = <<e, f>>
<1>1. <<e>> \in Seq(S) /\ <<f>> \in Seq(S) /\ <<e, f>> \in Seq(S)
  OBVIOUS
<1>2. <<e>> \o <<>> = <<e>>
  BY <1>1, ConcatEmptySeq
<1>3. <<e, f>> = Append(<<e>>, f)
  OBVIOUS
<1>4. <<e>> \o <<f>> = Append(<<e>>, f)
  BY <1>1, AppendIsConcat
<1> QED
  BY <1>2, <1>3, <1>4

LEMMA PostIs ==
  ASSUME posted \in Seq(Events), NEW kind \in Kinds, NEW gen \in Nat, Post(kind, gen)
  PROVE  /\ posted' \in Seq(Events) /\ Len(posted) \in Nat /\ Len(posted') = Len(posted) + 1
         /\ Event(kind, gen) \in Events /\ Event(kind, gen).kind = kind /\ Event(kind, gen).gen = gen
         /\ \A i \in 1 .. Len(posted') :
              posted'[i] = IF i = Len(posted) + 1 THEN Event(kind, gen) ELSE posted[i]
<1>1. Event(kind, gen) \in Events /\ Event(kind, gen).kind = kind /\ Event(kind, gen).gen = gen
  BY DEF Event, Events
<1> QED
  BY <1>1, AppendIs DEF Post

----------------------------------------------------------------------------
(* Types, the worker's place and the listener.                             *)

LEMMA BaseInit == Init => BaseInv
<1> SUFFICES ASSUME Init PROVE BaseInv
  OBVIOUS
<1>1. Event("start", 0) \in Events /\ NoEvent \in Events
  BY DEF Event, NoEvent, Events, Kinds
<1>2. inbox \in Seq(Signals) /\ posted \in Seq(Events)
  BY <1>1, EmptySeq DEF Init
<1>3. CenterType
  BY <1>1, <1>2 DEF Init, CenterType, Steps, Nothing
<1> QED
  BY <1>3 DEF BaseInv, Init, AtWork, CallInv, Event, NoEvent

\* The steps that leave the queues alone.
Quiet == \/ CancelAgain \/ TimerFires \/ BeginStart \/ BeginCommand \/ NativeBegins \/ CommandSucceeds
         \/ Ticked \/ (Notified /\ step = "begin") \/ BeginShutdown \/ Disconnect
         \/ Dispatch \/ Called \/ Changes \/ DaemonChanges \/ UNCHANGED vars

LEMMA BaseQuiet ==
  ASSUME BaseInv, Quiet, UNCHANGED <<inbox, posted>>
  PROVE  BaseInv'
<1> USE DEF guiVars, workVars, worldVars, workerKeeps, readerKeeps, Goto, Done
<1>1. CASE CancelAgain
  BY <1>1 DEF BaseInv, CenterType, AtWork, CallInv, CancelAgain, CancelPending, Cancelled, Steps
<1>2. CASE TimerFires
  <2>1. Event("poll", seen) \in Events /\ Event("poll", seen).kind = "poll"
    BY DEF Event, Events, Kinds, BaseInv, CenterType
  <2> QED
    BY <1>2, <2>1 DEF BaseInv, CenterType, AtWork, CallInv, TimerFires, Steps
<1>3. NoEvent \in Events /\ NoEvent.kind = "none"
  BY DEF NoEvent, Events, Kinds
<1>4. CASE BeginStart \/ NativeBegins \/ Ticked
  <2>1. CASE BeginStart
    BY <2>1 DEF BaseInv, CenterType, AtWork, CallInv, BeginStart, Steps
  <2>2. CASE NativeBegins
    BY <2>2 DEF BaseInv, CenterType, AtWork, CallInv, NativeBegins, Steps
  <2>3. CASE Ticked
    BY <2>3 DEF BaseInv, CenterType, AtWork, CallInv, Ticked, Steps
  <2> QED
    BY <1>4, <2>1, <2>2, <2>3
<1>5. CASE BeginCommand
  <2>1. event.gen \in Nat
    BY DEF BaseInv, CenterType, Events
  <2> QED
    BY <1>3, <1>5, <2>1 DEF BaseInv, CenterType, AtWork, CallInv, BeginCommand, Steps
<1>6. CASE CommandSucceeds
  BY <1>6 DEF BaseInv, CenterType, AtWork, CallInv, CommandSucceeds, Steps
<1>7. CASE BeginShutdown \/ Disconnect
  BY <1>3, <1>7 DEF BaseInv, CenterType, AtWork, CallInv, BeginShutdown, Disconnect, Steps
<1>8. CASE Dispatch \/ Called \/ DaemonChanges
  <2>1. CASE Dispatch
    BY <2>1 DEF BaseInv, CenterType, AtWork, CallInv, Dispatch
  <2>2. CASE Called
    BY <2>2 DEF BaseInv, CenterType, AtWork, CallInv, Called
  <2>3. CASE DaemonChanges
    BY <2>3 DEF BaseInv, CenterType, AtWork, CallInv, DaemonChanges
  <2> QED
    BY <1>8, <2>1, <2>2, <2>3
<1>9. CASE Changes
  BY <1>9 DEF BaseInv, CenterType, AtWork, CallInv, Changes
<1>10. CASE UNCHANGED vars
  BY <1>10 DEF BaseInv, CenterType, AtWork, CallInv, vars
<1>11. CASE Notified /\ step = "begin"
  BY <1>3, <1>11 DEF BaseInv, CenterType, AtWork, CallInv, Notified, Steps
<1> QED
  BY <1>1, <1>2, <1>4, <1>5, <1>6, <1>7, <1>8, <1>9, <1>10, <1>11 DEF Quiet

\* The steps that post something to the GUI, and what: signals of the worker's
\* generation, an error or a fresh snapshot ahead of a completion.
Emitting == \/ Started \/ Discover \/ CommandFails \/ CommandReplies \/ PollPublishes
            \/ Notified /\ step = "publish"
Told(signals) ==
  \A k \in 1 .. Len(signals) :
    /\ signals[k].gen = seen
    /\ signals[k].kind = "snapshot" =>
         signals[k].version >= reply \/ \E j \in 1 .. k - 1 : signals[j].kind = "error"
    /\ signals[k].kind = "completed" =>
         \/ generation = seen => shown >= reply
         \/ \E j \in 1 .. k - 1 : signals[j].kind \in {"error", "snapshot"}

Inv == BaseInv /\ CommandInv /\ StartInv /\ DisplayInv /\ NoticeInv

LEMMA Lists ==
  ASSUME Inv, NEW v \in Nat, v >= reply
  PROVE  /\ <<>> \in Seq(Signals) /\ Told(<<>>)
         /\ <<Snapshot(v)>> \in Seq(Signals) /\ Told(<<Snapshot(v)>>)
         /\ <<Snapshot(v), Completed>> \in Seq(Signals) /\ Told(<<Snapshot(v), Completed>>)
         /\ <<Error>> \in Seq(Signals) /\ Told(<<Error>>)
         /\ <<Error, Completed>> \in Seq(Signals) /\ Told(<<Error, Completed>>)
         /\ <<Error, Snapshot(Nothing)>> \in Seq(Signals) /\ Told(<<Error, Snapshot(Nothing)>>)
         /\ <<Completed>> \in Seq(Signals)
         /\ event.kind = "start" => Told(<<Completed>>)
<1> DEFINE S == Snapshot(v)  E == Error  C == Completed  N == Snapshot(Nothing)
<1>1. S \in Signals /\ E \in Signals /\ C \in Signals /\ N \in Signals
  BY SignalsAre DEF Inv, BaseInv, CenterType, Nothing
<1>2. /\ S.gen = seen /\ E.gen = seen /\ C.gen = seen /\ N.gen = seen
      /\ S.kind = "snapshot" /\ E.kind = "error" /\ C.kind = "completed" /\ N.kind = "snapshot"
      /\ S.version = v
  BY SignalsAre DEF Inv, BaseInv, CenterType, Nothing
<1>3. ASSUME event.kind = "start", generation = seen PROVE shown >= reply
  BY <1>3 DEF Inv, BaseInv, CenterType, StartInv, DisplayInv
<1> HIDE DEF S, E, C, N
<1>4. <<>> \in Seq(Signals) /\ Told(<<>>)
  BY EmptySeq DEF Told
<1>5. <<S>> \in Seq(Signals) /\ Told(<<S>>)
  BY <1>1, <1>2 DEF Told
<1>6. <<S, C>> \in Seq(Signals) /\ Told(<<S, C>>)
  BY <1>1, <1>2 DEF Told
<1>7. <<E>> \in Seq(Signals) /\ Told(<<E>>)
  BY <1>1, <1>2 DEF Told
<1>8. <<E, C>> \in Seq(Signals) /\ Told(<<E, C>>)
  BY <1>1, <1>2 DEF Told
<1>9. <<E, N>> \in Seq(Signals) /\ Told(<<E, N>>)
  BY <1>1, <1>2 DEF Told
<1>10. <<C>> \in Seq(Signals) /\ (event.kind = "start" => Told(<<C>>))
  BY <1>1, <1>2, <1>3 DEF Told
<1> QED
  BY <1>4, <1>5, <1>6, <1>7, <1>8, <1>9, <1>10 DEF S, E, C, N

LEMMA Emits ==
  ASSUME Inv, Emitting
  PROVE  \E signals \in Seq(Signals) : Told(signals) /\ Emit(signals)
<1>1. truth \in Nat /\ reply \in Nat /\ truth >= reply /\ reply >= reply
  BY DEF Inv, BaseInv, CenterType, DisplayInv
<1>2. Snapshot(truth) \in Signals /\ Error \in Signals /\ Completed \in Signals
  BY <1>1, SignalsAre DEF Inv, BaseInv, CenterType
<1>3. ASSUME Publish(<<>>) PROVE Emit(<<Snapshot(truth)>>)
  BY <1>2, <1>3, JoinIs DEF Publish
<1>4. CASE Started
  BY <1>1, <1>3, <1>4, Lists DEF Started
<1>5. CASE Discover
  <2>1. <<Error>> \o <<>> = <<Error>> /\ <<Error>> \o <<Completed>> = <<Error, Completed>>
    BY <1>2, JoinIs
  <2>2. CASE event.kind = "start"
    BY <1>1, <1>5, <2>1, <2>2, Lists DEF Discover
  <2>3. CASE event.kind # "start"
    BY <1>1, <1>5, <2>1, <2>3, Lists DEF Discover
  <2> QED
    BY <2>2, <2>3
<1>6. CASE CommandFails
  BY <1>1, <1>6, Lists DEF CommandFails
<1>7. CASE CommandReplies
  BY <1>1, <1>7, Lists DEF CommandReplies
<1>8. CASE PollPublishes
  BY <1>1, <1>3, <1>8, Lists DEF PollPublishes
<1>9. CASE Notified /\ step = "publish"
  BY <1>1, <1>3, <1>9, Lists DEF Notified
<1> QED
  BY <1>4, <1>5, <1>6, <1>7, <1>8, <1>9 DEF Emitting

\* What the emitting steps change besides.
EmitRest ==
  /\ UNCHANGED <<guiVars, posted, reply, seen, stopRequested, stopped, usingIpc, pending, worldVars>>
  /\ \/ event' = NoEvent /\ step' = "idle"
     \/ event.kind = "start" /\ event' = event /\ step' = "discover"

LEMMA EmittingRest ==
  ASSUME BaseInv, Emitting
  PROVE  EmitRest /\ step \in {"begin", "publish", "discover", "native", "cancelled", "subscribe"}
<1> USE DEF workerKeeps, guiVars, worldVars, Goto, Done, EmitRest
<1>1. CASE Started \/ Discover
  BY <1>1 DEF Started, Discover
<1>2. CASE CommandFails \/ CommandReplies
  BY <1>2 DEF CommandFails, CommandReplies
<1>3. CASE PollPublishes \/ (Notified /\ step = "publish")
  BY <1>3 DEF PollPublishes, Notified
<1> QED
  BY <1>1, <1>2, <1>3 DEF Emitting

LEMMA BaseEmit ==
  ASSUME Inv, Emitting
  PROVE  BaseInv'
<1>1. inbox' \in Seq(Signals)
  BY Emits, EmitIs DEF Inv, BaseInv, CenterType
<1>2. EmitRest /\ step \in {"begin", "publish", "discover", "native", "cancelled", "subscribe"}
  BY EmittingRest DEF Inv
<1>3. NoEvent \in Events /\ NoEvent.kind = "none"
  BY DEF NoEvent, Events, Kinds
<1>4. published' \in Nat
  <2> USE DEF Inv, BaseInv, CenterType, Publish
  <2>1. CASE Started \/ Discover \/ CommandFails
    BY <2>1 DEF Started, Discover, CommandFails
  <2>2. CASE CommandReplies \/ PollPublishes
    BY <2>2 DEF CommandReplies, PollPublishes
  <2>3. CASE Notified /\ step = "publish"
    BY <2>3 DEF Notified
  <2> QED
    BY <2>1, <2>2, <2>3 DEF Emitting
<1>5. CenterType'
  BY <1>1, <1>2, <1>3, <1>4 DEF Inv, BaseInv, CenterType, EmitRest, guiVars, worldVars, Steps
<1>6. AtWork' /\ CallInv'
  BY <1>2, <1>3 DEF Inv, BaseInv, AtWork, CallInv, EmitRest, guiVars, worldVars
<1> QED
  BY <1>5, <1>6 DEF BaseInv

\* The steps that post to the worker or take from a queue.
Posting == \/ \E method \in {"set", "disconnect"} : Act(method)
           \/ RefreshDiscovered \/ PostShutdown \/ PostNotification

LEMMA BaseAct ==
  ASSUME BaseInv, Posting
  PROVE  BaseInv'
<1> USE DEF guiVars, workVars, worldVars, readerKeeps
<1>1. CASE \E method \in {"set", "disconnect"} : Act(method)
  <2>1. PICK method : Act(method)
    BY <1>1
  <2>2. generation' \in Nat /\ Post("command", generation') /\ "command" \in Kinds
    BY <2>1 DEF Act, BaseInv, CenterType, Kinds
  <2>3. posted' \in Seq(Events) /\ \A i \in 1 .. Len(posted') : posted'[i].kind \notin {"none", "poll"}
    BY <2>2, PostIs DEF BaseInv, CenterType, AtWork
  <2> QED
    BY <2>1, <2>2, <2>3 DEF Act, CancelPending, Cancelled, BaseInv, CenterType, AtWork, CallInv, Steps, Nothing
<1>2. ASSUME NEW kind \in {"discover", "shutdown", "notify"}, Post(kind, 0)
      PROVE  posted' \in Seq(Events) /\ \A i \in 1 .. Len(posted') : posted'[i].kind \notin {"none", "poll"}
  <2>1. kind \in Kinds /\ kind \notin {"none", "poll"}
    BY DEF Kinds
  <2> QED
    BY <1>2, <2>1, PostIs DEF BaseInv, CenterType, AtWork
<1>3. CASE RefreshDiscovered
  BY <1>2, <1>3 DEF RefreshDiscovered, BaseInv, CenterType, AtWork, CallInv
<1>4. CASE PostShutdown
  BY <1>2, <1>4 DEF PostShutdown, BaseInv, CenterType, AtWork, CallInv
<1>5. CASE PostNotification
  BY <1>2, <1>5 DEF PostNotification, BaseInv, CenterType, AtWork, CallInv
<1> QED
  BY <1>1, <1>3, <1>4, <1>5 DEF Posting

LEMMA ReceiveIs ==
  ASSUME BaseInv, Receive
  PROVE  /\ inbox' \in Seq(Signals) /\ Len(inbox) \in Nat \ {0} /\ Len(inbox') = Len(inbox) - 1
         /\ \A i \in 1 .. Len(inbox') : inbox'[i] = inbox[i + 1]
         /\ inbox[1] \in Signals
         /\ shown' = IF Current(1, "snapshot") THEN inbox[1].version ELSE shown
         /\ lastError' = IF Current(1, "error") THEN inbox[1].gen + 1 ELSE lastError
         /\ busy' = IF Current(1, "completed") THEN FALSE ELSE busy
<1>1. /\ Tail(inbox) \in Seq(Signals) /\ Head(inbox) \in Signals /\ Head(inbox) = inbox[1]
      /\ Len(inbox) \in Nat \ {0} /\ Len(Tail(inbox)) = Len(inbox) - 1
      /\ \A i \in 1 .. Len(Tail(inbox)) : Tail(inbox)[i] = inbox[i + 1]
  BY TailIs DEF Receive, BaseInv, CenterType
<1>2. inbox' = Tail(inbox)
  BY DEF Receive
<1>3. /\ shown' = IF Current(1, "snapshot") THEN inbox[1].version ELSE shown
      /\ lastError' = IF Current(1, "error") THEN inbox[1].gen + 1 ELSE lastError
      /\ busy' = IF Current(1, "completed") THEN FALSE ELSE busy
  BY <1>1 DEF Receive, IsCurrent, Current
<1> QED
  BY <1>1, <1>2, <1>3

LEMMA BaseTake ==
  ASSUME BaseInv, Receive \/ RequestStop \/ Joined \/ TakeEvent
  PROVE  BaseInv'
<1> USE DEF guiVars, workVars, worldVars, workerKeeps
<1>1. CASE Receive
  <2>1. inbox[1].gen \in Nat /\ inbox[1].version \in Nat
    BY <1>1, ReceiveIs DEF Signals
  <2>2. inbox' \in Seq(Signals) /\ shown' \in Nat /\ lastError' \in Nat /\ busy' \in BOOLEAN
    <3>1. inbox' \in Seq(Signals) /\ shown \in Nat /\ lastError \in Nat
      BY <1>1, ReceiveIs DEF BaseInv, CenterType
    <3>2. shown' \in Nat
      BY <1>1, <2>1, <3>1, ReceiveIs
    <3>3. lastError' \in Nat
      BY <1>1, <2>1, <3>1, ReceiveIs
    <3>4. busy' \in BOOLEAN
      BY <1>1, ReceiveIs DEF BaseInv, CenterType
    <3> QED
      BY <3>1, <3>2, <3>3, <3>4
  <2> QED
    BY <1>1, <2>2 DEF Receive, BaseInv, CenterType, AtWork, CallInv
<1>2. CASE RequestStop
  BY <1>2, EmptySeq DEF RequestStop, CancelPending, Cancelled, BaseInv, CenterType, AtWork, CallInv, Steps
<1>3. CASE Joined
  BY <1>3, EmptySeq DEF Joined, BaseInv, CenterType, AtWork, CallInv
<1>4. CASE TakeEvent
  <2>1. /\ posted' \in Seq(Events) /\ event' \in Events /\ event' = posted[1]
        /\ \A i \in 1 .. Len(posted') : posted'[i] = posted[i + 1]
        /\ Len(posted) \in Nat \ {0} /\ Len(posted') = Len(posted) - 1
    BY <1>4, TailIs DEF TakeEvent, BaseInv, CenterType
  <2>2. event'.kind \notin {"none", "poll"} /\ \A i \in 1 .. Len(posted') : posted'[i].kind \notin {"none", "poll"}
    BY <2>1 DEF BaseInv, AtWork
  <2>3. event'.kind \in Kinds
    BY <2>1 DEF Events
  <2> QED
    BY <1>4, <2>1, <2>2, <2>3 DEF TakeEvent, Goto, BaseInv, CenterType, AtWork, CallInv, Steps, Kinds
<1> QED
  BY <1>1, <1>2, <1>3, <1>4

\* Every step is of one of these kinds.
LEMMA StepKinds ==
  ASSUME [Next]_vars
  PROVE  \/ Posting \/ Emitting \/ Receive \/ RequestStop \/ Joined \/ TakeEvent
         \/ Quiet /\ UNCHANGED <<inbox, posted>>
<1> USE DEF guiVars, workVars, worldVars, workerKeeps, readerKeeps
<1>1. Notified => step \in {"begin", "publish"}
  BY DEF Notified
<1>2. CancelAgain \/ TimerFires \/ BeginStart \/ BeginCommand \/ NativeBegins \/ CommandSucceeds \/ Ticked
        => UNCHANGED <<inbox, posted>>
  BY DEF CancelAgain, TimerFires, BeginStart, BeginCommand, NativeBegins, CommandSucceeds, Ticked
<1>3. BeginShutdown \/ Disconnect \/ Dispatch \/ Called \/ Changes \/ DaemonChanges \/ UNCHANGED vars
        => UNCHANGED <<inbox, posted>>
  BY DEF BeginShutdown, Disconnect, Dispatch, Called, Changes, DaemonChanges, vars
<1>4. Notified /\ step = "begin" => UNCHANGED <<inbox, posted>>
  BY DEF Notified
<1> QED
  BY <1>1, <1>2, <1>3, <1>4
  DEF Next, User, Gui, Request, Worker, Reader, Posting, Emitting, Quiet

----------------------------------------------------------------------------
(* Generations: the commands still to come, and start().                   *)

LEMMA PostedType ==
  ASSUME posted \in Seq(Events), NEW i \in 1 .. Len(posted)
  PROVE  posted[i] \in Events /\ posted[i].gen \in Nat /\ posted[i].kind \in Kinds
<1>1. posted[i] \in Events
  BY ElementOfSeq
<1> QED
  BY <1>1 DEF Events

LEMMA CommandPosting ==
  ASSUME Inv, Posting
  PROVE  CommandInv' /\ StartInv'
<1> USE DEF guiVars, workVars, worldVars, readerKeeps
<1>1. /\ seen \in Nat /\ generation \in Nat /\ posted \in Seq(Events) /\ event.gen \in Nat
      /\ CommandInv /\ StartInv
  BY DEF Inv, BaseInv, CenterType, Events
<1>2. CASE \E method \in {"set", "disconnect"} : Act(method)
  <2>1. PICK method : Act(method)
    BY <1>2
  <2>2. generation' = generation + 1 /\ Post("command", generation') /\ "command" \in Kinds
    BY <2>1 DEF Act, Kinds
  <2>3. /\ Len(posted) \in Nat /\ Len(posted') = Len(posted) + 1
        /\ \A i \in 1 .. Len(posted) : posted'[i] = posted[i]
        /\ posted'[Len(posted) + 1].kind = "command" /\ posted'[Len(posted) + 1].gen = generation + 1
    BY <1>1, <2>2, PostIs
  <2>4. /\ busy' /\ UNCHANGED <<event, seen>>
        /\ step' = step \/ (step = "native" /\ step' = "cancelled")
    BY <2>1 DEF Act, CancelPending, Cancelled
  <2>5. /\ event.kind = "command" => event.gen <= generation
        /\ \A i \in 1 .. Len(posted) : IsCommand(i) => posted[i].gen <= generation
    BY <1>1 DEF CommandInv, ToCome
  <2>6. ASSUME NEW i \in 1 .. Len(posted) PROVE ToCome(i)'
    <3>1. ToCome(i) /\ posted[i].gen \in Nat
      BY <1>1, <2>3, PostedType DEF CommandInv
    <3>2. \A j \in 1 .. i - 1 : posted'[j] = posted[j]
      BY <2>3
    <3> QED
      BY <1>1, <2>2, <2>3, <2>4, <3>1, <3>2 DEF ToCome, IsCommand
  <2>7. ASSUME NEW i \in {Len(posted) + 1} PROVE ToCome(i)'
    <3>1. ASSUME NEW j \in 1 .. i - 1, IsCommand(j)' PROVE posted'[j].gen < posted'[i].gen
      <4>1. j \in 1 .. Len(posted) /\ posted'[j] = posted[j]
        BY <2>3
      <4>2. posted[j].gen \in Nat /\ posted[j].gen <= generation
        BY <1>1, <2>5, <3>1, <4>1, PostedType DEF IsCommand
      <4> QED
        BY <1>1, <2>3, <4>1, <4>2
    <3>2. seen < posted'[i].gen /\ posted'[i].gen <= generation'
      BY <1>1, <2>2, <2>3 DEF CommandInv
    <3>3. event.kind = "command" => event.gen < posted'[i].gen
      BY <1>1, <2>3, <2>5
    <3> QED
      BY <2>4, <3>1, <3>2, <3>3 DEF ToCome
  <2>8. \A i \in 1 .. Len(posted') : ToCome(i)'
    BY <2>3, <2>6, <2>7
  <2>9. CommandInv'
    BY <1>1, <2>2, <2>4, <2>8 DEF CommandInv
  <2>10. StartInv'
    BY <1>1, <2>3, <2>4 DEF StartInv
  <2> QED
    BY <2>9, <2>10
<1>3. ASSUME NEW kind \in {"discover", "shutdown", "notify"}, Post(kind, 0),
             UNCHANGED <<generation, busy, event, seen, step>>
      PROVE  CommandInv' /\ StartInv'
  <2>1. kind \in Kinds /\ kind \notin {"command", "start"}
    BY DEF Kinds
  <2>2. /\ Len(posted) \in Nat /\ Len(posted') = Len(posted) + 1
        /\ \A i \in 1 .. Len(posted) : posted'[i] = posted[i]
        /\ posted'[Len(posted) + 1].kind = kind
    BY <1>1, <1>3, <2>1, PostIs
  <2>3. ASSUME NEW i \in 1 .. Len(posted) PROVE ToCome(i)'
    <3>1. \A j \in 1 .. i - 1 : posted'[j] = posted[j]
      BY <2>2
    <3> QED
      BY <1>1, <1>3, <2>2, <3>1 DEF ToCome, IsCommand, CommandInv
  <2>4. ASSUME NEW i \in {Len(posted) + 1} PROVE ToCome(i)'
    BY <2>1, <2>2 DEF ToCome, IsCommand
  <2>5. \A i \in 1 .. Len(posted') : ToCome(i)'
    BY <2>2, <2>3, <2>4
  <2> QED
    BY <1>1, <1>3, <2>1, <2>2, <2>5 DEF CommandInv, StartInv
<1>4. CASE RefreshDiscovered
  BY <1>3, <1>4 DEF RefreshDiscovered
<1>5. CASE PostShutdown
  BY <1>3, <1>5 DEF PostShutdown
<1>6. CASE PostNotification
  BY <1>3, <1>6 DEF PostNotification
<1> QED
  BY <1>2, <1>4, <1>5, <1>6 DEF Posting

LEMMA CommandEmitting ==
  ASSUME Inv, Emitting
  PROVE  CommandInv' /\ StartInv'
<1>1. EmitRest
  BY EmittingRest DEF Inv
<1>2. NoEvent.kind = "none"
  BY DEF NoEvent
<1>3. ASSUME NEW i \in 1 .. Len(posted') PROVE ToCome(i)'
  BY <1>1, <1>2 DEF Inv, CommandInv, ToCome, IsCommand, EmitRest, guiVars
<1>4. step # "idle"
  BY EmittingRest DEF Inv
<1> QED
  BY <1>1, <1>2, <1>3, <1>4 DEF Inv, CommandInv, StartInv, EmitRest, guiVars

LEMMA CommandTake ==
  ASSUME Inv, TakeEvent
  PROVE  CommandInv' /\ StartInv'
<1> USE DEF guiVars, workerKeeps
<1>1. /\ Len(posted) \in Nat \ {0} /\ Len(posted') = Len(posted) - 1 /\ event' = posted[1]
      /\ \A i \in 1 .. Len(posted') : posted'[i] = posted[i + 1]
  BY TailIs DEF TakeEvent, Inv, BaseInv, CenterType
<1>2. step' = "begin" /\ UNCHANGED <<seen, generation, busy>>
  BY DEF TakeEvent, Goto
<1>3. \A i \in 1 .. Len(posted) : ToCome(i)
  BY DEF Inv, CommandInv
<1>4. \A i \in 1 .. Len(posted) : posted[i].gen \in Nat
  BY PostedType DEF Inv, BaseInv, CenterType
<1>5. ASSUME NEW i \in 1 .. Len(posted') PROVE ToCome(i)'
  <2>1. i + 1 \in 1 .. Len(posted) /\ 1 \in 1 .. (i + 1) - 1 /\ posted'[i] = posted[i + 1]
    BY <1>1
  <2>2. ASSUME NEW j \in 1 .. i - 1 PROVE j + 1 \in 1 .. (i + 1) - 1 /\ posted'[j] = posted[j + 1]
    BY <1>1
  <2>3. ToCome(i + 1)
    BY <1>3, <2>1
  <2> QED
    BY <1>1, <1>2, <2>1, <2>2, <2>3 DEF ToCome, IsCommand
<1>6. CommandInv'
  <2>1. ToCome(1)
    BY <1>1, <1>3
  <2> QED
    BY <1>1, <1>2, <1>4, <1>5, <2>1 DEF ToCome, IsCommand, Inv, BaseInv, CenterType, CommandInv
<1>7. StartInv'
  BY <1>1, <1>2 DEF Inv, StartInv
<1> QED
  BY <1>6, <1>7

LEMMA CommandGui ==
  ASSUME Inv, Receive \/ RequestStop \/ Joined
  PROVE  CommandInv' /\ StartInv'
<1> USE DEF guiVars, workVars, worldVars
<1>1. CASE Receive
  <2>1. UNCHANGED <<generation, posted, event, step, seen>>
    BY <1>1 DEF Receive
  <2>2. ASSUME Current(1, "completed") PROVE seen = generation /\ event.kind # "command"
    <3>1. Read(1) /\ inbox[1].gen = generation
      BY <1>1, <2>2, ReceiveIs DEF Inv, DisplayInv, Current
    <3>2. seen \in Nat /\ generation \in Nat /\ event.gen \in Nat
      BY DEF Inv, BaseInv, CenterType, Events
    <3> QED
      BY <3>1, <3>2 DEF Read, Inv, CommandInv
  <2>3. ~busy' => seen = generation /\ event.kind # "command"
    BY <1>1, <2>2, ReceiveIs DEF Inv, CommandInv
  <2>4. \A i \in 1 .. Len(posted') : ToCome(i)'
    BY <2>1 DEF Inv, CommandInv, ToCome, IsCommand
  <2> QED
    BY <2>1, <2>3, <2>4 DEF Inv, CommandInv, StartInv
<1>2. CASE RequestStop
  <2>1. UNCHANGED <<generation, posted, event, busy, seen>> /\ (step' = step \/ (step = "native" /\ step' = "cancelled"))
    BY <1>2 DEF RequestStop, CancelPending, Cancelled
  <2>2. \A i \in 1 .. Len(posted') : ToCome(i)'
    BY <2>1 DEF Inv, CommandInv, ToCome, IsCommand
  <2> QED
    BY <2>1, <2>2 DEF Inv, CommandInv, StartInv
<1>3. CASE Joined
  <2>1. Len(posted') = 0
    BY <1>3, EmptySeq DEF Joined
  <2> QED
    BY <1>3, <2>1 DEF Joined, Inv, CommandInv, StartInv
<1> QED
  BY <1>1, <1>2, <1>3

LEMMA CommandQuiet ==
  ASSUME Inv, Quiet, UNCHANGED <<inbox, posted>>
  PROVE  CommandInv' /\ StartInv'
<1> USE DEF guiVars, workVars, worldVars, workerKeeps, readerKeeps, Goto, Done
<1>1. NoEvent.kind = "none" /\ Event("poll", seen).kind = "poll"
  BY DEF NoEvent, Event
<1>2. CASE BeginCommand
  <2>1. /\ event.kind = "command" /\ step = "begin" /\ seen' = event.gen /\ UNCHANGED <<generation, busy>>
        /\ event' = NoEvent \/ (event' = event /\ step' # "begin")
    BY <1>2 DEF BeginCommand
  <2>2. event.gen <= generation /\ seen < event.gen /\ busy /\ seen \in Nat /\ event.gen \in Nat
    BY <2>1 DEF Inv, CommandInv, BaseInv, CenterType, Events
  <2>3. \A i \in 1 .. Len(posted') : ToCome(i)'
    BY <1>1, <2>1 DEF Inv, CommandInv, ToCome, IsCommand
  <2>4. CommandInv'
    BY <1>1, <2>1, <2>2, <2>3 DEF CommandInv
  <2>5. StartInv'
    BY <1>1, <2>1 DEF Inv, StartInv
  <2> QED
    BY <2>4, <2>5
<1>3. ASSUME UNCHANGED <<generation, seen, busy>>,
             \/ event' = event /\ ((step = "begin") <=> (step' = "begin"))
             \/ event' = event /\ event.kind # "command"
             \/ event'.kind \in {"none", "poll"},
             \/ (step = "idle") => (step' = "idle")
             \/ \A i \in 1 .. Len(posted) : posted[i].kind # "start"
      PROVE  CommandInv' /\ StartInv'
  <2>1. \A i \in 1 .. Len(posted') : ToCome(i)'
    BY <1>3 DEF Inv, CommandInv, ToCome, IsCommand
  <2>2. CommandInv'
    BY <1>3, <2>1 DEF Inv, CommandInv
  <2>3. StartInv'
    BY <1>3 DEF Inv, StartInv
  <2> QED
    BY <2>2, <2>3
<1>4. CASE CancelAgain
  BY <1>3, <1>4 DEF CancelAgain, CancelPending, Cancelled
<1>5. CASE TimerFires
  <2>1. \A i \in 1 .. Len(posted) : posted[i].kind # "start"
    BY <1>5 DEF TimerFires, Inv, NoticeInv, StartToCome
  <2> QED
    BY <1>1, <1>3, <1>5, <2>1 DEF TimerFires
<1>6. CASE BeginStart \/ NativeBegins \/ CommandSucceeds \/ Ticked
  <2>1. event.kind = "start" \/ step # "begin"
    BY <1>6 DEF BeginStart, NativeBegins, CommandSucceeds, Ticked
  <2>2. UNCHANGED <<generation, seen, busy, event>> /\ step # "idle" /\ step' # "begin"
    BY <1>6 DEF BeginStart, NativeBegins, CommandSucceeds, Ticked
  <2> QED
    BY <1>3, <2>1, <2>2
<1>7. CASE (Notified /\ step = "begin") \/ BeginShutdown \/ Disconnect
  BY <1>1, <1>3, <1>7 DEF Notified, BeginShutdown, Disconnect
<1>8. CASE Dispatch \/ Called \/ Changes \/ DaemonChanges
  BY <1>3, <1>8 DEF Dispatch, Called, Changes, DaemonChanges
<1>9. CASE UNCHANGED vars
  BY <1>3, <1>9 DEF vars
<1> QED
  BY <1>2, <1>4, <1>5, <1>6, <1>7, <1>8, <1>9 DEF Quiet

----------------------------------------------------------------------------
(* The GUI's queue and what is displayed.                                  *)

LEMMA DisplayEmitting ==
  ASSUME Inv, Emitting
  PROVE  DisplayInv'
<1>1. PICK signals \in Seq(Signals) : Told(signals) /\ Emit(signals)
  BY Emits
<1>2. /\ UNCHANGED <<gui, generation, busy, lastError, shown, reply, seen, truth>>
      /\ event'.kind # "command"
  BY EmittingRest DEF EmitRest, NoEvent, Inv, guiVars, worldVars
<1>3. CASE gui # "running"
  <2>1. Len(inbox') = 0
    BY <1>1, <1>3, EmitIs DEF Inv, BaseInv, CenterType
  <2> QED
    BY <1>2, <2>1 DEF Inv, DisplayInv
<1>4. CASE gui = "running"
  <2>0. PICK n \in Nat : n = Len(inbox)
    BY LenProperties DEF Inv, BaseInv, CenterType
  <2>1. /\ n \in Nat /\ Len(signals) \in Nat /\ Len(inbox') = n + Len(signals)
        /\ \A i \in 1 .. Len(inbox') : inbox'[i] = IF i <= n THEN inbox[i] ELSE signals[i - n]
    BY <1>1, <1>4, <2>0, EmitIs DEF Inv, BaseInv, CenterType
  <2>2. \A i \in 1 .. n : Read(i)
    BY <2>0 DEF Inv, DisplayInv
  <2>3. ASSUME NEW i \in 1 .. n PROVE Read(i)'
    <3>1. inbox'[i] = inbox[i] /\ \A j \in 1 .. i - 1 : inbox'[j] = inbox[j]
      BY <2>1
    <3>2. Current(i, "snapshot")' = Current(i, "snapshot") /\ Current(i, "completed")' = Current(i, "completed")
      BY <1>2, <3>1 DEF Current
    <3>3. Ahead(i, "error")' = Ahead(i, "error") /\ Ahead(i, "snapshot")' = Ahead(i, "snapshot")
      BY <1>2, <3>1 DEF Current, Ahead
    <3> QED
      BY <1>2, <2>2, <3>1, <3>2, <3>3 DEF Read, Warned
  <2>4. ASSUME NEW i \in n + 1 .. n + Len(signals) PROVE Read(i)'
    <3> DEFINE k == i - n
    <3>1. k \in 1 .. Len(signals) /\ inbox'[i] = signals[k] /\ i \in 1 .. Len(inbox')
      BY <2>1
    <3>2. \A j \in 1 .. k - 1 : j \in 1 .. Len(signals) /\ n + j \in 1 .. i - 1 /\ inbox'[n + j] = signals[j]
      BY <2>1
    <3> HIDE DEF k
    <3>3. inbox'[i].gen = seen
      BY <1>1, <3>1 DEF Told
    <3>4. ASSUME seen = generation, NEW kind, NEW j \in 1 .. k - 1, signals[j].kind = kind
          PROVE  Ahead(i, kind)'
      <4>1. signals[j].gen = seen
        BY <1>1, <3>2 DEF Told
      <4>2. n + j \in 1 .. i - 1 /\ inbox'[n + j] = signals[j]
        BY <3>2, <3>4
      <4>3. inbox'[n + j].kind = kind /\ inbox'[n + j].gen = generation'
        BY <1>2, <3>4, <4>1, <4>2
      <4>4. Current(n + j, kind)'
        BY <4>3 DEF Current
      <4> QED
        BY <4>2, <4>4 DEF Ahead
    <3>5. ASSUME Current(i, "snapshot")' PROVE inbox'[i].version >= reply \/ Ahead(i, "error")'
      BY <1>1, <1>2, <3>1, <3>3, <3>4, <3>5 DEF Told, Current
    <3>6. ASSUME Current(i, "completed")'
          PROVE  shown >= reply \/ Ahead(i, "error")' \/ Ahead(i, "snapshot")'
      <4>1. seen = generation /\ signals[k].kind = "completed"
        BY <1>2, <3>1, <3>3, <3>6 DEF Current
      <4>2. CASE shown >= reply
        BY <4>2
      <4>3. CASE \E j \in 1 .. k - 1 : signals[j].kind \in {"error", "snapshot"}
        BY <3>4, <4>1, <4>3
      <4> QED
        BY <1>1, <3>1, <4>1, <4>2, <4>3 DEF Told
    <3>7. seen \in Nat
      BY DEF Inv, BaseInv, CenterType
    <3> QED
      BY <1>2, <3>3, <3>5, <3>6, <3>7 DEF Read, Warned
  <2>5. \A i \in 1 .. Len(inbox') : Read(i)'
    BY <2>1, <2>3, <2>4
  <2> QED
    BY <1>2, <2>5 DEF Inv, DisplayInv
<1> QED
  BY <1>3, <1>4

LEMMA DisplayReceive ==
  ASSUME Inv, Receive
  PROVE  DisplayInv'
<1>1. /\ Len(inbox) \in Nat \ {0} /\ Len(inbox') = Len(inbox) - 1
      /\ \A i \in 1 .. Len(inbox') : inbox'[i] = inbox[i + 1]
      /\ shown' = IF Current(1, "snapshot") THEN inbox[1].version ELSE shown
      /\ lastError' = IF Current(1, "error") THEN inbox[1].gen + 1 ELSE lastError
      /\ busy' = IF Current(1, "completed") THEN FALSE ELSE busy
  BY ReceiveIs DEF Inv
<1>2. UNCHANGED <<generation, event, step, reply, seen, truth>>
  BY DEF Receive, workVars, worldVars
<1>3. /\ generation \in Nat /\ reply \in Nat /\ shown \in Nat /\ lastError \in Nat
      /\ lastError \in {Nothing, generation + 1}
      /\ \A i \in 1 .. Len(inbox) : Read(i)
      /\ ~busy => lastError = generation + 1 \/ shown >= reply
  BY DEF Inv, BaseInv, CenterType, DisplayInv
<1>4. ~Ahead(1, "error") /\ ~Ahead(1, "snapshot") /\ Read(1)
  BY <1>1, <1>3 DEF Ahead
<1>5. lastError = generation + 1 => lastError' = generation + 1
  BY <1>1 DEF Current
<1>6. Current(1, "error") => lastError' = generation + 1
  BY <1>1 DEF Current
<1>7. Current(1, "snapshot") => shown' >= reply \/ lastError' = generation + 1
  BY <1>1, <1>4, <1>5 DEF Read, Warned
<1>8. shown >= reply => shown' >= reply \/ lastError' = generation + 1
  BY <1>1, <1>7
<1>9. ASSUME NEW i \in 1 .. Len(inbox') PROVE Read(i)'
  <2>1. i + 1 \in 1 .. Len(inbox) /\ inbox'[i] = inbox[i + 1]
    BY <1>1
  <2>2. Read(i + 1)
    BY <1>3, <2>1
  <2>3. ASSUME NEW kind, Ahead(i + 1, kind) PROVE Ahead(i, kind)' \/ Current(1, kind)
    <3>1. PICK j \in 1 .. (i + 1) - 1 : Current(j, kind)
      BY <2>3 DEF Ahead
    <3>2. CASE j = 1
      BY <3>1, <3>2
    <3>3. CASE j # 1
      <4>1. j - 1 \in 1 .. i - 1 /\ j - 1 \in 1 .. Len(inbox') /\ (j - 1) + 1 = j
        BY <1>1, <3>3
      <4>2. Current(j - 1, kind)'
        BY <1>1, <1>2, <3>1, <4>1 DEF Current
      <4> QED
        BY <4>1, <4>2 DEF Ahead
    <3> QED
      BY <3>2, <3>3
  <2>4. Warned(i + 1) => Warned(i)'
    BY <1>2, <1>5, <1>6, <2>3 DEF Warned
  <2>5. /\ Current(i, "snapshot")' = Current(i + 1, "snapshot")
        /\ Current(i, "completed")' = Current(i + 1, "completed")
    BY <1>2, <2>1 DEF Current
  <2>6. Current(i, "completed")' => \/ shown' >= reply \/ Warned(i)' \/ Ahead(i, "snapshot")'
    BY <1>2, <1>7, <1>8, <2>2, <2>3, <2>4, <2>5 DEF Read, Warned
  <2> QED
    BY <1>2, <2>1, <2>2, <2>4, <2>5, <2>6 DEF Read
<1>10. Current(1, "completed") => lastError' = generation + 1 \/ shown' >= reply
  BY <1>4, <1>5, <1>8 DEF Read, Warned
<1>11. ~busy' => lastError' = generation + 1 \/ shown' >= reply
  BY <1>1, <1>3, <1>5, <1>8, <1>10
<1>12. lastError' \in {Nothing, generation + 1}
  BY <1>1, <1>3, <1>6
<1> QED
  BY <1>2, <1>9, <1>11, <1>12 DEF Inv, DisplayInv

\* A step that leaves the GUI's side and the reply alone.
LEMMA DisplaySame ==
  ASSUME Inv, UNCHANGED <<inbox, generation, busy, lastError, shown, reply>>,
         seen' >= seen, seen' \in Nat, truth' >= truth, truth' \in Nat,
         event'.kind = "command" /\ step' # "begin" =>
           seen' > seen \/ (event.kind = "command" /\ step # "begin")
  PROVE  DisplayInv'
<1>1. /\ seen \in Nat /\ truth \in Nat /\ reply \in Nat
      /\ \A i \in 1 .. Len(inbox) : Read(i) /\ inbox[i].gen \in Nat
  <2>1. ASSUME NEW i \in 1 .. Len(inbox) PROVE inbox[i].gen \in Nat
    <3>1. inbox[i] \in Signals
      BY ElementOfSeq DEF Inv, BaseInv, CenterType
    <3> QED
      BY <3>1 DEF Signals
  <2> QED
    BY <2>1 DEF Inv, BaseInv, CenterType, DisplayInv
<1>2. ASSUME NEW i \in 1 .. Len(inbox') PROVE Read(i)'
  BY <1>1 DEF Read, Current, Ahead, Warned
<1> QED
  BY <1>1, <1>2 DEF Inv, DisplayInv

\* The signals in the queue are of generations that the worker has left behind.
LEMMA NoneCurrent ==
  ASSUME Inv, NEW i \in 1 .. Len(inbox)
  PROVE  /\ inbox[i].gen \in Nat /\ seen \in Nat /\ generation \in Nat
         /\ inbox[i].gen <= seen /\ inbox[i].gen <= generation
         /\ event.kind = "command" /\ step # "begin" => inbox[i].gen < seen /\ inbox[i].gen < generation
<1>1. inbox[i] \in Signals
  BY ElementOfSeq DEF Inv, BaseInv, CenterType
<1>2. inbox[i].gen \in Nat /\ seen \in Nat /\ generation \in Nat /\ seen <= generation /\ Read(i)
  BY <1>1 DEF Inv, BaseInv, CenterType, Signals, CommandInv, DisplayInv
<1> QED
  BY <1>2 DEF Read

LEMMA DisplayAct ==
  ASSUME Inv, NEW method \in {"set", "disconnect"}, Act(method)
  PROVE  DisplayInv'
<1>1. /\ generation' = generation + 1 /\ busy' /\ lastError' = Nothing
      /\ UNCHANGED <<inbox, event, reply, seen, truth>>
      /\ step' = step \/ (step = "native" /\ step' = "cancelled")
  BY DEF Act, CancelPending, Cancelled, worldVars
<1>2. ASSUME NEW i \in 1 .. Len(inbox') PROVE Read(i)'
  BY <1>1, NoneCurrent DEF Read, Current
<1>3. generation \in Nat /\ reply <= truth
  BY DEF Inv, BaseInv, CenterType, DisplayInv
<1> QED
  BY <1>1, <1>2, <1>3 DEF DisplayInv

LEMMA DisplaySucceeds ==
  ASSUME Inv, CommandSucceeds
  PROVE  DisplayInv'
<1>1. /\ event.kind = "command" /\ step # "begin" /\ step' # "begin" /\ truth' = truth + 1 /\ reply' = truth'
      /\ UNCHANGED <<inbox, generation, busy, lastError, shown, event, seen>>
  BY DEF CommandSucceeds, Goto, guiVars
<1>2. ASSUME NEW i \in 1 .. Len(inbox') PROVE Read(i)'
  BY <1>1, NoneCurrent DEF Read, Current
<1>3. seen \in Nat /\ generation \in Nat /\ truth \in Nat /\ generation # 0 /\ busy
  BY <1>1 DEF Inv, BaseInv, CenterType, CommandInv
<1> QED
  BY <1>1, <1>2, <1>3 DEF Inv, DisplayInv

LEMMA DisplayElse ==
  ASSUME Inv,
         \/ RefreshDiscovered \/ PostShutdown \/ PostNotification \/ Joined \/ TakeEvent
         \/ Quiet /\ UNCHANGED <<inbox, posted>>
  PROVE  DisplayInv'
<1> USE DEF guiVars, workVars, worldVars, workerKeeps, readerKeeps, Goto, Done
<1>1. seen \in Nat /\ truth \in Nat /\ seen <= seen /\ truth <= truth
  BY DEF Inv, BaseInv, CenterType
<1>2. NoEvent.kind = "none" /\ Event("poll", seen).kind = "poll"
  BY DEF NoEvent, Event
<1>3. CASE RefreshDiscovered \/ PostShutdown \/ PostNotification \/ Joined \/ TakeEvent
  BY <1>1, <1>3, DisplaySame DEF RefreshDiscovered, PostShutdown, PostNotification, Joined, TakeEvent
<1>4. CASE Quiet /\ UNCHANGED <<inbox, posted>>
  <2>1. CASE CancelAgain \/ TimerFires \/ NativeBegins
    BY <1>1, <1>2, <2>1, DisplaySame
    DEF CancelAgain, CancelPending, Cancelled, TimerFires, NativeBegins
  <2>2. CASE BeginCommand
    <3>1. seen' = event.gen /\ event.gen \in Nat /\ event.gen > seen
      BY <1>1, <2>2 DEF BeginCommand, Inv, CommandInv, BaseInv, CenterType, Events
    <3> QED
      BY <1>1, <2>2, <3>1, DisplaySame DEF BeginCommand
  <2>3. CASE CommandSucceeds
    BY <2>3, DisplaySucceeds
  <2>4. CASE BeginStart \/ Ticked \/ (Notified /\ step = "begin") \/ BeginShutdown \/ Disconnect
    BY <1>1, <1>2, <2>4, DisplaySame DEF BeginStart, Ticked, Notified, BeginShutdown, Disconnect
  <2>5. CASE Dispatch \/ Called \/ Changes \/ DaemonChanges
    BY <1>1, <2>5, DisplaySame DEF Dispatch, Called, Changes, DaemonChanges
  <2>6. CASE UNCHANGED vars
    BY <1>1, <2>6, DisplaySame DEF vars
  <2> QED
    BY <1>4, <2>1, <2>2, <2>3, <2>4, <2>5, <2>6 DEF Quiet
<1> QED
  BY <1>3, <1>4

LEMMA DisplayStop ==
  ASSUME Inv, RequestStop
  PROVE  DisplayInv'
<1>1. Len(inbox') = 0
  BY EmptySeq DEF RequestStop
<1> QED
  BY <1>1 DEF RequestStop, Inv, DisplayInv, worldVars

----------------------------------------------------------------------------
(* Notifications.                                                          *)

LEMMA NoticePosting ==
  ASSUME Inv, Posting
  PROVE  NoticeInv'
<1> USE DEF guiVars, workVars, worldVars, readerKeeps
<1>1. posted \in Seq(Events) /\ generation + 1 \in Nat /\ {"command", "discover", "shutdown", "notify"} \subseteq Kinds
  BY DEF Inv, BaseInv, CenterType, Kinds
<1>2. ASSUME NEW kind \in {"command", "discover", "shutdown", "notify"}, NEW gen \in Nat, Post(kind, gen),
             UNCHANGED event
      PROVE  /\ StartToCome' = StartToCome /\ (NotifyToCome => NotifyToCome')
             /\ kind = "notify" /\ gen = 0 => NotifyToCome'
  <2>1. /\ Len(posted) \in Nat /\ Len(posted') = Len(posted) + 1
        /\ \A i \in 1 .. Len(posted) : i \in 1 .. Len(posted') /\ posted'[i] = posted[i]
        /\ Len(posted) + 1 \in 1 .. Len(posted')
        /\ posted'[Len(posted) + 1] = Event(kind, gen) /\ posted'[Len(posted) + 1].kind # "start"
    BY <1>1, <1>2, PostIs
  <2>2. ASSUME NEW i \in 1 .. Len(posted') PROVE i \in 1 .. Len(posted) \/ i = Len(posted) + 1
    BY <2>1
  <2>3. NotifyToCome => NotifyToCome'
    BY <2>1 DEF NotifyToCome
  <2>4. kind = "notify" /\ gen = 0 => NotifyToCome'
    BY <2>1 DEF NotifyToCome
  <2>5. StartToCome => StartToCome'
    BY <1>2, <2>1 DEF StartToCome
  <2>6. StartToCome' => StartToCome
    BY <1>2, <2>1, <2>2 DEF StartToCome
  <2> QED
    BY <2>3, <2>4, <2>5, <2>6 DEF StartToCome
<1>3. CASE \E method \in {"set", "disconnect"} : Act(method)
  <2>1. PICK method \in {"set", "disconnect"} : Act(method)
    BY <1>3
  <2>2. Post("command", generation') /\ generation' \in Nat /\ UNCHANGED event
    BY <1>1, <2>1 DEF Act
  <2>3. StartToCome' = StartToCome /\ (NotifyToCome => NotifyToCome')
    BY <1>2, <2>2
  <2> QED
    BY <2>1, <2>3 DEF Act, CancelPending, Cancelled, Inv, NoticeInv
<1>4. CASE RefreshDiscovered
  <2>1. StartToCome' = StartToCome /\ (NotifyToCome => NotifyToCome')
    BY <1>2, <1>4 DEF RefreshDiscovered
  <2> QED
    BY <1>4, <2>1 DEF RefreshDiscovered, Inv, NoticeInv
<1>5. CASE PostShutdown
  <2>1. StartToCome' = StartToCome /\ (NotifyToCome => NotifyToCome')
    BY <1>2, <1>5 DEF PostShutdown
  <2> QED
    BY <1>5, <2>1 DEF PostShutdown, Inv, NoticeInv
<1>6. CASE PostNotification
  <2>1. StartToCome' = StartToCome /\ NotifyToCome'
    BY <1>2, <1>6 DEF PostNotification
  <2> QED
    BY <1>6, <2>1 DEF PostNotification, Inv, NoticeInv
<1> QED
  BY <1>3, <1>4, <1>5, <1>6 DEF Posting

LEMMA NoticeTake ==
  ASSUME Inv, TakeEvent
  PROVE  NoticeInv'
<1>1. /\ Len(posted) \in Nat \ {0} /\ Len(posted') = Len(posted) - 1 /\ event' = posted[1]
      /\ \A i \in 1 .. Len(posted') : posted'[i] = posted[i + 1]
  BY TailIs DEF TakeEvent, Inv, BaseInv, CenterType
<1>2. ASSUME NEW i \in 1 .. Len(posted') PROVE i + 1 \in 1 .. Len(posted)
  BY <1>1
<1>3. ASSUME StartToCome' PROVE StartToCome
  BY <1>1, <1>2, <1>3 DEF StartToCome
<1>4. ASSUME NotifyToCome PROVE NotifyToCome' \/ event'.kind = "notify"
  <2>1. PICK i \in 1 .. Len(posted) : posted[i] = Event("notify", 0)
    BY <1>4 DEF NotifyToCome
  <2>2. CASE i = 1
    BY <1>1, <2>1, <2>2 DEF Event
  <2>3. CASE i # 1
    <3>1. i - 1 \in 1 .. Len(posted') /\ posted'[i - 1] = Event("notify", 0)
      BY <1>1, <2>1, <2>3
    <3> QED
      BY <3>1 DEF NotifyToCome
  <2> QED
    BY <2>2, <2>3
<1>5. event.kind = "none" /\ step' = "begin"
  BY DEF TakeEvent, Goto, Inv, BaseInv, AtWork
<1> QED
  BY <1>3, <1>4, <1>5 DEF TakeEvent, workerKeeps, guiVars, worldVars, Inv, NoticeInv

LEMMA NoticeGui ==
  ASSUME Inv, Receive \/ RequestStop \/ Joined
  PROVE  NoticeInv'
<1> USE DEF guiVars, workVars, worldVars
<1>1. CASE Receive
  BY <1>1 DEF Receive, Inv, NoticeInv, StartToCome, NotifyToCome
<1>2. CASE RequestStop
  BY <1>2 DEF RequestStop, CancelPending, Cancelled, Inv, NoticeInv, StartToCome, NotifyToCome
<1>3. CASE Joined
  <2>1. Len(posted') = 0
    BY <1>3, EmptySeq DEF Joined
  <2>2. StartToCome' => StartToCome
    BY <1>3, <2>1 DEF StartToCome, Joined
  <2> QED
    BY <1>3, <2>2 DEF Joined, Inv, NoticeInv
<1> QED
  BY <1>1, <1>2, <1>3

LEMMA NoticeEmitting ==
  ASSUME Inv, Emitting
  PROVE  NoticeInv'
<1> USE DEF guiVars, worldVars, workerKeeps, Goto, Done
<1>1. NoEvent.kind = "none"
  BY DEF NoEvent
<1>2. UNCHANGED <<posted, reader, truth, announced, pending, usingIpc, gui, stopped, reply>>
  BY EmittingRest DEF EmitRest, Inv
<1>3. \A i \in 1 .. Len(posted) : posted[i].kind # "start"
  BY EmittingRest DEF Inv, StartInv
<1>4. NotifyToCome' = NotifyToCome
  BY <1>2 DEF NotifyToCome
<1>5. StartToCome' = (event'.kind = "start") /\ StartToCome = (event.kind = "start")
  BY <1>2, <1>3 DEF StartToCome
<1>6. truth \in Nat /\ announced \in Nat /\ published \in Nat /\ reply \in Nat /\ reply <= truth
  BY DEF Inv, BaseInv, CenterType, DisplayInv
<1>7. CASE Started
  <2>1. /\ event.kind = "start" /\ UNCHANGED <<timer, subscribed>> /\ step' # "subscribe"
        /\ published' = published \/ published' = truth
    BY <1>7 DEF Started, Publish
  <2>2. NoticeInv /\ announced = 0 /\ published' \in Nat /\ published' <= truth
    <3>1. StartToCome
      BY <2>1 DEF StartToCome
    <3>2. NoticeInv /\ announced = 0 /\ published <= truth
      BY <3>1 DEF Inv, NoticeInv
    <3> QED
      BY <1>6, <2>1, <3>2
  <2>3. announced <= published'
    BY <2>2
  <2>4. StartToCome' => StartToCome
    BY <1>5, <2>1
  <2> QED
    BY <1>2, <1>4, <2>1, <2>2, <2>3, <2>4 DEF NoticeInv
<1>8. CASE Discover
  <2>1. UNCHANGED <<subscribed, published>> /\ step' # "subscribe" /\ event'.kind = "none" /\ step # "publish"
    BY <1>1, <1>8 DEF Discover
  <2>2. event.kind # "notify" /\ event.kind # "poll"
    BY <1>8 DEF Discover
  <2> QED
    BY <1>2, <1>4, <1>5, <2>1, <2>2 DEF Inv, NoticeInv
<1>9. CASE CommandFails
  BY <1>1, <1>2, <1>4, <1>5, <1>6, <1>9 DEF CommandFails, Inv, NoticeInv
<1>10. CASE CommandReplies
  <2>1. /\ event.kind = "command" /\ step = "subscribe" /\ published' = reply
        /\ event'.kind = "none" /\ step' = "idle" /\ (usingIpc => subscribed' = subscribed)
    BY <1>1, <1>10 DEF CommandReplies, Subscribe
  <2> QED
    <3>1. NoticeInv /\ published <= reply /\ reply <= truth
      BY <1>6, <2>1 DEF Inv, NoticeInv
    <3>2. announced <= published => announced <= reply
      BY <1>6, <3>1
    <3>3. ~StartToCome'
      BY <1>5, <2>1
    <3> QED
      BY <1>2, <1>4, <2>1, <3>1, <3>2, <3>3 DEF NoticeInv
<1>11. CASE PollPublishes
  BY <1>1, <1>2, <1>4, <1>5, <1>6, <1>11 DEF PollPublishes, Publish, Answers, Inv, NoticeInv
<1>12. CASE Notified /\ step = "publish"
  BY <1>1, <1>2, <1>4, <1>5, <1>6, <1>12 DEF Notified, Publish, Inv, NoticeInv
<1> QED
  BY <1>7, <1>8, <1>9, <1>10, <1>11, <1>12 DEF Emitting

LEMMA NoticeQuiet ==
  ASSUME Inv, Quiet, UNCHANGED <<inbox, posted>>
  PROVE  NoticeInv'
<1> USE DEF guiVars, worldVars, workerKeeps, readerKeeps, workVars, Goto, Done
<1>1. NoEvent.kind = "none" /\ Event("poll", seen).kind = "poll"
  BY DEF NoEvent, Event
<1>2. NotifyToCome' = NotifyToCome
  BY DEF NotifyToCome
<1>3. /\ StartToCome = (event.kind = "start" \/ \E i \in 1 .. Len(posted) : posted[i].kind = "start")
      /\ StartToCome' = (event'.kind = "start" \/ \E i \in 1 .. Len(posted) : posted[i].kind = "start")
      /\ step # "idle" => ~ \E i \in 1 .. Len(posted) : posted[i].kind = "start"
  BY DEF StartToCome, Inv, StartInv
<1>4. truth \in Nat /\ announced \in Nat /\ published \in Nat /\ reply \in Nat /\ reply <= truth
  BY DEF Inv, BaseInv, CenterType, DisplayInv
<1>5. (step = "idle") <=> (event.kind = "none")
  BY DEF Inv, BaseInv, AtWork
<1>6. CASE CancelAgain
  BY <1>2, <1>3, <1>6 DEF CancelAgain, CancelPending, Cancelled, Inv, NoticeInv
<1>7. CASE TimerFires
  BY <1>1, <1>2, <1>3, <1>5, <1>7 DEF TimerFires, Inv, NoticeInv
<1>8. CASE BeginStart
  BY <1>2, <1>3, <1>8 DEF BeginStart, Inv, NoticeInv
<1>9. CASE BeginCommand
  BY <1>1, <1>2, <1>3, <1>9 DEF BeginCommand, Inv, NoticeInv
<1>10. CASE NativeBegins
  BY <1>2, <1>3, <1>10 DEF NativeBegins, Inv, NoticeInv
<1>11. CASE CommandSucceeds
  BY <1>2, <1>3, <1>4, <1>11 DEF CommandSucceeds, Inv, NoticeInv
<1>12. CASE Ticked
  BY <1>2, <1>3, <1>12 DEF Ticked, Subscribe, Inv, NoticeInv
<1>13. CASE Notified /\ step = "begin"
  BY <1>1, <1>2, <1>3, <1>13 DEF Notified, Inv, NoticeInv
<1>14. CASE BeginShutdown
  BY <1>2, <1>3, <1>14 DEF BeginShutdown, Inv, NoticeInv
<1>15. CASE Disconnect
  BY <1>1, <1>2, <1>3, <1>15 DEF Disconnect, Inv, NoticeInv
<1>16. CASE Dispatch \/ DaemonChanges
  BY <1>2, <1>3, <1>16 DEF Dispatch, DaemonChanges, Inv, NoticeInv
<1>17. CASE Called
  BY <1>2, <1>3, <1>4, <1>17 DEF Called, Inv, NoticeInv
<1>18. CASE Changes
  BY <1>2, <1>3, <1>4, <1>18 DEF Changes, Inv, NoticeInv
<1>19. CASE UNCHANGED vars
  BY <1>2, <1>3, <1>19 DEF vars, Inv, NoticeInv
<1> QED
  BY <1>6, <1>7, <1>8, <1>9, <1>10, <1>11, <1>12, <1>13, <1>14, <1>15, <1>16, <1>17, <1>18, <1>19 DEF Quiet

----------------------------------------------------------------------------
(* The application keeps its invariant, and what follows from it.          *)

LEMMA CenterInit == Init => Inv
<1> SUFFICES ASSUME Init PROVE Inv
  OBVIOUS
<1>1. Len(posted) = 1 /\ posted[1] = Event("start", 0) /\ Len(inbox) = 0
  BY EmptySeq DEF Init
<1>2. \A i \in 1 .. Len(posted) : i = 1 /\ posted[i].kind = "start"
  BY <1>1 DEF Event
<1>3. CommandInv /\ StartInv
  BY <1>2 DEF Init, CommandInv, StartInv, ToCome, IsCommand, NoEvent
<1>4. DisplayInv
  BY <1>1 DEF Init, DisplayInv, Nothing
<1>5. NoticeInv
  BY <1>2 DEF Init, NoticeInv, NoEvent, StartToCome
<1> QED
  BY <1>3, <1>4, <1>5, BaseInit DEF Inv

LEMMA CenterStep == Inv /\ [Next]_vars => Inv'
<1> SUFFICES ASSUME Inv, [Next]_vars PROVE Inv'
  OBVIOUS
<1>1. CASE Posting
  <2>1. DisplayInv'
    BY <1>1, DisplayAct, DisplayElse DEF Posting
  <2> QED
    BY <1>1, <2>1, BaseAct, CommandPosting, NoticePosting DEF Inv
<1>2. CASE Emitting
  BY <1>2, BaseEmit, CommandEmitting, DisplayEmitting, NoticeEmitting DEF Inv
<1>3. CASE Receive
  BY <1>3, BaseTake, CommandGui, DisplayReceive, NoticeGui DEF Inv
<1>4. CASE RequestStop
  BY <1>4, BaseTake, CommandGui, DisplayStop, NoticeGui DEF Inv
<1>5. CASE Joined
  BY <1>5, BaseTake, CommandGui, DisplayElse, NoticeGui DEF Inv
<1>6. CASE TakeEvent
  BY <1>6, BaseTake, CommandTake, DisplayElse, NoticeTake DEF Inv
<1>7. CASE Quiet /\ UNCHANGED <<inbox, posted>>
  BY <1>7, BaseQuiet, CommandQuiet, DisplayElse, NoticeQuiet DEF Inv
<1> QED
  BY <1>1, <1>2, <1>3, <1>4, <1>5, <1>6, <1>7, StepKinds

LEMMA CenterInvariant == Spec => []Inv
<1> QED
  BY CenterInit, CenterStep, PTL DEF Spec

\* What the user sees is the outcome of the last action: when "busy" ends it is
\* over, its error is displayed or what it did is included in what is shown
\* (DeviceCenterController::_send and its queued slots).
THEOREM UserSeesTheOutcome == Spec => []OutcomeIsOwn
<1>1. ASSUME Inv PROVE OutcomeIsOwn
  <2>1. ASSUME ~busy, NEW i \in 1 .. Len(posted) PROVE posted[i].kind # "command"
    <3>1. ToCome(i) /\ seen = generation /\ seen \in Nat /\ posted[i].gen \in Nat
      BY <1>1, <2>1, PostedType DEF Inv, BaseInv, CenterType, CommandInv
    <3> QED
      BY <3>1 DEF ToCome, IsCommand
  <2>2. ~busy => event.kind # "command"
    BY <1>1 DEF Inv, CommandInv
  <2>3. ~busy /\ lastError = Nothing => shown >= reply
    BY <1>1 DEF Inv, DisplayInv, BaseInv, CenterType, Nothing
  <2>4. lastError \in {Nothing, generation + 1}
    BY <1>1 DEF Inv, DisplayInv
  <2> QED
    BY <2>1, <2>2, <2>3, <2>4 DEF OutcomeIsOwn
<1> QED
  BY <1>1, CenterInvariant, PTL

\* What the reader announced is published, or an event that will publish it is
\* still to come: the flag that coalesces notifications loses none
\* (DeviceBackend::_subscribe).
THEOREM NoNoticeIsLost == Spec => []NotificationIsPublished
<1>1. ASSUME Inv PROVE NotificationIsPublished
  <2>1. ASSUME NotifyToCome PROVE Event("notify", 0) \in ToSet(posted)
    <3>1. PICK i \in 1 .. Len(posted) : posted[i] = Event("notify", 0)
      BY <2>1 DEF NotifyToCome
    <3>2. i \in DOMAIN posted
      BY <1>1, LenProperties DEF Inv, BaseInv, CenterType
    <3> QED
      BY <3>1, <3>2 DEF ToSet
  <2> QED
    BY <1>1, <2>1 DEF Inv, NoticeInv, NotificationIsPublished
<1> QED
  BY <1>1, CenterInvariant, PTL

\* No listener runs once the backend is gone: shutdown() joins the reader and
\* nobody wakes it afterwards (DeviceBackend::shutdown).
THEOREM ListenerIsGone == Spec => []CallbackIsSafe
<1>1. Inv => CallbackIsSafe
  BY DEF Inv, BaseInv, CallInv, CallbackIsSafe
<1> QED
  BY <1>1, CenterInvariant, PTL
============================================================================
