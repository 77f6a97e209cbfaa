---------------------------- MODULE DeviceCenter ----------------------------
(***************************************************************************)
(* The desktop application: DeviceCenterController on the GUI thread and   *)
(* DeviceBackend on a worker thread with an event loop of its own.         *)
(*                                                                         *)
(* The GUI posts commands to the worker, each with a generation number;    *)
(* the worker answers with snapshots, errors and completions, posted back  *)
(* in order.  The worker has a timer, and, when it owns the headset        *)
(* itself, a listener that the session's reader thread calls.  With a      *)
(* daemon it sends requests instead, and the daemon may die or come back   *)
(* in another version.  The destructor stops, cancels and joins.           *)
(*                                                                         *)
(* What a snapshot says is one number, the version of the device's state:  *)
(* every change of it is a new one.  The list of paired devices and the    *)
(* wording of errors are left out.                                         *)
(***************************************************************************)
EXTENDS Naturals, Sequences, SequencesExt

CONSTANTS
  MaxActions,   \* bound: actions of the user
  MaxChanges,   \* bound: changes the headset makes
  MaxFaults,    \* bound: deaths and returns of the daemon
  MaxInbox      \* bound: signals the GUI has not read when the timer fires

ASSUME CenterAssumption == {MaxActions, MaxChanges, MaxFaults, MaxInbox} \subseteq Nat

VARIABLES
  gui,                                  \* the controller's life
  generation, busy, lastError, shown,   \* what it keeps and displays
  inbox,                                \* what the worker posted to it
  posted,                               \* what was posted to the worker
  event, step, reply,                   \* what the worker is doing, and its last success
  seen,                                 \* DeviceBackend::_generation
  stopRequested, stopped, timer, incompatible,
  subscribed, pending,                  \* _subscribed, _notificationPending
  reader,                               \* the session's reader thread
  daemon,                               \* who answers at the socket
  usingIpc,
  truth,                                \* the version of the device's state
  changes, faults,                      \* what is used of the bounds
  announced, published                  \* history: the last versions announced and published

guiVars == <<gui, generation, busy, lastError, shown>>
workVars == <<event, step, reply, seen, stopped, timer, incompatible, subscribed, usingIpc>>
worldVars == <<reader, daemon, truth, changes, faults, announced>>
vars == <<gui, generation, busy, lastError, shown, inbox, posted, event, step, reply, seen,
          stopRequested, stopped, timer, incompatible, subscribed, pending, reader, daemon, usingIpc,
          truth, changes, faults, announced, published>>

Nothing == 0       \* shown: not connected; lastError: none (generations of errors are kept + 1)
NoEvent == [kind |-> "none", gen |-> 0]
Event(kind, gen) == [kind |-> kind, gen |-> gen]
Post(kind, gen) == posted' = Append(posted, Event(kind, gen))

\* Signals to the GUI thread.
Snapshot(version) == [kind |-> "snapshot", gen |-> seen, version |-> version]
Error == [kind |-> "error", gen |-> seen, version |-> Nothing]
Completed == [kind |-> "completed", gen |-> seen, version |-> Nothing]
\* (Nobody reads them once the destructor runs.)
Emit(signals) == inbox' = IF gui = "running" THEN inbox \o signals ELSE <<>>

Init ==
  /\ gui = "running" /\ generation = 0 /\ busy = TRUE /\ lastError = Nothing /\ shown = Nothing
  /\ inbox = <<>> /\ posted = <<Event("start", 0)>>
  /\ event = NoEvent /\ step = "idle" /\ reply = Nothing /\ seen = 0
  /\ stopRequested = FALSE /\ stopped = FALSE /\ timer = FALSE /\ incompatible = FALSE
  /\ subscribed = FALSE /\ pending = FALSE /\ reader = "idle"
  /\ daemon \in {"absent", "up"} /\ usingIpc = FALSE
  /\ truth = 1 /\ changes = 0 /\ faults = 0
  /\ announced = 0 /\ published = 0

----------------------------------------------------------------------------
(* The GUI thread.                                                         *)

\* A native operation that waits is woken; one that has not begun is not.  (The
\* Linux connector ignores it, and its operations end by their own deadlines.)
Cancelled(s) == IF s = "native" /\ ~usingIpc THEN "cancelled" ELSE s
CancelPending == step' = Cancelled(step)

\* _send().
Act(method) ==
  /\ gui = "running" /\ generation < MaxActions
  /\ busy => method = "disconnect"
  /\ IF method = "disconnect" THEN CancelPending ELSE UNCHANGED step
  /\ busy' = TRUE /\ lastError' = Nothing /\ generation' = generation + 1
  /\ Post("command", generation')
  /\ UNCHANGED <<gui, shown, inbox, event, reply, seen, stopRequested, stopped, timer, incompatible,
                 subscribed, usingIpc, pending, worldVars, published>>

RefreshDiscovered ==
  /\ gui = "running"
  /\ posted = <<>> /\ step = "idle" /\ Len(inbox) <= MaxInbox   \* bound: when all is quiet
  /\ Post("discover", 0)
  /\ UNCHANGED <<guiVars, inbox, workVars, stopRequested, pending, worldVars, published>>

WrongIsCurrent(signal) == TRUE
IsCurrent(signal) == signal.gen = generation

\* The queued slots of the constructor.
Receive ==
  /\ gui = "running" /\ inbox # <<>>
  /\ LET signal == Head(inbox)
         Of(kind) == signal.kind = kind /\ IsCurrent(signal) IN
     /\ shown' = IF Of("snapshot") THEN signal.version ELSE shown
     /\ lastError' = IF Of("error") THEN signal.gen + 1 ELSE lastError
     /\ busy' = IF Of("completed") THEN FALSE ELSE busy
  /\ inbox' = Tail(inbox)
  /\ UNCHANGED <<gui, generation, posted, workVars, stopRequested, pending, worldVars, published>>

\* The destructor.
RequestStop ==
  /\ gui = "running"
  /\ gui' = "stopping" /\ stopRequested' = TRUE /\ CancelPending /\ inbox' = <<>>
  /\ UNCHANGED <<generation, busy, lastError, shown, posted, event, reply, seen, stopped, timer,
                 incompatible, subscribed, usingIpc, pending, worldVars, published>>

PostShutdown ==
  /\ gui = "stopping"
  /\ gui' = "waiting" /\ Post("shutdown", 0)
  /\ UNCHANGED <<generation, busy, lastError, shown, inbox, workVars, stopRequested, pending,
                 worldVars, published>>

\* Every 20 ms.
WrongCancelAgain == FALSE /\ UNCHANGED vars
CancelAgain ==
  /\ gui = "waiting" /\ CancelPending
  /\ UNCHANGED <<guiVars, inbox, posted, event, reply, seen, stopRequested, stopped, timer, incompatible,
                 subscribed, usingIpc, pending, worldVars, published>>

\* The semaphore is released, the event loop ends, and the backend goes with its thread.
Joined ==
  /\ gui = "waiting" /\ stopped /\ step = "idle"
  /\ gui' = "gone" /\ posted' = <<>>
  /\ UNCHANGED <<generation, busy, lastError, shown, inbox, workVars, stopRequested, pending, worldVars,
                 published>>

----------------------------------------------------------------------------
(* The worker: its event loop.                                             *)

workerKeeps == <<guiVars, stopRequested, worldVars>>
Goto(s) == step' = s
Done == event' = NoEvent /\ step' = "idle"

TakeEvent ==
  /\ step = "idle" /\ posted # <<>> /\ gui # "gone"
  /\ event' = Head(posted) /\ posted' = Tail(posted) /\ Goto("begin")
  /\ UNCHANGED <<workerKeeps, inbox, reply, seen, stopped, timer, incompatible, subscribed, usingIpc,
                 pending, published>>

\* Its slot's guard comes first.
TimerFires ==
  /\ step = "idle" /\ timer /\ gui # "gone" /\ Len(inbox) <= MaxInbox
  /\ ~(stopped \/ incompatible \/ stopRequested)
  /\ event' = Event("poll", seen)
  /\ Goto(IF usingIpc THEN "publish" ELSE "enter")
  /\ UNCHANGED <<workerKeeps, inbox, posted, reply, seen, stopped, timer, incompatible, subscribed,
                 usingIpc, pending, published>>

(* request(): with a daemon, what it answers; without one, what the        *)
(* service does.                                                           *)

Answers == usingIpc => daemon = "up" /\ ~incompatible
Refuse == incompatible' = (incompatible \/ (usingIpc /\ daemon = "old"))

\* publish() succeeds.
Publish(signals) ==
  /\ Answers
  /\ Emit(<<Snapshot(truth)>> \o signals)
  /\ published' = truth

\* start(): without a daemon it has a service of its own.
BeginStart ==
  /\ event.kind = "start" /\ step = "begin"
  /\ usingIpc' = (daemon # "absent") /\ Goto("publish")
  /\ UNCHANGED <<workerKeeps, inbox, posted, event, reply, seen, stopped, timer, incompatible,
                 subscribed, pending, published>>

\* publish(), discover() and the timer.
Started ==
  /\ event.kind = "start" /\ step = "publish"
  /\ \/ /\ Publish(<<>>) /\ Goto("discover")
        /\ UNCHANGED <<event, incompatible>>
     \/ /\ ~Answers /\ Refuse /\ Done
        /\ Emit(<<Error, Completed>>)
        /\ UNCHANGED published
  /\ UNCHANGED <<workerKeeps, posted, reply, seen, stopped, timer, subscribed, usingIpc, pending>>

\* discover(), which catches what the request throws, by itself or at the end of
\* start().  Without a daemon the system's list of devices is read, which may fail;
\* it is a local call, and nothing cancels it.
Discover ==
  /\ <<event.kind, step>> \in {<<"start", "discover">>, <<"discover", "begin">>}
  /\ LET last == IF event.kind = "start" THEN <<Completed>> ELSE <<>> IN
     \/ Answers /\ Emit(last) /\ UNCHANGED incompatible
     \/ (usingIpc => ~Answers) /\ Refuse /\ Emit(<<Error>> \o last)
  /\ timer' = (timer \/ event.kind = "start") /\ Done
  /\ UNCHANGED <<workerKeeps, posted, reply, seen, stopped, subscribed, usingIpc, pending, published>>

\* command(), up to its request.
WrongBeginCommand ==
  /\ event.kind = "command" /\ step = "begin"
  /\ IF stopped \/ stopRequested THEN Done
     ELSE Goto(IF usingIpc THEN "native" ELSE "enter") /\ UNCHANGED event
  /\ UNCHANGED <<workerKeeps, inbox, posted, reply, seen, stopped, timer, incompatible, subscribed, usingIpc,
                 pending, published>>
BeginCommand ==
  /\ event.kind = "command" /\ step = "begin"
  /\ seen' = event.gen
  /\ IF stopped \/ stopRequested THEN Done
     ELSE Goto(IF usingIpc THEN "native" ELSE "enter") /\ UNCHANGED event
  /\ UNCHANGED <<workerKeeps, inbox, posted, reply, stopped, timer, incompatible, subscribed, usingIpc,
                 pending, published>>

\* The service is asked: whatever was cancelled before is not this operation.
NativeBegins ==
  /\ step = "enter" /\ Goto("native")
  /\ UNCHANGED <<workerKeeps, inbox, posted, event, reply, seen, stopped, timer, incompatible, subscribed,
                 usingIpc, pending, published>>

\* The request succeeds; the reply is the snapshot after it.
CommandSucceeds ==
  /\ event.kind = "command" /\ step \in {"native", "cancelled"} /\ Answers
  /\ truth' = truth + 1 /\ reply' = truth'
  /\ Goto("subscribe")
  /\ UNCHANGED <<guiVars, stopRequested, reader, daemon, changes, faults, announced, inbox, posted, event,
                 seen, stopped, timer, incompatible, subscribed, usingIpc, pending, published>>

\* It fails, with a daemon or without.
WrongCommandFails ==
  /\ event.kind = "command" /\ step \in {"native", "cancelled"}
  /\ Refuse
  /\ Emit(<<Error>>) /\ Done
  /\ UNCHANGED <<workerKeeps, posted, reply, seen, stopped, timer, subscribed, usingIpc, pending,
                 published>>
CommandFails ==
  /\ event.kind = "command" /\ step \in {"native", "cancelled"}
  /\ Refuse
  /\ Emit(<<Error, Completed>>) /\ Done
  /\ UNCHANGED <<workerKeeps, posted, reply, seen, stopped, timer, subscribed, usingIpc, pending,
                 published>>

\* subscribe(): the device exists once it was connected.
Subscribe == IF usingIpc THEN UNCHANGED subscribed ELSE subscribed' \in {subscribed, TRUE}

WrongCommandReplies ==
  /\ event.kind = "command" /\ step = "subscribe"
  /\ Subscribe
  /\ Emit(<<Completed, Snapshot(reply)>>) /\ published' = reply
  /\ Done
  /\ UNCHANGED <<workerKeeps, posted, reply, seen, stopped, timer, incompatible, usingIpc, pending>>
CommandReplies ==
  /\ event.kind = "command" /\ step = "subscribe"
  /\ Subscribe
  /\ Emit(<<Snapshot(reply), Completed>>) /\ published' = reply
  /\ Done
  /\ UNCHANGED <<workerKeeps, posted, reply, seen, stopped, timer, incompatible, usingIpc, pending>>

\* poll(): tick() reports its failures in the snapshot, a request in an error.
Ticked ==
  /\ event.kind = "poll" /\ step \in {"native", "cancelled"}
  /\ Subscribe /\ Goto("publish")
  /\ UNCHANGED <<workerKeeps, inbox, posted, event, reply, seen, stopped, timer, incompatible, usingIpc,
                 pending, published>>

PollPublishes ==
  /\ event.kind = "poll" /\ step = "publish"
  /\ \/ Publish(<<>>) /\ UNCHANGED incompatible
     \/ ~Answers /\ Refuse /\ Emit(<<Error, Snapshot(Nothing)>>) /\ UNCHANGED published
  /\ Done
  /\ UNCHANGED <<workerKeeps, posted, reply, seen, stopped, timer, subscribed, usingIpc, pending>>

\* The queued half of a notification: the flag first, then the snapshot.
WrongNotified ==
  /\ event.kind = "notify"
  /\ \/ /\ step = "begin"
        /\ IF stopped THEN UNCHANGED <<inbox, published>> ELSE Publish(<<>>)
        /\ Goto("clear") /\ UNCHANGED <<event, pending>>
     \/ /\ step = "clear"
        /\ pending' = FALSE /\ Done
        /\ UNCHANGED <<inbox, published>>
  /\ UNCHANGED <<workerKeeps, posted, reply, seen, stopped, timer, incompatible, subscribed, usingIpc>>
Notified ==
  /\ event.kind = "notify"
  /\ \/ /\ step = "begin"
        /\ pending' = FALSE
        /\ IF stopped THEN Done ELSE Goto("publish") /\ UNCHANGED event
        /\ UNCHANGED <<inbox, published>>
     \/ /\ step = "publish" /\ Publish(<<>>) /\ Done
        /\ UNCHANGED pending
  /\ UNCHANGED <<workerKeeps, posted, reply, seen, stopped, timer, incompatible, subscribed, usingIpc>>

\* shutdown(): no more timer, no more listener, and the reader is joined.
BeginShutdown ==
  /\ event.kind = "shutdown" /\ step = "begin"
  /\ stopped' = TRUE /\ timer' = FALSE /\ subscribed' = FALSE
  /\ Goto("disconnect")
  /\ UNCHANGED <<workerKeeps, inbox, posted, event, reply, seen, incompatible, usingIpc, pending, published>>

WrongDisconnect ==
  /\ event.kind = "shutdown" /\ step = "disconnect"
  /\ Done
  /\ UNCHANGED <<workerKeeps, inbox, posted, reply, seen, stopped, timer, incompatible, subscribed, usingIpc,
                 pending, published>>
Disconnect ==
  /\ event.kind = "shutdown" /\ step = "disconnect" /\ reader = "idle"
  /\ Done
  /\ UNCHANGED <<workerKeeps, inbox, posted, reply, seen, stopped, timer, incompatible, subscribed, usingIpc,
                 pending, published>>

----------------------------------------------------------------------------
(* The reader thread and the daemon.                                       *)

readerKeeps == <<guiVars, inbox, workVars, stopRequested, published>>

\* The state changes: by a notification, or behind the daemon.
Changes ==
  /\ changes < MaxChanges /\ gui # "gone" /\ step # "disconnect"
  /\ IF usingIpc THEN UNCHANGED reader ELSE reader = "idle" /\ ~stopped /\ reader' = "updated"
  /\ truth' = truth + 1 /\ changes' = changes + 1
  /\ UNCHANGED <<readerKeeps, posted, pending, daemon, faults, announced>>

\* dispatch() copies the listeners and calls them without its mutex.
Dispatch ==
  /\ reader = "updated"
  /\ reader' = IF subscribed THEN "calling" ELSE "idle"
  /\ UNCHANGED <<readerKeeps, posted, pending, daemon, truth, changes, faults, announced>>

Called ==
  /\ reader = "calling"
  /\ reader' = IF pending THEN "idle" ELSE "posting"
  /\ pending' = TRUE /\ announced' = truth
  /\ UNCHANGED <<readerKeeps, posted, daemon, truth, changes, faults>>

PostNotification ==
  /\ reader = "posting"
  /\ reader' = "idle" /\ Post("notify", 0)
  /\ UNCHANGED <<readerKeeps, pending, daemon, truth, changes, faults, announced>>

\* Dead, back, or back in a version that does not understand the requests.
DaemonChanges ==
  /\ daemon # "absent" /\ faults < MaxFaults
  /\ daemon' \in {"up", "old", "dead"} \ {daemon} /\ faults' = faults + 1
  /\ UNCHANGED <<readerKeeps, posted, pending, reader, truth, changes, announced>>

----------------------------------------------------------------------------
User == (\E method \in {"set", "disconnect"} : Act(method)) \/ RefreshDiscovered \/ RequestStop
Gui == Receive \/ PostShutdown \/ Joined
Request == CommandSucceeds \/ CommandFails \/ Ticked
Worker == \/ TakeEvent \/ BeginStart \/ Started \/ Discover \/ BeginCommand \/ NativeBegins
          \/ CommandReplies \/ PollPublishes \/ Notified \/ BeginShutdown \/ Disconnect
Reader == Dispatch \/ Called \/ PostNotification

Next == User \/ Gui \/ CancelAgain \/ Request \/ Worker \/ TimerFires \/ Reader \/ Changes \/ DaemonChanges

Spec == Init /\ [][Next]_vars

\* Both event loops run, the worker's gets to what is posted and to the timer in
\* every turn, however much there is of the other, and a wait that was cancelled ends.
\* Nothing says that a native operation ends by itself.
Fairness ==
  /\ SF_vars(TakeEvent) /\ SF_vars(TimerFires)
  /\ WF_vars(Gui \/ CancelAgain)
  /\ WF_vars(Worker \/ ((step = "cancelled" \/ usingIpc) /\ Request))
  /\ WF_vars(Reader)
FairSpec == Spec /\ Fairness

----------------------------------------------------------------------------
(* Properties.                                                             *)

\* What the user sees is the outcome of the last action: "busy" ends with that
\* action and no earlier one, an error is never that of an older action, and
\* when an action has succeeded what is shown includes what it did.
OutcomeIsOwn ==
  gui = "running" =>
    /\ ~busy => /\ \A i \in 1 .. Len(posted) : posted[i].kind # "command"
                /\ event.kind # "command"
                /\ lastError = Nothing => shown >= reply
    /\ lastError \in {Nothing, generation + 1}

\* A notification is never lost to coalescing: what was announced is published,
\* or an event that will publish it is still to come.
NotificationIsPublished ==
  announced <= published \/ stopped \/ gui = "gone"
    \/ reader = "posting" \/ Event("notify", 0) \in ToSet(posted) \/ event.kind = "notify"
    \/ (event.kind = "poll" /\ step = "publish")

\* No listener runs once the backend is gone.
CallbackIsSafe == gui = "gone" => reader \notin {"calling", "posting"}

NativeEnds == []<>(step # "native")

\* The user waits for an action no longer than for a native operation.
BusyEnds == NativeEnds => []<>(~busy \/ gui # "running")

Served == usingIpc => daemon = "up" /\ ~incompatible

\* start() ended with an error: it made no timer, and nothing makes one later.
StartFailed == ~timer /\ event.kind # "start" /\ Event("start", 0) \notin ToSet(posted)

\* With a headset or a daemon that can be asked, the display catches up, but for
\* an application whose start() failed: when the first publish() throws, because
\* the daemon found at the socket is gone again or another version, the display
\* is never polled, although that daemon may come back.
CatchesUp ==
  NativeEnds /\ <>[]Served => <>[](shown = truth \/ StartFailed \/ gui # "running")

\* Closing the application takes no longer than a cancelled operation, whenever
\* it is closed and whatever the worker is about to begin.
DestructorReturns == []<>(gui \notin {"stopping", "waiting"})

\* "a dead daemon must not leave the GUI displaying live data"
DeadDaemonIsShown == <>[](daemon = "dead" /\ gui = "running") => <>[](shown = Nothing)

=============================================================================
