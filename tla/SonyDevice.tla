----------------------------- MODULE SonyDevice -----------------------------
(***************************************************************************)
(* The feature state of one headset: sony::core::SonyDevice with the       *)
(* conversations of ProtocolV1 and ProtocolV2 and the notification parser  *)
(* of DeviceEventDispatcher.                                               *)
(*                                                                         *)
(* Two threads change the state.  The driver (the server's executor, or    *)
(* the GUI's worker) connects, disconnects, writes a setting or refreshes  *)
(* features, one call at a time.  The session's reader hands over what the *)
(* headset sends: answers to whoever waits for them, everything else to    *)
(* _onNotification.  _stateMutex protects single assignments only, so what *)
(* one thread learned earlier may be stored after what the other learned   *)
(* later.                                                                  *)
(*                                                                         *)
(* The session appears as its callers see it (SonyProtocolSession has the  *)
(* rest): an inquiry waits for the answer with its key and takes one that  *)
(* was left unmatched at once, a command waits for any ACK, both give up   *)
(* at a deadline, and an answer nobody waits for is kept AND handed on as  *)
(* a notification.  A key is a feature and a part: only the battery has    *)
(* more parts than one.  A setting's payload is one of Values.             *)
(*                                                                         *)
(* A definition named Wrong... is what a plausible mistake would make of   *)
(* the definition that follows it; no action uses it.                      *)
(***************************************************************************)
EXTENDS Integers, Sequences, FiniteSets, SequencesExt

CONSTANTS
  Values,         \* what a setting can be
  NoValue,        \* an empty optional
  Profiles,       \* the profiles connect() may resolve to
  MaxConnections, \* bound: connect() calls
  MaxEvents       \* bound: set...() calls, changes made on the headset itself and
                  \* faults (an answer too late, a lost frame or link), together

Features == {"battery", "noiseControl", "equalizer", "dsee", "codec", "firmware",
             "speakToChat", "adaptiveVolume", "autoPowerOff"}
Parts == {"main", "sides", "case"}

\* What a device has before it is first connected.
UnknownProfile == [version |-> "V1", features |-> {}, earbuds |-> FALSE]

ASSUME DeviceAssumption ==
  /\ NoValue \notin Values /\ Values # {}
  /\ Profiles \subseteq [version: {"V1", "V2"}, features: SUBSET Features, earbuds: BOOLEAN]
  /\ \A p \in Profiles : p.version = "V1" =>
       p.features \cap {"dsee", "autoPowerOff", "adaptiveVolume"} = {}
  /\ {MaxConnections, MaxEvents} \subseteq Nat

VARIABLES
  profile, session,        \* _profile, _session
  connection,              \* how many sessions there have been
  stage,                   \* how far the driver's call is
  op, todo,                \* the exchange in progress; features to refresh after it
  script,                  \* messages the exchange has yet to send
  reading,                 \* the answers it has so far
  value, availability,     \* _state: the feature's value and its status
  succeeded,               \* _state: features whose lastSuccessMs is set
  origin,                  \* the connection a feature was last confirmed on
  refreshStep,             \* _refreshStep % 9
  pending, unmatched,      \* _pendingRequest, _unmatchedFrames
  acked,                   \* _hasAck
  reader, held,            \* the reader thread, and the frame it hands on
  unannounced,             \* a value was stored since the last DeviceStateChanged
  requests, wire,          \* frames on their way to the headset and from it
  truth,                   \* the headset's own settings
  writes, changes, faults  \* what is used of MaxEvents

stateVars == <<value, availability, succeeded, origin, unannounced>>
exchangeVars == <<op, todo, script, reading>>
sessionVars == <<pending, unmatched, acked>>
readerVars == <<reader, held>>
headsetVars == <<requests, wire, truth>>
boundVars == <<writes, changes, faults>>
vars == <<profile, session, connection, stage, op, todo, script, reading, value, availability,
          succeeded, origin, refreshStep, pending, unmatched, acked, reader, held,
          unannounced, requests, wire, truth, writes, changes, faults>>

----------------------------------------------------------------------------
(* Messages, and which of them each call of IProtocol exchanges.           *)

Key(f, part) == <<f, part>>
Ask(f, part) == [kind |-> "ask", key |-> Key(f, part), value |-> NoValue]
Write(f, v) == [kind |-> "write", key |-> Key(f, "main"), value |-> v]
Ack == [kind |-> "ack", key |-> Key("", ""), value |-> NoValue]
Answer(key, v) == [kind |-> "answer", key |-> key, value |-> v]
Notice(key, v) == [kind |-> "notice", key |-> key, value |-> v]

\* initDevice(): V1 polls the noise control, V2 sends its handshake.
InitScript(p) == IF p.version = "V1" THEN <<Ask("noiseControl", "main")>>
                                     ELSE <<Ask("handshake", "main")>>

\* getBattery() asks for one cell, then two, then the case; the others ask once.
GetBattery == <<Ask("battery", "main"), Ask("battery", "sides"), Ask("battery", "case")>>
GetScript(f) == IF f = "battery" THEN GetBattery ELSE <<Ask(f, "main")>>

\* The WF-1000XM4 is asked for the wind setting that its write has to repeat.
SetNoiseControl(v) ==
  IF profile.earbuds THEN {<<Ask("noiseControl", "main"), Write("noiseControl", v)>>}
                     ELSE {<<Write("noiseControl", v)>>}

\* A V1 headset is told how long to listen before it is told to.
SetSpeakToChat(v) ==
  LET config == [Write("speakToChat", v) EXCEPT !.key = Key("speakToChat", "config")]
  IN {<<Write("speakToChat", v)>>}
       \cup IF profile.version = "V1" THEN {<<config, Write("speakToChat", v)>>} ELSE {}

SetScripts(f, v) ==
  CASE f = "noiseControl" -> SetNoiseControl(v)
    [] f = "speakToChat" -> SetSpeakToChat(v)
    [] OTHER -> {<<Write(f, v)>>}

\* One cell that answers is all there is to know, except for the WF-1000XM4.
Rest(key) == IF key = Key("battery", "main") /\ ~profile.earbuds THEN <<>> ELSE Tail(script)

\* The notifications parseNotificationPayload() knows: the V1 battery has other
\* opcodes, and the V1 noise control a type that decodeNoiseControl() refuses.
Understood(key) ==
  \/ key[1] = "equalizer"
  \/ profile.version = "V2" /\ key[1] \in {"battery", "noiseControl"}

\* A reading of both sides also gives the main level.
Merge(old, part, v) ==
  [q \in Parts |-> IF q = part \/ (part = "sides" /\ q = "main") THEN v ELSE old[q]]

Blank == [q \in Parts |-> NoValue]
NoExchange == [kind |-> "none", feature |-> "", value |-> NoValue]
Exchange(kind, f, v) == [kind |-> kind, feature |-> f, value |-> v]
NoRequest == [key |-> Key("", ""), answer |-> NoValue]
NoFrame == Ack

IsConnected == session = "running"
Idle == stage = "idle"
MoreEvents == writes + changes + faults < MaxEvents

----------------------------------------------------------------------------
Init ==
  /\ profile = UnknownProfile /\ session = "none" /\ connection = 0
  /\ stage = "idle" /\ op = NoExchange /\ todo = <<>> /\ script = <<>> /\ reading = Blank
  /\ value = [f \in Features |-> Blank]
  /\ availability = [f \in Features |-> "unknown"]
  /\ succeeded = {} /\ origin = [f \in Features |-> 0] /\ unannounced = FALSE
  /\ refreshStep = 0
  /\ pending = NoRequest /\ unmatched = <<>> /\ acked = FALSE
  /\ reader = "idle" /\ held = NoFrame
  /\ requests = <<>> /\ wire = <<>>
  /\ truth = [f \in Features |-> CHOOSE v \in Values : TRUE]
  /\ writes = 0 /\ changes = 0 /\ faults = 0

----------------------------------------------------------------------------
(* _state: what the two threads store, and the events that follow.         *)

MarkSuccess(f) ==
  /\ availability' = [availability EXCEPT ![f] = "valid"]
  /\ succeeded' = succeeded \cup {f}
  /\ origin' = [origin EXCEPT ![f] = connection]

Store(f, v) ==
  /\ value' = [value EXCEPT ![f] = v]
  /\ MarkSuccess(f)
  /\ unannounced' = TRUE

MarkError(f) ==
  /\ availability' = [availability EXCEPT ![f] = IF f \in succeeded THEN "stale" ELSE "unknown"]
  /\ UNCHANGED <<value, succeeded, origin, unannounced>>

MarkStale ==
  availability' = [f \in Features |-> IF availability[f] = "valid" THEN "stale" ELSE availability[f]]

\* A listener that is told of a change takes a snapshot of its own.
Announce == /\ unannounced' = FALSE
            /\ UNCHANGED <<value, availability, succeeded, origin>>

----------------------------------------------------------------------------
(* The driver: one exchange of messages.                                   *)

Begin(kind, f, v, messages) ==
  /\ op' = Exchange(kind, f, v)
  /\ script' = messages
  /\ reading' = Blank
  /\ stage' = "sending"

\* The next refresh of refreshAll(), or the end of the call.
Continue ==
  IF todo # <<>>
  THEN /\ Begin("refresh", Head(todo), NoValue, GetScript(Head(todo)))
       /\ todo' = Tail(todo)
  ELSE /\ stage' = "idle" /\ op' = NoExchange /\ script' = <<>> /\ reading' = Blank
       /\ UNCHANGED todo

\* getBattery() swallows an exception and asks on; every other call ends with it.
Fail == LET rest == IF op.feature = "battery" /\ op.kind = "refresh" THEN Tail(script) ELSE <<>>
        IN /\ script' = rest
           /\ stage' = IF rest # <<>> THEN "sending"
                       ELSE IF op.feature = "battery" THEN "finished" ELSE "failed"
           /\ UNCHANGED <<op, todo, reading>>

IsAnswer(i, key) == unmatched[i].key = key
WrongWithout(i) == unmatched
Without(i) == RemoveAt(unmatched, i)

\* sendAndAwaitResponse(): the oldest unmatched answer is taken before the write.
Arm(key) ==
  LET found == {i \in DOMAIN unmatched : IsAnswer(i, key)}
      oldest == CHOOSE i \in found : \A j \in found : i <= j
  IN IF found = {}
     THEN /\ pending' = [key |-> key, answer |-> NoValue]
          /\ UNCHANGED unmatched
     ELSE /\ pending' = [key |-> key, answer |-> unmatched[oldest].value]
          /\ unmatched' = Without(oldest)

Send ==
  /\ stage = "sending" /\ IsConnected
  /\ IF Head(script).kind = "ask" THEN Arm(Head(script).key) ELSE UNCHANGED <<pending, unmatched>>
  /\ acked' = FALSE
  /\ requests' = Append(requests, Head(script))
  /\ stage' = "waiting"
  /\ UNCHANGED <<profile, session, connection, exchangeVars, stateVars, refreshStep, readerVars,
                 wire, truth, boundVars>>

\* isConnected() is tested before the write, and again when the wait ends.
Disconnected ==
  /\ stage \in {"sending", "waiting"} /\ ~IsConnected
  /\ pending' = NoRequest
  /\ Fail
  /\ UNCHANGED <<profile, session, connection, stateVars, refreshStep, unmatched, acked,
                 readerVars, headsetVars, boundVars>>

Receive ==
  /\ stage = "waiting" /\ IsConnected
  /\ Head(script).kind = "ask" /\ pending.answer # NoValue
  /\ reading' = Merge(reading, pending.key[2], pending.answer)
  /\ pending' = NoRequest
  /\ script' = Rest(pending.key)
  /\ stage' = IF script' = <<>> THEN "finished" ELSE "sending"
  /\ UNCHANGED <<profile, session, connection, op, todo, stateVars, refreshStep, unmatched,
                 acked, readerVars, headsetVars, boundVars>>

Acknowledged ==
  /\ stage = "waiting" /\ IsConnected
  /\ Head(script).kind = "write" /\ acked
  /\ script' = Tail(script)
  /\ stage' = IF script' = <<>> THEN "finished" ELSE "sending"
  /\ UNCHANGED <<profile, session, connection, op, todo, reading, stateVars, refreshStep,
                 sessionVars, readerVars, headsetVars, boundVars>>

\* What is waited for is still on its way.
Coming ==
  \/ requests # <<>>
  \/ \E i \in DOMAIN wire :
       IF Head(script).kind = "ask" THEN wire[i].kind = "answer" /\ wire[i].key = Head(script).key
                                    ELSE wire[i].kind = "ack"

\* The deadline passes; while an answer is on its way that is a fault of its own.
TimeOut ==
  /\ stage = "waiting" /\ IsConnected
  /\ IF Head(script).kind = "ask" THEN pending.answer = NoValue ELSE ~acked
  /\ IF Coming THEN MoreEvents /\ faults' = faults + 1 ELSE UNCHANGED faults
  /\ pending' = NoRequest
  /\ Fail
  /\ UNCHANGED <<profile, session, connection, stateVars, refreshStep, unmatched, acked,
                 readerVars, headsetVars, writes, changes>>

\* What a finished exchange has learned: the answers of a refresh, the value of a write.
Learned == IF op.kind = "set" THEN Merge(value[op.feature], "main", op.value) ELSE reading

WrongKeepReading ==
  /\ stage = "finished" /\ op.kind # "init" /\ Learned # Blank
  /\ value' = [value EXCEPT ![op.feature] = Learned]
  /\ MarkSuccess(op.feature)
  /\ unannounced' = TRUE
  /\ Continue
  /\ UNCHANGED <<profile, session, connection, refreshStep, sessionVars, readerVars,
                 headsetVars, boundVars>>
KeepReading ==
  /\ stage = "finished" /\ op.kind # "init" /\ Learned # Blank
  /\ Store(op.feature, Learned)
  /\ stage' = "announcing"
  /\ UNCHANGED <<profile, session, connection, exchangeVars, refreshStep, sessionVars,
                 readerVars, headsetVars, boundVars>>

DriverAnnounces ==
  /\ stage = "announcing"
  /\ Announce
  /\ Continue
  /\ UNCHANGED <<profile, session, connection, refreshStep, sessionVars, readerVars,
                 headsetVars, boundVars>>

\* A refresh that learned nothing leaves the value and marks it; the steps of
\* refreshSettingsStep() that end here dispatch an event, with nothing new in it.
NoReading ==
  /\ op.kind = "refresh"
  /\ stage = "failed" \/ (stage = "finished" /\ reading = Blank)
  /\ MarkError(op.feature)
  /\ Continue
  /\ UNCHANGED <<profile, session, connection, refreshStep, sessionVars, readerVars,
                 headsetVars, boundVars>>

\* A failed write is the caller's exception: the state stays as it was.
WriteFails ==
  /\ stage = "failed" /\ op.kind = "set"
  /\ Continue
  /\ UNCHANGED <<profile, session, connection, stateVars, refreshStep, sessionVars, readerVars,
                 headsetVars, boundVars>>

\* initDevice() is best effort: whatever it brought, refreshAll() follows.
Initialised ==
  /\ stage \in {"finished", "failed"} /\ op.kind = "init"
  /\ Continue
  /\ UNCHANGED <<profile, session, connection, stateVars, refreshStep, sessionVars, readerVars,
                 headsetVars, boundVars>>

----------------------------------------------------------------------------
(* The driver: its calls.                                                  *)

\* JsonProtocol::execute lets a write pass on a connection, for a supported feature.
\* The text commands of IpcProtocol::execute ask for the connection only; of what a
\* profile lacks ProtocolV1 refuses some by itself, and sends nothing.
JsonSettings == profile.features \ {"battery", "codec", "firmware"}
TextSettings == {"noiseControl", "equalizer", "dsee", "autoPowerOff"}
Refused == IF profile.version = "V1" THEN {"dsee", "autoPowerOff", "adaptiveVolume"} ELSE {}

Set(f, v) ==
  /\ Idle /\ IsConnected /\ MoreEvents
  /\ f \in (JsonSettings \cup TextSettings) \ Refused
  /\ writes' = writes + 1
  /\ \E messages \in SetScripts(f, v) : Begin("set", f, v, messages)
  /\ UNCHANGED <<profile, session, connection, todo, stateVars, refreshStep, sessionVars,
                 readerVars, headsetVars, changes, faults>>

Rotation == <<"noiseControl", "equalizer", "dsee", "codec", "firmware", "speakToChat",
              "adaptiveVolume", "autoPowerOff", "nothing">>

\* A step for a feature the profile lacks changes nothing: the model passes over it.
Supported(step) == Rotation[step + 1] \in profile.features
WrongIsDue(s) == Supported(s) /\ \A t \in 0 .. 8 : Supported(t) => s <= t
IsDue(s) ==
  /\ Supported(s)
  /\ \A t \in 0 .. 8 : Supported(t) => (t - refreshStep) % 9 >= (s - refreshStep) % 9

RefreshSettingsStep ==
  /\ Idle /\ IsConnected
  /\ \E s \in 0 .. 8 :
       /\ IsDue(s)
       /\ LET f == Rotation[s + 1] IN Begin("refresh", f, NoValue, GetScript(f))
       /\ refreshStep' = (s + 1) % 9
  /\ UNCHANGED <<profile, session, connection, todo, stateVars, sessionVars, readerVars,
                 headsetVars, boundVars>>

RefreshBattery ==
  /\ Idle /\ IsConnected /\ "battery" \in profile.features
  /\ Begin("refresh", "battery", NoValue, GetScript("battery"))
  /\ UNCHANGED <<profile, session, connection, todo, stateVars, refreshStep, sessionVars,
                 readerVars, headsetVars, boundVars>>

\* connect(): a session that is connected is disconnected first, any session is
\* destroyed, and both join the reader.
Connect(p) ==
  /\ Idle /\ connection < MaxConnections
  /\ profile' = p
  /\ session' = "closing" /\ stage' = "reconnecting"
  /\ requests' = <<>>
  /\ UNCHANGED <<connection, exchangeVars, stateVars, refreshStep, sessionVars, readerVars,
                 wire, truth, boundVars>>

\* Only then is the state that the old reader could still touch reset.
WrongResetState ==
  /\ stage = "reconnecting"
  /\ session' = "none" /\ stage' = "opening"
  /\ value' = [f \in Features |-> Blank]
  /\ availability' = [f \in Features |-> IF f \in profile.features THEN "unknown" ELSE "unsupported"]
  /\ succeeded' = {} /\ refreshStep' = 0
  /\ unmatched' = <<>> /\ wire' = <<>>
  /\ UNCHANGED <<profile, connection, exchangeVars, origin, unannounced, pending, acked,
                 readerVars, requests, truth, boundVars>>
ResetState ==
  /\ stage = "reconnecting" /\ reader = "idle"
  /\ session' = "none" /\ stage' = "opening"
  /\ value' = [f \in Features |-> Blank]
  /\ availability' = [f \in Features |-> IF f \in profile.features THEN "unknown" ELSE "unsupported"]
  /\ succeeded' = {} /\ refreshStep' = 0
  /\ unmatched' = <<>> /\ wire' = <<>>
  /\ UNCHANGED <<profile, connection, exchangeVars, origin, unannounced, pending, acked,
                 readerVars, requests, truth, boundVars>>

\* transport->connect() and _setupSession(); then initDevice() and refreshAll().
If(f) == IF f \in profile.features THEN <<f>> ELSE <<>>
Open ==
  /\ stage = "opening"
  /\ session' = "running" /\ connection' = connection + 1
  /\ Begin("init", "", NoValue, InitScript(profile))
  /\ todo' = If("battery") \o If("noiseControl") \o If("equalizer") \o If("dsee")
  /\ UNCHANGED <<profile, stateVars, refreshStep, sessionVars, readerVars, headsetVars, boundVars>>

OpenFails ==
  /\ stage = "opening" /\ MoreEvents
  /\ faults' = faults + 1
  /\ stage' = "idle"
  /\ UNCHANGED <<profile, session, connection, exchangeVars, stateVars, refreshStep, sessionVars,
                 readerVars, headsetVars, writes, changes>>

\* disconnect(): the reader is joined, then the valid features become stale.
Disconnect ==
  /\ Idle /\ session \in {"running", "lost"}
  /\ session' = "closing" /\ stage' = "disconnecting"
  /\ requests' = <<>>
  /\ UNCHANGED <<profile, connection, exchangeVars, stateVars, refreshStep, sessionVars,
                 readerVars, wire, truth, boundVars>>

Leave ==
  /\ stage = "disconnecting" /\ reader = "idle"
  /\ session' = "ended" /\ stage' = "idle"
  /\ MarkStale
  /\ unmatched' = <<>> /\ wire' = <<>>
  /\ UNCHANGED <<profile, connection, exchangeVars, value, succeeded, origin, unannounced,
                 refreshStep, pending, acked, readerVars, requests, truth, boundVars>>

----------------------------------------------------------------------------
(* The reader thread.  A session that stopped may still have frames of its *)
(* last read to go through before the reader ends.                         *)

Matches(frame) ==
  frame.kind = "answer" /\ frame.key = pending.key /\ pending.answer = NoValue

Reading == reader = "idle" /\ session \in {"running", "lost", "closing"} /\ wire # <<>>

TakeAck ==
  /\ Reading /\ Head(wire).kind = "ack"
  /\ acked' = TRUE
  /\ wire' = Tail(wire)
  /\ UNCHANGED <<profile, session, connection, stage, exchangeVars, stateVars, refreshStep,
                 pending, unmatched, readerVars, requests, truth, boundVars>>

TakeAnswer ==
  /\ Reading /\ Matches(Head(wire))
  /\ pending' = [pending EXCEPT !.answer = Head(wire).value]
  /\ wire' = Tail(wire)
  /\ UNCHANGED <<profile, session, connection, stage, exchangeVars, stateVars, refreshStep,
                 unmatched, acked, readerVars, requests, truth, boundVars>>

\* A frame nobody waits for is kept (of use if it is an answer) and handed on.
TakeUnmatched ==
  /\ Reading /\ Head(wire).kind # "ack" /\ ~Matches(Head(wire))
  /\ unmatched' = IF Head(wire).kind = "answer" THEN Append(unmatched, Head(wire)) ELSE unmatched
  /\ IF Understood(Head(wire).key) THEN reader' = "handing" /\ held' = Head(wire)
                                   ELSE UNCHANGED readerVars
  /\ wire' = Tail(wire)
  /\ UNCHANGED <<profile, session, connection, stage, exchangeVars, stateVars, refreshStep,
                 pending, acked, requests, truth, boundVars>>

\* _onNotification, whatever the profile says of the feature.
OnNotification ==
  /\ reader = "handing"
  /\ LET f == held.key[1] IN Store(f, Merge(value[f], held.key[2], held.value))
  /\ reader' = "announcing" /\ held' = NoFrame
  /\ UNCHANGED <<profile, session, connection, stage, exchangeVars, refreshStep, sessionVars,
                 headsetVars, boundVars>>

ReaderAnnounces ==
  /\ reader = "announcing"
  /\ Announce
  /\ reader' = "idle"
  /\ UNCHANGED <<profile, session, connection, stage, exchangeVars, refreshStep, sessionVars,
                 held, headsetVars, boundVars>>

----------------------------------------------------------------------------
(* The headset and the link.                                               *)

\* It acknowledges each frame, takes a write over if it has such a setting, and
\* answers an inquiry.
HeadsetTakes ==
  /\ IsConnected /\ requests # <<>>
  /\ LET r == Head(requests)
         f == r.key[1]
     IN IF r.kind = "write"
        THEN /\ wire' = Append(wire, Ack)
             /\ truth' = IF r.key[2] = "main" /\ f \in profile.features
                         THEN [truth EXCEPT ![f] = r.value] ELSE truth
        ELSE /\ wire' = wire \o <<Ack, Answer(r.key, IF f \in Features THEN truth[f]
                                                     ELSE CHOOSE v \in Values : TRUE)>>
             /\ UNCHANGED truth
  /\ requests' = Tail(requests)
  /\ UNCHANGED <<profile, session, connection, stage, exchangeVars, stateVars, refreshStep,
                 sessionVars, readerVars, boundVars>>

\* A frame that is damaged on its way is dropped.
LoseRequest ==
  /\ IsConnected /\ requests # <<>> /\ MoreEvents
  /\ faults' = faults + 1
  /\ requests' = Tail(requests)
  /\ UNCHANGED <<profile, session, connection, stage, exchangeVars, stateVars, refreshStep,
                 sessionVars, readerVars, wire, truth, writes, changes>>

\* Its wearer changes a setting; it may or may not tell.
HeadsetChanges(f, v) ==
  /\ MoreEvents /\ f \in profile.features /\ v # truth[f]
  /\ changes' = changes + 1
  /\ truth' = [truth EXCEPT ![f] = v]
  /\ \/ UNCHANGED wire
     \/ /\ IsConnected
        /\ \E part \in Parts :
             /\ part = "main" \/ f = "battery"
             /\ wire' = Append(wire, Notice(Key(f, part), v))
  /\ UNCHANGED <<profile, session, connection, stage, exchangeVars, stateVars, refreshStep,
                 sessionVars, readerVars, requests, writes, faults>>

LinkBreaks ==
  /\ IsConnected /\ MoreEvents
  /\ faults' = faults + 1
  /\ session' = "lost"
  /\ requests' = <<>>
  /\ UNCHANGED <<profile, connection, stage, exchangeVars, stateVars, refreshStep, sessionVars,
                 readerVars, wire, truth, writes, changes>>

----------------------------------------------------------------------------
Driver == \/ Send \/ Disconnected \/ Receive \/ Acknowledged \/ TimeOut
          \/ KeepReading \/ DriverAnnounces \/ NoReading \/ WriteFails \/ Initialised
          \/ ResetState \/ Open \/ OpenFails \/ Leave
User == \/ \E f \in Features, v \in Values : Set(f, v)
        \/ \E p \in Profiles : Connect(p)
        \/ Disconnect
Reader == TakeAck \/ TakeAnswer \/ TakeUnmatched \/ OnNotification \/ ReaderAnnounces
Headset == \/ HeadsetTakes \/ LoseRequest \/ LinkBreaks
           \/ \E f \in Features, v \in Values : HeadsetChanges(f, v)

Next == Driver \/ User \/ RefreshSettingsStep \/ RefreshBattery \/ Reader \/ Headset

Spec == Init /\ [][Next]_vars

\* Both threads run, the headset serves its requests, and tick() comes round to
\* a settings step (every 5 s) and to the battery (every 30 s) again and again.
Fairness ==
  /\ WF_vars(Driver) /\ WF_vars(Reader) /\ WF_vars(HeadsetTakes)
  /\ SF_vars(RefreshSettingsStep) /\ SF_vars(RefreshBattery)
FairSpec == Spec /\ Fairness

----------------------------------------------------------------------------
(* Properties.                                                             *)

\* A feature is "valid" only if the headset confirmed it on the connection the
\* device has now: not on an earlier one, by a reader that outlived it, and not
\* after disconnect().  (A transport ACK counts as a confirmation, and a text
\* command can get one for a feature the profile lacks.)
ValidIsOurs ==
  \A f \in Features : availability[f] = "valid" =>
    /\ origin[f] = connection
    /\ session \in {"running", "lost", "closing"}

\* Answers nobody has taken yet, by key.
Number(s, kind, key) == Cardinality({i \in DOMAIN s : s[i].kind = kind /\ s[i].key = key})
Outstanding(key) ==
  Number(requests, "ask", key) + Number(wire, "answer", key) + Number(unmatched, "answer", key)

\* A reading is at most as many inquiries old as deadlines were missed: every
\* answer that could be taken in place of a newer one is left from such a miss,
\* and is used up once.
ReadingsAreRecent ==
  \A key \in {Key(f, part) : f \in Features, part \in Parts} :
    Outstanding(key) <= faults + IF pending.key = key /\ pending.answer = NoValue THEN 1 ELSE 0

\* A stored value that no listener has been told of is about to be announced by
\* the thread that stored it: an event never runs ahead of its change.
NoSilentChange == unannounced => stage = "announcing" \/ reader = "announcing"

\* A feature is valid, and what is known of it is the headset's own setting.
Shown(f) == /\ availability[f] = "valid"
            /\ \A part \in Parts : value[f][part] \in {truth[f], NoValue}

\* Whatever was stored out of order, or answered late: while a connection lasts
\* and the headset's setting stays as it is, what is shown comes to agree with it.
Converges ==
  <>[]IsConnected => <>[](\A f \in profile.features : Shown(f))

=============================================================================
