---------------------------- MODULE LegacyClient ----------------------------
(***************************************************************************)
(* The ImGui client of Linux and Windows: CrossPlatformGUI on its own      *)
(* thread, Headphones and BluetoothWrapper below it, and the asynchronous  *)
(* calls the GUI makes, one at a time of each kind (SingleInstanceFuture). *)
(*                                                                         *)
(* BluetoothWrapper holds _connectorMtx for a whole exchange: it writes a  *)
(* command and reads messages until its acknowledgement or its answer, a   *)
(* failure, or 2.5 seconds without a byte.  What it learns is stored after *)
(* the mutex is free again.  The GUI draws frames; it takes the mutex only *)
(* to disconnect.                                                          *)
(*                                                                         *)
(* The noise control setting is a switch and a level (0 cancels noise, 1   *)
(* lets it in); focus on voice goes with the level.  Position and virtual  *)
(* surround are one setting.  Of the other features only who asks for them *)
(* counts.  Bytes read ahead are part of "wire": both end at disconnect(). *)
(* The numbers of the frames are left out: nothing in the client compares  *)
(* them, and the headset takes every command it receives.                  *)
(***************************************************************************)
EXTENDS Naturals, Sequences, SequencesExt

CONSTANTS
  Headsets,     \* [v2 : BOOLEAN, answers : SUBSET Features]
  Reads,        \* what the first refresh asks a V2 headset for, in order
  Probes,       \* what the probe asks for, in order
  MaxReads,     \* 16: messages an inquiry looks at
  MaxConnects,  \* bound: connections the user asks for
  MaxEvents     \* bound: other clicks, changes on the headset itself, and faults

Optional == {"autoPowerOff", "adaptiveVolume", "speakToChat"}
Features == Optional \cup {"init", "ambient", "ambientV1", "battery", "batterySides", "batteryCase",
                           "equalizer", "dsee", "firmware", "codec", "surround"}

ASSUME LegacyAssumption ==
  /\ Headsets \subseteq [v2 : BOOLEAN, answers : SUBSET Features]
  /\ {Reads, Probes} \subseteq Seq(Features)
  /\ MaxReads \in Nat \ {0} /\ {MaxConnects, MaxEvents} \subseteq Nat

VARIABLES
  gui, after,               \* where the frame is, and goes on after disconnect()
  synced, probed, initialized,
  ui,                       \* _uiAsmMode
  future, phase, todo,      \* the calls: state, step, and commands still to send
  current, desired,         \* the noise control Property
  surround,                 \* the other one
  has,                      \* _has...: optional features shown
  connected, headset, link, \* the connector
  mutex, looked,            \* who holds _connectorMtx; messages it has looked at
  requests, wire,           \* frames on their way to the headset and from it
  setting,                  \* the headset's own setting
  connects, events          \* what is used of the bounds

guiVars == <<gui, after, synced, probed, initialized, ui>>
taskVars == <<future, phase, todo>>
stateVars == <<current, desired, surround, has>>
connectorVars == <<connected, headset, link, mutex, looked>>
wireVars == <<requests, wire, setting>>
boundVars == <<connects, events>>
vars == <<gui, after, synced, probed, initialized, ui, future, phase, todo, current, desired,
          surround, has, connected, headset, link, mutex, looked, requests, wire,
          setting, connects, events>>

Tasks == {"connect", "refresh", "probe", "poll", "send", "feature"}
Nobody == "nobody"

Setting(on, level) == [on |-> on, level |-> level]
Off == Setting(FALSE, 0)
Mode(s) == IF s.on THEN s.level + 1 ELSE 0

Get(f) == [verb |-> "get", what |-> f, to |-> Off]
Set(f, s) == [verb |-> "set", what |-> f, to |-> s]
Ack == [kind |-> "ack", what |-> "init", says |-> Off]
Data(kind, f) == [kind |-> kind, what |-> f, says |-> setting[headset]]

Gets(features) == [i \in DOMAIN features |-> Get(features[i])]
Event == events < MaxEvents /\ events' = events + 1

Init ==
  /\ gui = "frame" /\ after = "frame"
  /\ synced = FALSE /\ probed = FALSE /\ initialized = FALSE /\ ui = 0
  /\ future = [t \in Tasks |-> "none"] /\ phase = [t \in Tasks |-> "next"]
  /\ todo = [t \in Tasks |-> <<>>]
  /\ current = Off /\ desired = Off /\ has = {}
  /\ surround = [current |-> "outOfRange", desired |-> "off"]
  /\ connected = FALSE /\ headset = (CHOOSE h \in Headsets : TRUE) /\ link = "none"
  /\ mutex = Nobody /\ looked = 0
  /\ requests = <<>> /\ wire = <<>>
  /\ setting = [h \in Headsets |-> Setting(TRUE, 1)]
  /\ connects = 0 /\ events = 0

----------------------------------------------------------------------------
(* A call and its commands.                                                *)

Running(t) == future[t] = "running"
Ended(t) == future[t] \in {"done", "failed", "broken"}
At(t, p) == Running(t) /\ phase[t] = p

\* The refresh and the probe catch what a command throws and go on with the next.
Guarded == {"refresh", "probe"}
Rest(t) == Tail(todo[t])
Skip(t) == IF Head(todo[t]).what = "battery"
           THEN SelectSeq(Rest(t), LAMBDA c : c.what \notin {"batterySides", "batteryCase"})
           ELSE Rest(t)

\* The call goes on with the commands that are left, or returns.
Continue(t, rest) ==
  /\ todo' = [todo EXCEPT ![t] = rest]
  /\ phase' = [phase EXCEPT ![t] = "next"]
  /\ future' = [future EXCEPT ![t] = IF rest = <<>> THEN "done" ELSE @]

WrongThrow(t, shouldDisconnect) == \* what was not answered is asked again
  IF t \in Guarded THEN Continue(t, todo[t])
  ELSE /\ future' = [future EXCEPT ![t] = IF shouldDisconnect THEN "broken" ELSE "failed"]
       /\ todo' = [todo EXCEPT ![t] = <<>>]
       /\ phase' = [phase EXCEPT ![t] = "next"]
Throw(t, shouldDisconnect) ==
  IF t \in Guarded THEN Continue(t, Rest(t))
  ELSE /\ future' = [future EXCEPT ![t] = IF shouldDisconnect THEN "broken" ELSE "failed"]
       /\ todo' = [todo EXCEPT ![t] = <<>>]
       /\ phase' = [phase EXCEPT ![t] = "next"]

Release == mutex' = Nobody /\ looked' = 0

\* sendCommand() and sendCommandAndReadResponse().
Transmit(t) ==
  /\ At(t, "next") /\ t # "connect" /\ todo[t] # <<>> /\ mutex = Nobody
  /\ IF link = "open"
     THEN /\ requests' = Append(requests, Head(todo[t]))
          /\ mutex' = t
          /\ phase' = [phase EXCEPT ![t] = "talking"]
          /\ UNCHANGED <<future, todo, looked>>
     ELSE Throw(t, TRUE) /\ UNCHANGED <<requests, mutex, looked>>
  /\ UNCHANGED <<guiVars, stateVars, connected, headset, link, wire, setting, boundVars>>

\* A command takes any message for its acknowledgement.
IsEvidence(command, m) ==
  command.verb = "set" \/ (m.kind = "answer" /\ m.what = command.what)

\* What a message fails with, by whether it takes the link with it: of a damaged frame,
\* a wrong checksum or size does and any other damage (an escape, too few bytes) does
\* not; a data frame is acknowledged as it is read, over a link that must be open.
Failures(m) ==
  IF m.kind = "damaged" THEN BOOLEAN
  ELSE IF m.kind # "ack" /\ link # "open" THEN {TRUE} ELSE {}

Read(t) ==
  /\ mutex = t /\ t # "connect" /\ wire # <<>>
  /\ LET m == Head(wire)
         command == Head(todo[t]) IN
     /\ CASE Failures(m) # {} -> Release /\ \E disconnects \in Failures(m) : Throw(t, disconnects)
          [] Failures(m) = {} /\ IsEvidence(command, m) ->
               /\ phase' = [phase EXCEPT ![t] = "storing"]
               /\ todo' = IF command.verb = "get" THEN [todo EXCEPT ![t][1].to = m.says] ELSE todo
               /\ Release /\ UNCHANGED future
          [] OTHER ->
               IF looked + 1 = MaxReads THEN Throw(t, TRUE) /\ Release
               ELSE looked' = looked + 1 /\ UNCHANGED <<mutex, future, todo, phase>>
  /\ wire' = Tail(wire)
  /\ UNCHANGED <<guiVars, stateVars, connected, headset, link, requests, setting, boundVars>>

\* 2.5 seconds without a byte, because none is to come or (a fault) it comes too late.
WrongTimeOut(t) == UNCHANGED vars \* the socket has no receive timeout
TimeOut(t) ==
  /\ mutex = t /\ t # "connect" /\ wire = <<>> /\ link = "open"
  /\ IF requests = <<>> THEN UNCHANGED events ELSE Event
  /\ Throw(t, FALSE) /\ Release
  /\ UNCHANGED <<guiVars, stateVars, connected, headset, link, wireVars, connects>>

\* The link is reset: recv() fails.  When it has "ended", recv() returns nothing
\* for ever, and the loop of _readMessage() with it.
ReadFails(t) ==
  /\ mutex = t /\ t # "connect" /\ wire = <<>> /\ link = "reset"
  /\ Throw(t, TRUE) /\ Release
  /\ UNCHANGED <<guiVars, stateVars, connected, headset, link, wireVars, boundVars>>

----------------------------------------------------------------------------
(* What the calls store, under _propertyMtx.                               *)

\* requestAmbientState(); a V1 answer is read and dropped.
StoreAmbient(s) == current' = s /\ desired' = s

StoreAnswer(t) ==
  /\ At(t, "storing") /\ Head(todo[t]).verb = "get"
  /\ LET f == Head(todo[t]).what IN
     /\ initialized' = (initialized \/ f = "init")
     /\ has' = IF f \in Optional THEN has \cup {f} ELSE has
     /\ IF f = "ambient" THEN StoreAmbient(Head(todo[t]).to) ELSE UNCHANGED <<current, desired>>
  /\ Continue(t, Skip(t))
  /\ UNCHANGED <<gui, after, synced, probed, ui, surround, connectorVars, wireVars, boundVars>>

\* set...() of the features that are sent at once.
StoreFeature ==
  /\ At("feature", "storing")
  /\ Continue("feature", <<>>)
  /\ UNCHANGED <<guiVars, stateVars, connectorVars, wireVars, boundVars>>

(* setChanges() reads what is desired without the mutex.                   *)

Goto(p) == phase' = [phase EXCEPT !["send"] = p]
SendKeeps == <<guiVars, has, connectorVars, wireVars, boundVars>>

CheckAmbient ==
  /\ At("send", "checking")
  /\ IF current = desired THEN Goto("surround") /\ UNCHANGED todo
     ELSE Goto("level") /\ todo' = [todo EXCEPT !["send"] = <<Set("ambient", desired)>>]
  /\ UNCHANGED <<future, current, desired, surround, SendKeeps>>

\* The switch may be of another moment than the level.
ReadLevel ==
  /\ At("send", "level")
  /\ todo' = [todo EXCEPT !["send"][1].to.level = desired.level]
  /\ Goto("next")
  /\ UNCHANGED <<future, current, desired, surround, SendKeeps>>

Fulfil ==
  /\ At("send", "storing") /\ Head(todo["send"]).what = "ambient"
  /\ current' = desired
  /\ todo' = [todo EXCEPT !["send"] = <<>>]
  /\ Goto("surround")
  /\ UNCHANGED <<future, desired, surround, SendKeeps>>

\* V1 only.
CheckSurround ==
  /\ At("send", "surround")
  /\ IF headset.v2 \/ surround.current = surround.desired THEN Continue("send", <<>>)
     ELSE Goto("preset") /\ UNCHANGED <<future, todo>>
  /\ UNCHANGED <<current, desired, surround, SendKeeps>>

\* "It's impossible" that nothing has changed any more.
ReadPreset ==
  /\ At("send", "preset")
  /\ IF surround.current = surround.desired THEN Throw("send", FALSE)
     ELSE /\ todo' = [todo EXCEPT !["send"] = <<Set("surround", Off)>>]
          /\ Goto("next") /\ UNCHANGED future
  /\ UNCHANGED <<current, desired, surround, SendKeeps>>

FulfilSurround ==
  /\ At("send", "storing") /\ Head(todo["send"]).what = "surround"
  /\ surround' = [surround EXCEPT !.current = surround.desired]
  /\ Continue("send", <<>>)
  /\ UNCHANGED <<current, desired, SendKeeps>>

\* connect(), which holds the mutex as long as it takes.
BeginConnect ==
  /\ At("connect", "next") /\ mutex = Nobody
  /\ mutex' = "connect" /\ phase' = [phase EXCEPT !["connect"] = "talking"]
  /\ UNCHANGED <<guiVars, future, todo, stateVars, connected, headset, link, looked, wireVars,
                 boundVars>>

Connects ==
  /\ At("connect", "talking")
  /\ connected' = TRUE /\ link' = "open"
  /\ headset' \in Headsets
  /\ Continue("connect", <<>>) /\ Release
  /\ UNCHANGED <<guiVars, stateVars, requests, wire, setting, boundVars>>

ConnectFails ==
  /\ At("connect", "talking") /\ Event
  /\ Throw("connect", TRUE) /\ Release
  /\ UNCHANGED <<guiVars, stateVars, connected, headset, link, wireVars, connects>>

----------------------------------------------------------------------------
(* The GUI thread: performGUIPass().                                       *)

Frame(from, to) == gui = from /\ gui' = to
Taken(t) == IF Ended(t) THEN "none" ELSE future[t]
Start(t, p, commands) ==
  /\ future' = [future EXCEPT ![t] = "running"]
  /\ phase' = [phase EXCEPT ![t] = p]
  /\ todo' = [todo EXCEPT ![t] = commands]

\* disconnect() waits for the mutex: the frame stops until a call lets go of it.
Leave(next) == gui' = "disconnecting" /\ after' = next
Disconnect ==
  /\ Frame("disconnecting", after) /\ mutex = Nobody
  /\ connected' = FALSE /\ link' = "none"
  /\ wire' = <<>> /\ requests' = <<>>
  /\ UNCHANGED <<after, synced, probed, initialized, ui, taskVars, stateVars, headset, mutex, looked,
                 setting, boundVars>>

\* A call that is over is taken; one that failed for good takes the link with it.
TakeCall(t, next) ==
  /\ Ended(t)
  /\ future' = [future EXCEPT ![t] = "none"]
  /\ IF future[t] = "broken" THEN Leave(next) ELSE gui' = next /\ UNCHANGED after
  /\ UNCHANGED <<phase, todo>>

guiKeeps == <<synced, probed, initialized, current, has, connectorVars, wireVars, connects>>

\* _drawDeviceDiscovery(); a frame without a connection forgets what it has synchronised.
Forget == synced' = FALSE /\ probed' = FALSE /\ initialized' = FALSE
discoveryKeeps == <<ui, current, desired, surround, has, connectorVars, wireVars>>
DrawDiscovery ==
  /\ gui = "frame" /\ ~connected /\ ~Ended("connect") /\ Forget
  /\ UNCHANGED <<gui, after, taskVars, connects, events, discoveryKeeps>>
ClickDisconnect ==
  /\ gui = "frame" /\ connected /\ Event /\ Leave("frame")
  /\ UNCHANGED <<synced, probed, initialized, taskVars, connects, discoveryKeeps>>
TakeConnect ==
  /\ gui = "frame" /\ ~connected /\ TakeCall("connect", "frame")
  /\ UNCHANGED <<synced, probed, initialized, connects, events, discoveryKeeps>>
ClickConnect ==
  /\ gui = "frame" /\ ~connected /\ future["connect"] = "none"
  /\ connects < MaxConnects /\ connects' = connects + 1
  /\ Start("connect", "next", <<>>) /\ Forget
  /\ UNCHANGED <<gui, after, events, discoveryKeeps>>

\* _pumpConnectionState(); "polls" when DYNAMIC_POLL_FRAMES have gone by.
Ambient == <<Get(IF headset.v2 THEN "ambient" ELSE "ambientV1")>>
Refresh == (IF initialized THEN <<>> ELSE <<Get("init")>>) \o Ambient
             \o IF headset.v2 THEN Gets(Reads) ELSE <<>>
Pump(polls) ==
  LET refreshes == ~synced /\ future["refresh"] = "none"
      probes == synced' /\ headset.v2 /\ ~probed /\ future["probe"] = "none"
      pollStarts == synced' /\ polls /\ Taken("poll") = "none"
      begins(t) == \/ t = "refresh" /\ refreshes
                   \/ t = "probe" /\ probes
                   \/ t = "poll" /\ pollStarts
      takes(t) == t = "refresh" \/ (synced' /\ t \in {"probe", "poll"})
      script(t) == IF t = "refresh" THEN Refresh ELSE IF t = "probe" THEN Gets(Probes) ELSE Ambient
      news == Ended("refresh") \/ (synced' /\ Ended("poll") /\ future["send"] = "none") IN
  /\ gui = "frame" /\ connected
  /\ synced' = (synced \/ Ended("refresh"))
  /\ polls => pollStarts
  /\ probed' = (probed \/ (synced' /\ Ended("probe")))
  /\ future' = [t \in Tasks |-> IF begins(t) THEN "running" ELSE IF takes(t) THEN Taken(t) ELSE future[t]]
  /\ todo' = [t \in Tasks |-> IF begins(t) THEN script(t) ELSE todo[t]]
  /\ phase' = [t \in Tasks |-> IF begins(t) THEN "next" ELSE phase[t]]
  /\ ui' = IF news THEN Mode(current) ELSE ui
  /\ gui' = IF synced' THEN "draw" ELSE "frame"
  /\ UNCHANGED <<after, initialized, stateVars, connectorVars, wireVars, boundVars>>

\* _drawASMControls(): what the interface shows is what is desired, in each frame.
DrawModes ==
  /\ Frame("draw", "send")
  /\ \/ UNCHANGED <<ui, events>>
     \/ Event /\ ui' \in (0 .. 2) \ {ui}
  /\ desired' = IF ui' = 0 THEN Setting(FALSE, desired.level) ELSE Setting(TRUE, ui' - 1)
  /\ UNCHANGED <<after, future, phase, todo, surround, guiKeeps>>

\* The other cards ("dsee" for the equalizer, too).  A command is dropped while
\* another of its kind is under way.
Shown == (IF headset.v2 THEN {"dsee"} ELSE {}) \cup has
ClickFeature(f) ==
  /\ Frame("draw", "draw") /\ Event /\ f \in Shown
  /\ IF future["feature"] = "none" THEN Start("feature", "next", <<Set(f, Off)>>)
     ELSE UNCHANGED <<future, phase, todo>>
  /\ UNCHANGED <<after, ui, desired, surround, guiKeeps>>
ClickSurround ==
  /\ Frame("draw", "draw") /\ Event /\ ~headset.v2
  /\ \E s \in {"off", "hall"} \ {surround.desired} : surround' = [surround EXCEPT !.desired = s]
  /\ UNCHANGED <<after, ui, desired, future, phase, todo, guiKeeps>>

\* _sendPendingASMChanges().
IsChanged == current # desired \/ surround.current # surround.desired
SendPending ==
  /\ gui = "send"
  /\ \/ TakeCall("feature", "send")
     \/ ~Ended("feature") /\ TakeCall("send", "frame")
     \/ /\ ~Ended("feature") /\ ~Ended("send")
        /\ Frame("send", "frame") /\ UNCHANGED after
        /\ IF future["send"] = "none" /\ IsChanged THEN Start("send", "checking", <<>>)
           ELSE UNCHANGED <<future, phase, todo>>
  /\ UNCHANGED <<ui, desired, surround, events, guiKeeps>>

----------------------------------------------------------------------------
(* The headset and the link.                                               *)

headsetKeeps == <<guiVars, taskVars, stateVars, connected, headset, mutex, looked, connects>>

\* It acknowledges each command.
HeadsetTakes ==
  /\ link = "open" /\ requests # <<>>
  /\ LET c == Head(requests)
         answers == c.verb = "get" /\ c.what \in headset.answers IN
     /\ setting' = IF c = Set("ambient", c.to) THEN [setting EXCEPT ![headset] = c.to] ELSE setting
     /\ wire' = wire \o <<Ack>> \o IF answers THEN <<Data("answer", c.what)>> ELSE <<>>
  /\ requests' = Tail(requests)
  /\ UNCHANGED <<headsetKeeps, link, events>>

\* Its button; it may or may not tell.
HeadsetChanges(s) ==
  /\ link = "open" /\ Event
  /\ s # setting[headset] /\ setting' = [setting EXCEPT ![headset] = s]
  /\ \/ UNCHANGED wire
     \/ wire' = Append(wire, Data("notice", "ambient"))
  /\ UNCHANGED <<headsetKeeps, link, requests>>

LoseRequest ==
  /\ link = "open" /\ requests # <<>> /\ Event
  /\ requests' = Tail(requests)
  /\ UNCHANGED <<headsetKeeps, link, wire, setting>>

\* A frame is damaged on its way, or sent once more.
Garble ==
  /\ link = "open" /\ wire # <<>> /\ Event
  /\ \/ wire' = [wire EXCEPT ![Len(wire)].kind = "damaged"]
     \/ Last(wire).kind # "ack" /\ wire' = Append(wire, Last(wire))
  /\ UNCHANGED <<headsetKeeps, link, requests, setting>>

LinkEnds ==
  /\ link = "open" /\ Event
  /\ link' \in {"reset", "ended"} /\ requests' = <<>>
  /\ UNCHANGED <<headsetKeeps, wire, setting>>

----------------------------------------------------------------------------
Gui == \/ DrawDiscovery \/ ClickDisconnect \/ TakeConnect \/ ClickConnect \/ Disconnect
       \/ (\E polls \in BOOLEAN : Pump(polls)) \/ DrawModes \/ SendPending
       \/ (\E f \in Features : ClickFeature(f)) \/ ClickSurround
SetChanges == CheckAmbient \/ ReadLevel \/ Fulfil \/ CheckSurround \/ ReadPreset \/ FulfilSurround
Exchange(t) == Read(t) \/ TimeOut(t) \/ ReadFails(t) \/ StoreAnswer(t)
Headset == \/ HeadsetTakes \/ LoseRequest \/ Garble \/ LinkEnds
           \/ \E s \in {Off, Setting(TRUE, 1)} : HeadsetChanges(s)

Next == \/ Gui \/ SetChanges \/ StoreFeature \/ BeginConnect \/ Connects \/ ConnectFails \/ Headset
        \/ \E t \in Tasks : Transmit(t) \/ Exchange(t)

Spec == Init /\ [][Next]_vars

\* Every thread runs and the headset serves what it receives.  The mutex need not be
\* fair: a call may lose it to the others for ever.
Fairness ==
  /\ WF_vars(Gui) /\ WF_vars(SetChanges) /\ WF_vars(StoreFeature)
  /\ WF_vars(BeginConnect) /\ WF_vars(Connects)
  /\ \A t \in Tasks \ {"connect"} : WF_vars(Transmit(t)) /\ WF_vars(Exchange(t))
  /\ WF_vars(HeadsetTakes)
FairSpec == Spec /\ Fairness

----------------------------------------------------------------------------
(* Properties.                                                             *)

\* The GUI draws frame after frame: disconnect() waits for the mutex only as long
\* as an exchange takes, whichever call has it.  Excepted is a link the headset has
\* ended: recv() returns 0, and _readMessage() reads on with the mutex held for ever.
FramesGoOn == []<>(gui = "frame" \/ link = "ended")

\* "One slow/unanswered reply can't block the others [...] and we always reach
\* _synced" (CrossPlatformGUI.cpp:182-184), also when the refresh of an earlier
\* connection is still under way.  Excepted is a link the headset has ended, on which
\* the refresh never comes out of recv().
Synchronises == []<>(synced \/ ~connected \/ link = "ended")
=============================================================================
