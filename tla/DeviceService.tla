--------------------------- MODULE DeviceService ---------------------------
(***************************************************************************)
(* The connection lifecycle: sony::core::DeviceService and the part of     *)
(* SonyDevice that opens and closes a connection.                          *)
(*                                                                         *)
(* One thread calls the service (the IPC server's executor, or the GUI's   *)
(* worker) and the service mutex is held for a whole call, so calls do not *)
(* interleave with each other.  They do interleave with the radio: a       *)
(* connect takes seconds, and meanwhile the headset may come and go, the   *)
(* link may break and another thread may cancel the pending operation.  A  *)
(* call that opens a connection is therefore modelled step by step.        *)
(* connectionState() and the other observers take the mutex too: what a    *)
(* call assigns in passing is seen by nobody, and is left out.             *)
(*                                                                         *)
(* The steady clock enters as the three deadlines the service keeps; each  *)
(* is modelled by the time left to it, in units of which Second make one   *)
(* second: _now() >= _nextAttempt is nextAttempt = 0.                      *)
(*                                                                         *)
(* A definition named Wrong... is what a plausible mistake would make of   *)
(* the definition that follows it; no action uses it.                      *)
(***************************************************************************)
EXTENDS Naturals, FiniteSets

CONSTANTS
  Devices,        \* the headsets; their addresses are ordered as numbers
  NoDevice,       \* no headset: the empty address
  Paired,         \* the headsets the system's discovery lists, with a name
  Legacy,         \* the headsets that speak protocol V1
  Second,         \* clock units in a second, an even number of them
  SettingsDelay,  \* 5: seconds from a connection to its first maintenance step
  BatteryPeriod,  \* 30: seconds between two battery readings
  MaxRequests,    \* bound: connect() and disconnect() calls
  MaxFaults       \* bound: failures the headset's absence does not explain

ASSUME ServiceAssumption ==
  /\ Devices \subseteq Nat /\ Devices # {}
  /\ NoDevice \notin Devices
  /\ Paired \subseteq Devices
  /\ Legacy \subseteq Devices
  /\ Second \in Nat \ {0} /\ Second % 2 = 0
  /\ SettingsDelay \in Nat
  /\ BatteryPeriod \in Nat
  /\ MaxRequests \in Nat
  /\ MaxFaults \in Nat

VARIABLES
  automatic, target, selected,       \* _automatic, _target, _selected
  connectionState, wasConnected,     \* _connectionState, _wasConnected
  retrySeconds,                      \* _retrySeconds
  nextAttempt,                       \* time left to _nextAttempt
  nextSettings, nextBattery,         \* time left to _nextSettings, _nextBattery
  session,                           \* SonyDevice::_session
  version,                           \* SonyDevice::_version
  link,                              \* the headset the transport is open to
  call, stage,                       \* the call in progress, and how far it is
  untried, hinted,                   \* tick(): candidates left; those with a system link
  available,                         \* headsets in range and switched on
  requests, faults                   \* what is used of the bounds

userVars == <<automatic, target>>
deviceVars == <<session, version, link>>
timers == <<nextAttempt, nextSettings, nextBattery>>
callVars == <<call, stage, untried, hinted>>
environment == <<available, requests, faults>>
vars == <<automatic, target, selected, connectionState, wasConnected, retrySeconds,
          nextAttempt, nextSettings, nextBattery, session, version, link,
          call, stage, untried, hinted, available, requests, faults>>

----------------------------------------------------------------------------
(* State functions.                                                        *)

IsConnected == session = "running" /\ link # NoDevice
Idle == stage = "idle"

\* What connectionState() answers.
ReportedState ==
  IF connectionState = "connected" /\ ~IsConnected THEN "retrying" ELSE connectionState

\* getProfileForDevice: a headset without a (known) name is driven as V1.
WrongProfileVersion(d, named) ==
  IF named THEN IF d \in Legacy THEN "V1" ELSE "V2" ELSE version
ProfileVersion(d, named) == IF named /\ d \notin Legacy THEN "V2" ELSE "V1"

\* discoverDevices() lists headsets with a system connection first, then by address.
Before(d, e) ==
  \/ d \in hinted /\ e \notin hinted
  \/ (d \in hinted <=> e \in hinted) /\ d < e

\* SonyDevice::disconnect
WrongCloseDevice ==
  /\ session' = IF session = "none" THEN "none" ELSE "ended"
  /\ link' = IF IsConnected THEN NoDevice ELSE link
CloseDevice ==
  /\ session' = IF session = "none" THEN "none" ELSE "ended"
  /\ link' = NoDevice

\* A failure that the headset's absence does not explain: radio, cancelPending().
Fault ==
  /\ faults < MaxFaults
  /\ faults' = faults + 1
  /\ UNCHANGED <<available, requests>>

UserCalls ==
  /\ requests < MaxRequests
  /\ requests' = requests + 1
  /\ UNCHANGED <<available, faults>>

----------------------------------------------------------------------------
(* The programs call startAutoConnect(address) once, before anything else. *)

Init ==
  /\ automatic = TRUE /\ target \in Devices \cup {NoDevice}
  /\ selected = NoDevice
  /\ connectionState = "searching" /\ wasConnected = FALSE
  /\ retrySeconds = 1
  /\ nextAttempt = 0 /\ nextSettings = 0 /\ nextBattery = 0
  /\ session = "none" /\ version = "V1" /\ link = NoDevice
  /\ call = "none" /\ stage = "idle" /\ untried = {} /\ hinted = {}
  /\ available \in SUBSET Devices
  /\ requests = 0 /\ faults = 0

----------------------------------------------------------------------------
(* Opening one connection: _connect and SonyDevice::connect.               *)

\* Up to the call of the transport: a link there may be is closed, the
\* generation is resolved again and the old session is destroyed.
BeginConnect(d, named) ==
  /\ selected' = d
  /\ connectionState' = "connecting"
  /\ version' = ProfileVersion(d, named)
  /\ session' = "none"
  /\ link' = IF session = "none" THEN link ELSE NoDevice
  /\ stage' = "opening"

OpenLink ==
  /\ stage = "opening"
  /\ selected \in available
  /\ link' = selected
  /\ session' = "running"
  /\ stage' = "init"
  /\ UNCHANGED <<userVars, selected, connectionState, wasConnected, retrySeconds, timers,
                 version, call, untried, hinted, environment>>

\* initDevice() and refreshAll() swallow every error; then the link is tested.
Established ==
  /\ stage = "init"
  /\ IsConnected
  /\ wasConnected' = TRUE
  /\ connectionState' = "connected"
  /\ retrySeconds' = 1
  /\ nextSettings' = SettingsDelay * Second
  /\ nextBattery' = BatteryPeriod * Second
  /\ call' = "none" /\ stage' = "idle" /\ untried' = {} /\ hinted' = {}
  /\ UNCHANGED <<userVars, selected, nextAttempt, deviceVars, environment>>

\* The transport cannot open the link, or it is gone when it is tested.
ConnectThrows ==
  \/ /\ stage = "opening"
     /\ \/ selected \notin available /\ UNCHANGED environment
        \/ Fault
  \/ /\ stage = "init"
     /\ ~IsConnected
     /\ UNCHANGED environment

----------------------------------------------------------------------------
(* connect(address, name) and disconnect(), as the clients call them.      *)

WrongAccept(d) == target' = d /\ UNCHANGED automatic
Accept(d) == target' = d /\ automatic' = TRUE

Connect(d, named) ==
  /\ Idle
  /\ UserCalls
  /\ Accept(d)
  /\ retrySeconds' = 1
  /\ BeginConnect(d, named)
  /\ call' = "connect"
  /\ UNCHANGED <<wasConnected, timers, untried, hinted>>

RequestFails ==
  /\ call = "connect"
  /\ ConnectThrows
  /\ wasConnected' = FALSE
  /\ CloseDevice
  /\ connectionState' = "retrying"
  /\ nextAttempt' = Second
  /\ call' = "none" /\ stage' = "idle"
  /\ UNCHANGED <<userVars, selected, retrySeconds, nextSettings, nextBattery, version,
                 untried, hinted>>

Disconnect ==
  /\ Idle
  /\ UserCalls
  /\ automatic' = FALSE
  /\ wasConnected' = FALSE
  /\ connectionState' = "manually_disconnected"
  /\ CloseDevice
  /\ UNCHANGED <<target, selected, retrySeconds, timers, version, callVars>>

----------------------------------------------------------------------------
(* tick()                                                                  *)

Due(timer) == timer = 0

\* Connected: one settings inquiry and the battery, each when it is due.
Maintain ==
  /\ Idle
  /\ IsConnected
  /\ Due(nextSettings) \/ Due(nextBattery)
  /\ nextSettings' = IF Due(nextSettings) THEN Second \div 2 ELSE nextSettings
  /\ nextBattery' = IF Due(nextBattery) THEN BatteryPeriod * Second ELSE nextBattery
  /\ UNCHANGED <<userVars, selected, connectionState, wasConnected, retrySeconds,
                 nextAttempt, deviceVars, callVars, environment>>

WrongRoundIsDue == automatic /\ (wasConnected \/ Due(nextAttempt))
RoundIsDue == ~IsConnected /\ automatic /\ (wasConnected \/ Due(nextAttempt))

\* Not connected and a round is due: a link that was lost is closed first.
\* discoverDevices() may throw, and then there is nothing to try.
BeginRound(connected) ==
  /\ Idle
  /\ RoundIsDue
  /\ IF wasConnected THEN CloseDevice ELSE UNCHANGED <<session, link>>
  /\ wasConnected' = FALSE
  /\ nextAttempt' = 0
  /\ connectionState' = "searching"
  /\ call' = "tick" /\ stage' = "choose"
  /\ hinted' = connected
  /\ \/ /\ untried' = IF target = NoDevice THEN Paired ELSE {target}
        /\ UNCHANGED environment
     \/ /\ untried' = {}
        /\ Fault
  /\ UNCHANGED <<userVars, selected, retrySeconds, nextSettings, nextBattery, version>>

TryCandidate(d) ==
  /\ stage = "choose"
  /\ d \in untried
  /\ \A e \in untried : ~Before(e, d)
  /\ untried' = untried \ {d}
  /\ BeginConnect(d, d \in Paired)
  /\ UNCHANGED <<userVars, wasConnected, retrySeconds, timers, call, hinted, environment>>

CandidateFails ==
  /\ call = "tick"
  /\ ConnectThrows
  /\ CloseDevice
  /\ stage' = "choose"
  /\ UNCHANGED <<userVars, selected, connectionState, wasConnected, retrySeconds, timers,
                 version, call, untried, hinted>>

LongestDelay == 30
WrongDoubled(s) == 2 * s
WrongUndoubled(s) == s
Doubled(s) == IF 2 * s < LongestDelay THEN 2 * s ELSE LongestDelay

RoundFails ==
  /\ stage = "choose"
  /\ untried = {}
  /\ connectionState' = "retrying"
  /\ nextAttempt' = retrySeconds * Second
  /\ retrySeconds' = Doubled(retrySeconds)
  /\ call' = "none" /\ stage' = "idle" /\ hinted' = {}
  /\ UNCHANGED <<userVars, selected, wasConnected, nextSettings, nextBattery, deviceVars,
                 untried, environment>>

----------------------------------------------------------------------------
(* Around the service: the clock, the headsets and the link.               *)

Less(timer) == IF timer > 0 THEN timer - 1 ELSE 0

Advance ==
  /\ nextAttempt > 0 \/ nextSettings > 0 \/ nextBattery > 0
  /\ nextAttempt' = Less(nextAttempt)
  /\ nextSettings' = Less(nextSettings)
  /\ nextBattery' = Less(nextBattery)
  /\ UNCHANGED <<userVars, selected, connectionState, wasConnected, retrySeconds,
                 deviceVars, callVars, environment>>

ComesAndGoes ==
  /\ available' \in SUBSET Devices \ {available}
  /\ UNCHANGED <<userVars, selected, connectionState, wasConnected, retrySeconds, timers,
                 deviceVars, callVars, requests, faults>>

\* The link breaks: the session's reader ends and the host's end of the link
\* stays open, or the transport itself reports that the link is closed.
LinkBreaks ==
  /\ IsConnected
  /\ \/ link \notin available /\ UNCHANGED environment
     \/ Fault
  /\ \/ session' = "ended" /\ UNCHANGED link
     \/ link' = NoDevice /\ UNCHANGED session
  /\ UNCHANGED <<userVars, selected, connectionState, wasConnected, retrySeconds, timers,
                 version, callVars>>

----------------------------------------------------------------------------

Tick == Maintain \/ (\E connected \in SUBSET Paired : BeginRound(connected))

Step ==
  \/ OpenLink \/ Established \/ RequestFails
  \/ CandidateFails \/ RoundFails
  \/ \E d \in Devices : TryCandidate(d)

Next ==
  \/ Tick
  \/ Step
  \/ \E d \in Devices, named \in BOOLEAN : Connect(d, named)
  \/ Disconnect
  \/ Advance
  \/ ComesAndGoes
  \/ LinkBreaks

Spec == Init /\ [][Next]_vars

(***************************************************************************)
(* The executor calls tick() whenever its queue is empty, at least every   *)
(* 100 ms; every call it makes comes back, because the transport's opening *)
(* and the session's inquiries end by an answer or a deadline; time goes on.*)
(***************************************************************************)
Fairness == WF_vars(Tick) /\ WF_vars(Step) /\ WF_vars(Advance)

FairSpec == Spec /\ Fairness
=============================================================================
