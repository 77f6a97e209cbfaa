------------------------ MODULE DeviceServiceProofs ------------------------
(***************************************************************************)
(* Theorems about DeviceService, for every set of headsets, every clock    *)
(* unit and every bound: its types, then the links it opens, which         *)
(* headsets they go to, how they are driven, when they are open, and that  *)
(* the service is the supervisor that ConnectionSupervision describes.     *)
(***************************************************************************)
EXTENDS DeviceServiceProperties, TLAPS

RetryDelays == {1, 2, 4, 8, 16, 30}

LEMMA Durations ==
  /\ Second \in Nat /\ Second > 0 /\ Second \div 2 \in Nat
  /\ Second \in 0 .. LongestDelay * Second /\ 0 \in 0 .. LongestDelay * Second
  /\ SettingsDelay * Second \in Nat /\ BatteryPeriod * Second \in Nat
  /\ \A r \in RetryDelays : /\ r * Second \in 0 .. LongestDelay * Second
                            /\ Doubled(r) \in RetryDelays
<1>1. Second \in Nat /\ Second > 0 /\ SettingsDelay \in Nat /\ BatteryPeriod \in Nat
  BY ServiceAssumption DEF ServiceAssumption
<1>2. Second \div 2 \in Nat
  BY <1>1
<1>3. SettingsDelay * Second \in Nat /\ BatteryPeriod * Second \in Nat
  BY <1>1
<1>4. ASSUME NEW r \in RetryDelays PROVE Doubled(r) \in RetryDelays
  BY DEF RetryDelays, Doubled, LongestDelay
<1>5. ASSUME NEW r \in RetryDelays PROVE r * Second \in 0 .. LongestDelay * Second
  <2>1. CASE r = 1
    BY <1>1, <2>1 DEF LongestDelay
  <2>2. CASE r = 2
    BY <1>1, <2>2 DEF LongestDelay
  <2>3. CASE r = 4
    BY <1>1, <2>3 DEF LongestDelay
  <2>4. CASE r = 8
    BY <1>1, <2>4 DEF LongestDelay
  <2>5. CASE r = 16
    BY <1>1, <2>5 DEF LongestDelay
  <2>6. CASE r = 30
    BY <1>1, <2>6 DEF LongestDelay
  <2>7. QED
    BY <2>1, <2>2, <2>3, <2>4, <2>5, <2>6 DEF RetryDelays
<1>6. Second \in 0 .. LongestDelay * Second /\ 0 \in 0 .. LongestDelay * Second
  BY <1>1 DEF LongestDelay
<1>7. QED
  BY <1>1, <1>2, <1>3, <1>4, <1>5, <1>6

LEMMA LessType ==
  /\ \A t \in Nat : Less(t) \in Nat
  /\ \A t \in 0 .. LongestDelay * Second : Less(t) \in 0 .. LongestDelay * Second
BY Durations DEF Less, LongestDelay

LEMMA FaultCounted ==
  ASSUME TypeOK, Fault
  PROVE  faults' \in 0 .. MaxFaults /\ available' = available /\ requests' = requests
BY ServiceAssumption DEF ServiceAssumption, TypeOK, Fault

LEMMA RequestCounted ==
  ASSUME TypeOK, UserCalls
  PROVE  requests' \in 0 .. MaxRequests /\ available' = available /\ faults' = faults
BY ServiceAssumption DEF ServiceAssumption, TypeOK, UserCalls

\* A connection that fails changes the environment by a fault at most.
LEMMA ThrowCounted ==
  ASSUME TypeOK, ConnectThrows
  PROVE  faults' \in 0 .. MaxFaults /\ available' = available /\ requests' = requests
<1>1. CASE Fault
  BY <1>1, FaultCounted
<1>2. CASE UNCHANGED environment
  BY <1>2 DEF environment, TypeOK
<1>3. QED
  BY <1>1, <1>2 DEF ConnectThrows

LEMMA CloseType ==
  ASSUME TypeOK, CloseDevice
  PROVE  session' \in {"none", "ended"} /\ link' = NoDevice
BY DEF TypeOK, CloseDevice

-----------------------------------------------------------------------------
(* The type invariant. *)

LEMMA StepTypes == ASSUME TypeOK, Step PROVE TypeOK'
<1>1. CASE OpenLink
  BY <1>1 DEF TypeOK, OpenLink, MaybeDevice, userVars, timers, environment
<1>2. CASE Established
  <2>1. retrySeconds' = 1 /\ nextSettings' \in Nat /\ nextBattery' \in Nat
    BY <1>2, Durations DEF Established
  <2>2. UNCHANGED <<automatic, target, selected, nextAttempt, session, version, link, available,
                    requests, faults>>
    BY <1>2 DEF Established, userVars, deviceVars, environment
  <2>3. /\ wasConnected' = TRUE /\ connectionState' = "connected" /\ call' = "none"
        /\ stage' = "idle" /\ untried' = {} /\ hinted' = {}
    BY <1>2 DEF Established
  <2>4. QED
    BY <2>1, <2>2, <2>3 DEF TypeOK
<1>3. CASE RequestFails
  <2>1. faults' \in 0 .. MaxFaults /\ available' = available /\ requests' = requests
    BY <1>3, ThrowCounted DEF RequestFails
  <2>2. session' \in {"none", "ended"} /\ link' = NoDevice
    BY <1>3, CloseType DEF RequestFails
  <2>3. nextAttempt' \in 0 .. LongestDelay * Second
    BY <1>3, Durations DEF RequestFails
  <2>4. UNCHANGED <<automatic, target, selected, retrySeconds, nextSettings, nextBattery, version,
                    untried, hinted>>
    BY <1>3 DEF RequestFails, userVars
  <2>5. wasConnected' = FALSE /\ connectionState' = "retrying" /\ call' = "none" /\ stage' = "idle"
    BY <1>3 DEF RequestFails
  <2>6. QED
    BY <2>1, <2>2, <2>3, <2>4, <2>5 DEF TypeOK, MaybeDevice
<1>4. CASE CandidateFails
  <2>1. faults' \in 0 .. MaxFaults /\ available' = available /\ requests' = requests
    BY <1>4, ThrowCounted DEF CandidateFails
  <2>2. session' \in {"none", "ended"} /\ link' = NoDevice
    BY <1>4, CloseType DEF CandidateFails
  <2>3. UNCHANGED <<automatic, target, selected, connectionState, wasConnected, retrySeconds,
                    nextAttempt, nextSettings, nextBattery, version, call, untried, hinted>>
    BY <1>4 DEF CandidateFails, userVars, timers
  <2>4. stage' = "choose"
    BY <1>4 DEF CandidateFails
  <2>5. QED
    BY <2>1, <2>2, <2>3, <2>4 DEF TypeOK, MaybeDevice
<1>5. CASE RoundFails
  <2>1. retrySeconds' \in RetryDelays /\ nextAttempt' \in 0 .. LongestDelay * Second
    BY <1>5, Durations DEF RoundFails, TypeOK, RetryDelays
  <2>2. UNCHANGED <<automatic, target, selected, wasConnected, nextSettings, nextBattery,
                    session, version, link, untried, available, requests, faults>>
    BY <1>5 DEF RoundFails, userVars, deviceVars, environment
  <2>3. connectionState' = "retrying" /\ call' = "none" /\ stage' = "idle" /\ hinted' = {}
    BY <1>5 DEF RoundFails
  <2>4. QED
    BY <2>1, <2>2, <2>3 DEF TypeOK, RetryDelays
<1>6. ASSUME NEW d \in Devices, TryCandidate(d) PROVE TypeOK'
  <2>1. UNCHANGED <<automatic, target, wasConnected, retrySeconds, nextAttempt, nextSettings,
                    nextBattery, call, hinted, available, requests, faults>>
    BY <1>6 DEF TryCandidate, userVars, timers, environment
  <2>2. /\ selected' = d /\ connectionState' = "connecting" /\ version' \in {"V1", "V2"}
        /\ session' = "none" /\ link' \in {link, NoDevice} /\ stage' = "opening"
        /\ untried' \subseteq untried
    BY <1>6 DEF TryCandidate, BeginConnect, ProfileVersion
  <2>3. QED
    BY <2>1, <2>2 DEF TypeOK, MaybeDevice
<1>7. QED
  BY <1>1, <1>2, <1>3, <1>4, <1>5, <1>6 DEF Step

LEMMA ClientTypes ==
  ASSUME TypeOK, Disconnect \/ \E d \in Devices, named \in BOOLEAN : Connect(d, named)
  PROVE  TypeOK'
<1>1. CASE Disconnect
  <2>1. requests' \in 0 .. MaxRequests /\ available' = available /\ faults' = faults
    BY <1>1, RequestCounted DEF Disconnect
  <2>2. session' \in {"none", "ended"} /\ link' = NoDevice
    BY <1>1, CloseType DEF Disconnect
  <2>3. UNCHANGED <<target, selected, retrySeconds, nextAttempt, nextSettings, nextBattery,
                    version, call, stage, untried, hinted>>
    BY <1>1 DEF Disconnect, timers, callVars
  <2>4. /\ automatic' = FALSE /\ wasConnected' = FALSE
        /\ connectionState' = "manually_disconnected"
    BY <1>1 DEF Disconnect
  <2>5. automatic' \in BOOLEAN /\ wasConnected' \in BOOLEAN /\ link' \in MaybeDevice
    BY <2>2, <2>4 DEF MaybeDevice
  <2>6. QED
    BY <2>1, <2>2, <2>3, <2>4, <2>5 DEF TypeOK
<1>2. ASSUME NEW d \in Devices, NEW named \in BOOLEAN, Connect(d, named) PROVE TypeOK'
  <2>1. requests' \in 0 .. MaxRequests /\ available' = available /\ faults' = faults
    BY <1>2, RequestCounted DEF Connect
  <2>2. UNCHANGED <<wasConnected, nextAttempt, nextSettings, nextBattery, untried, hinted>>
    BY <1>2 DEF Connect, timers
  <2>3. /\ automatic' = TRUE /\ target' = d /\ retrySeconds' = 1 /\ call' = "connect"
        /\ selected' = d /\ connectionState' = "connecting" /\ version' \in {"V1", "V2"}
        /\ session' = "none" /\ link' \in {link, NoDevice} /\ stage' = "opening"
    BY <1>2 DEF Connect, Accept, BeginConnect, ProfileVersion
  <2>4. QED
    BY <2>1, <2>2, <2>3 DEF TypeOK, MaybeDevice
<1>3. QED
  BY <1>1, <1>2

LEMMA TickTypes == ASSUME TypeOK, Tick PROVE TypeOK'
<1>1. CASE Maintain
  <2>1. nextSettings' \in Nat /\ nextBattery' \in Nat
    BY <1>1, Durations DEF Maintain, TypeOK
  <2>2. UNCHANGED <<automatic, target, selected, connectionState, wasConnected, retrySeconds,
                    nextAttempt, session, version, link, call, stage, untried, hinted,
                    available, requests, faults>>
    BY <1>1 DEF Maintain, userVars, deviceVars, callVars, environment
  <2>3. QED
    BY <2>1, <2>2 DEF TypeOK
<1>2. ASSUME NEW connected \in SUBSET Paired, BeginRound(connected) PROVE TypeOK'
  <2>1. Paired \subseteq Devices /\ 0 \in 0 .. LongestDelay * Second
    BY ServiceAssumption, Durations DEF ServiceAssumption
  <2>2. /\ faults' \in 0 .. MaxFaults /\ available' = available /\ requests' = requests
        /\ untried' \subseteq Devices
    <3>1. CASE Fault /\ untried' = {}
      BY <3>1, FaultCounted
    <3>2. CASE UNCHANGED environment /\ untried' = IF target = NoDevice THEN Paired ELSE {target}
      BY <3>2, <2>1 DEF environment, TypeOK, MaybeDevice
    <3>3. QED
      BY <1>2, <3>1, <3>2 DEF BeginRound
  <2>3. session' \in {"none", "running", "ended"} /\ link' \in MaybeDevice
    <3>1. CASE wasConnected
      BY <1>2, <3>1, CloseType DEF BeginRound, MaybeDevice
    <3>2. CASE ~wasConnected
      BY <1>2, <3>2 DEF BeginRound, TypeOK
    <3>3. QED
      BY <3>1, <3>2
  <2>4. UNCHANGED <<automatic, target, selected, retrySeconds, nextSettings, nextBattery, version>>
    BY <1>2 DEF BeginRound, userVars
  <2>5. /\ wasConnected' = FALSE /\ nextAttempt' = 0 /\ connectionState' = "searching"
        /\ call' = "tick" /\ stage' = "choose" /\ hinted' \subseteq Devices
    BY <1>2, <2>1 DEF BeginRound
  <2>6. QED
    BY <2>1, <2>2, <2>3, <2>4, <2>5 DEF TypeOK
<1>3. QED
  BY <1>1, <1>2 DEF Tick

LEMMA OutsideTypes ==
  ASSUME TypeOK, Advance \/ ComesAndGoes \/ LinkBreaks
  PROVE  TypeOK'
<1>1. CASE Advance
  <2>1. nextSettings' \in Nat /\ nextBattery' \in Nat /\ nextAttempt' \in 0 .. LongestDelay * Second
    BY <1>1, LessType DEF Advance, TypeOK
  <2>2. UNCHANGED <<automatic, target, selected, connectionState, wasConnected, retrySeconds,
                    session, version, link, call, stage, untried, hinted, available,
                    requests, faults>>
    BY <1>1 DEF Advance, userVars, deviceVars, callVars, environment
  <2>3. QED
    BY <2>1, <2>2 DEF TypeOK
<1>2. CASE ComesAndGoes
  BY <1>2 DEF TypeOK, ComesAndGoes, userVars, timers, deviceVars, callVars
<1>3. CASE LinkBreaks
  <2>1. faults' \in 0 .. MaxFaults /\ available' = available /\ requests' = requests
    <3>1. CASE Fault
      BY <3>1, FaultCounted
    <3>2. CASE UNCHANGED environment
      BY <3>2 DEF environment, TypeOK
    <3>3. QED
      BY <1>3, <3>1, <3>2 DEF LinkBreaks
  <2>2. session' \in {session, "ended"} /\ link' \in {link, NoDevice}
    BY <1>3 DEF LinkBreaks
  <2>3. UNCHANGED <<automatic, target, selected, connectionState, wasConnected, retrySeconds,
                    nextAttempt, nextSettings, nextBattery, version, call, stage, untried, hinted>>
    BY <1>3 DEF LinkBreaks, userVars, timers, callVars
  <2>4. QED
    BY <2>1, <2>2, <2>3 DEF TypeOK, MaybeDevice
<1>4. QED
  BY <1>1, <1>2, <1>3

\* Every variable of the service keeps its type: the retry delay stays one of
\* the six documented ones and no deadline is farther than the longest.
THEOREM ServiceTypeCorrect == Spec => []TypeOK
<1>1. Init => TypeOK
  <2>1. 0 \in 0 .. LongestDelay * Second /\ 0 \in 0 .. MaxRequests /\ 0 \in 0 .. MaxFaults
    BY ServiceAssumption, Durations DEF ServiceAssumption
  <2> SUFFICES ASSUME Init PROVE TypeOK
    OBVIOUS
  <2>2. /\ automatic \in BOOLEAN /\ wasConnected \in BOOLEAN
        /\ connectionState = "searching" /\ retrySeconds = 1
        /\ session = "none" /\ version = "V1" /\ call = "none" /\ stage = "idle"
    BY DEF Init
  <2>3. /\ target \in MaybeDevice /\ selected \in MaybeDevice /\ link \in MaybeDevice
        /\ untried \subseteq Devices /\ hinted \subseteq Devices /\ available \subseteq Devices
    BY DEF Init, MaybeDevice
  <2>4. /\ nextAttempt \in 0 .. LongestDelay * Second
        /\ nextSettings \in Nat /\ nextBattery \in Nat
        /\ requests \in 0 .. MaxRequests /\ faults \in 0 .. MaxFaults
    BY <2>1 DEF Init
  <2>5. QED
    BY <2>2, <2>3, <2>4 DEF TypeOK
<1>2. TypeOK /\ [Next]_vars => TypeOK'
  <2>1. ASSUME TypeOK, Next PROVE TypeOK'
    BY <2>1, StepTypes, ClientTypes, TickTypes, OutsideTypes DEF Next
  <2>2. ASSUME TypeOK, UNCHANGED vars PROVE TypeOK'
    BY <2>2 DEF TypeOK, vars
  <2>3. QED
    BY <2>1, <2>2
<1>3. QED
  BY <1>1, <1>2, PTL DEF Spec

-----------------------------------------------------------------------------
(* The links. *)

\* A call in progress wants a link; only tick() chooses among candidates.
Progress ==
  /\ Idle <=> call = "none"
  /\ ~Idle => automatic
  /\ stage = "choose" => call = "tick"

\* A connection being opened goes to a headset the user accepts, driven as its
\* generation, and nothing else is open meanwhile.
Opening ==
  /\ OpensFromClosed
  /\ session = "none" => link = NoDevice
  /\ stage \in {"opening", "init"} =>
       /\ selected \in Devices
       /\ target # NoDevice => selected = target
       /\ version = "V2" => selected \notin Legacy
       /\ link \in {NoDevice, selected}

\* A round was due when it began, and an explicit target is its only candidate.
Round ==
  call = "tick" =>
    /\ ~wasConnected
    /\ nextAttempt = 0
    /\ target # NoDevice => untried \subseteq {target}

\* An explicit request starts the schedule over.
Request == call = "connect" => retrySeconds = 1

\* A session left running is one the service remembers, and will close.
Remembered == Idle /\ session = "running" => wasConnected

LinkInv ==
  /\ TypeOK /\ Progress /\ Opening /\ Round /\ Request /\ Remembered
  /\ NeverPowersOff /\ NoStrayLink

NoLinkToNothing == NoDevice \notin Devices /\ NoDevice \notin Legacy

LEMMA Nothing == NoLinkToNothing
BY ServiceAssumption DEF ServiceAssumption, NoLinkToNothing

-----------------------------------------------------------------------------
(* Every action keeps the link invariant (its types apart). *)

LinkParts ==
  /\ Progress /\ Opening /\ Round /\ Request /\ Remembered
  /\ NeverPowersOff /\ NoStrayLink

LEMMA BeginKeeps ==
  ASSUME LinkInv, NEW d \in Devices, NEW named \in BOOLEAN, BeginConnect(d, named),
         call' \in {"tick", "connect"}, automatic', target' # NoDevice => d = target',
         Round', Request'
  PROVE  LinkParts'
<1>1. /\ selected' = d /\ session' = "none" /\ stage' = "opening" /\ link' = NoDevice
      /\ version' = "V2" => d \notin Legacy
  BY DEF BeginConnect, ProfileVersion, LinkInv, Opening
<1>2. Progress'
  BY <1>1 DEF Progress, Idle
<1>3. Opening'
  BY <1>1 DEF Opening, OpensFromClosed
<1>4. Remembered' /\ NeverPowersOff' /\ NoStrayLink'
  BY <1>1, Nothing DEF NoLinkToNothing, Remembered, NeverPowersOff, NoStrayLink, Idle
<1>5. QED
  BY <1>2, <1>3, <1>4 DEF LinkParts

\* What every call that closes the device leaves behind.
LEMMA CloseKeeps ==
  ASSUME LinkInv, CloseDevice, Progress', Round', Request', stage' \in {"idle", "choose"}
  PROVE  LinkParts'
<1>1. link' = NoDevice /\ session' # "running"
  BY DEF CloseDevice
<1>2. Opening' /\ Remembered'
  BY <1>1 DEF Opening, OpensFromClosed, Remembered
<1>3. NeverPowersOff' /\ NoStrayLink'
  BY <1>1, Nothing DEF NoLinkToNothing, NeverPowersOff, NoStrayLink
<1>4. QED
  BY <1>2, <1>3 DEF LinkParts

LEMMA StepKeeps == ASSUME LinkInv, Step PROVE LinkParts'
<1> USE DEF LinkInv
<1>1. CASE OpenLink
  <2>1. /\ stage = "opening" /\ stage' = "init" /\ link' = selected /\ session' = "running"
        /\ UNCHANGED <<automatic, target, selected, wasConnected, retrySeconds, nextAttempt,
                       version, call, untried>>
    BY <1>1 DEF OpenLink, userVars, timers
  <2>2. Progress' /\ Round' /\ Request'
    BY <2>1 DEF Progress, Idle, Round, Request
  <2>3. Opening' /\ Remembered' /\ NeverPowersOff' /\ NoStrayLink'
    BY <2>1 DEF Opening, OpensFromClosed, Remembered, NeverPowersOff, NoStrayLink, Idle
  <2>4. QED
    BY <2>2, <2>3 DEF LinkParts
<1>2. CASE Established
  <2>1. /\ stage = "init" /\ stage' = "idle" /\ call' = "none" /\ wasConnected' = TRUE
        /\ connectionState' = "connected"
        /\ UNCHANGED <<automatic, target, selected, session, version, link>>
    BY <1>2 DEF Established, userVars, deviceVars
  <2>2. Progress' /\ Round' /\ Request' /\ Remembered'
    BY <2>1 DEF Progress, Idle, Round, Request, Remembered
  <2>3. Opening' /\ NeverPowersOff'
    BY <2>1 DEF Opening, OpensFromClosed, NeverPowersOff
  <2>4. NoStrayLink'
    BY <2>1 DEF NoStrayLink, Opening, Progress, Idle
  <2>5. QED
    BY <2>2, <2>3, <2>4 DEF LinkParts
<1>3. CASE RequestFails
  <2>1. /\ CloseDevice /\ stage' = "idle" /\ call' = "none"
    BY <1>3 DEF RequestFails
  <2>2. Progress' /\ Round' /\ Request'
    BY <2>1 DEF Progress, Idle, Round, Request
  <2>3. QED
    BY <2>1, <2>2, CloseKeeps
<1>4. CASE CandidateFails
  <2>1. /\ CloseDevice /\ call = "tick" /\ stage' = "choose"
        /\ UNCHANGED <<automatic, target, wasConnected, nextAttempt, call, untried>>
    BY <1>4 DEF CandidateFails, userVars, timers
  <2>2. Progress' /\ Round' /\ Request'
    BY <2>1 DEF Progress, Idle, Round, Request
  <2>3. QED
    BY <2>1, <2>2, CloseKeeps
<1>5. CASE RoundFails
  <2>1. /\ stage = "choose" /\ stage' = "idle" /\ call' = "none"
        /\ UNCHANGED <<session, link, version>>
    BY <1>5 DEF RoundFails, deviceVars
  <2>2. link = NoDevice /\ session # "running"
    BY <2>1 DEF Opening, OpensFromClosed
  <2>3. Progress' /\ Round' /\ Request' /\ Remembered' /\ Opening'
    BY <2>1, <2>2 DEF Progress, Idle, Round, Request, Remembered, Opening, OpensFromClosed
  <2>4. NeverPowersOff' /\ NoStrayLink'
    BY <2>1, <2>2, Nothing DEF NoLinkToNothing, NeverPowersOff, NoStrayLink
  <2>5. QED
    BY <2>3, <2>4 DEF LinkParts
<1>6. ASSUME NEW d \in Devices, TryCandidate(d) PROVE LinkParts'
  <2>1. /\ stage = "choose" /\ d \in untried /\ untried' \subseteq untried
        /\ BeginConnect(d, d \in Paired)
        /\ UNCHANGED <<automatic, target, wasConnected, retrySeconds, nextAttempt, call>>
    BY <1>6 DEF TryCandidate, userVars, timers
  <2>2. call = "tick" /\ automatic
    BY <2>1 DEF Progress, Idle
  <2>3. Round' /\ Request' /\ (target' # NoDevice => d = target')
    BY <2>1, <2>2 DEF Round, Request
  <2>4. (d \in Paired) \in BOOLEAN
    OBVIOUS
  <2>5. call' = "tick" /\ automatic'
    BY <2>1, <2>2
  <2>6. QED
    BY <2>1, <2>3, <2>4, <2>5, BeginKeeps
<1>7. QED
  BY <1>1, <1>2, <1>3, <1>4, <1>5, <1>6 DEF Step

LEMMA ClientKeeps ==
  ASSUME LinkInv, Disconnect \/ \E d \in Devices, named \in BOOLEAN : Connect(d, named)
  PROVE  LinkParts'
<1>1. CASE Disconnect
  <2>1. Idle /\ stage' = stage /\ call' = call /\ CloseDevice
    BY <1>1 DEF Disconnect, callVars
  <2>2. Progress' /\ Round' /\ Request'
    BY <2>1 DEF LinkInv, Progress, Idle, Round, Request
  <2>3. QED
    BY <2>1, <2>2, CloseKeeps DEF Idle
<1>2. ASSUME NEW d \in Devices, NEW named \in BOOLEAN, Connect(d, named) PROVE LinkParts'
  <2>1. BeginConnect(d, named) /\ call' = "connect" /\ automatic' = TRUE /\ target' = d
        /\ retrySeconds' = 1
    BY <1>2 DEF Connect, Accept
  <2>2. Round' /\ Request'
    BY <2>1 DEF Round, Request
  <2>3. QED
    BY <2>1, <2>2, BeginKeeps
<1>3. QED
  BY <1>1, <1>2

LEMMA TickKeeps == ASSUME LinkInv, Tick PROVE LinkParts'
<1>1. CASE Maintain
  <2>1. UNCHANGED <<automatic, target, selected, connectionState, wasConnected, retrySeconds,
                    nextAttempt, session, version, link, call, stage, untried>>
    BY <1>1 DEF Maintain, userVars, deviceVars, callVars
  <2>2. QED
    BY <2>1 DEF LinkInv, LinkParts, Progress, Idle, Opening, OpensFromClosed, Round, Request,
       Remembered, NeverPowersOff, NoStrayLink
<1>2. ASSUME NEW connected \in SUBSET Paired, BeginRound(connected) PROVE LinkParts'
  <2>1. /\ Idle /\ ~IsConnected /\ automatic /\ call' = "tick" /\ stage' = "choose"
        /\ wasConnected' = FALSE /\ nextAttempt' = 0
        /\ UNCHANGED <<automatic, target, selected, version>>
        /\ target # NoDevice => untried' \subseteq {target}
    BY <1>2 DEF BeginRound, RoundIsDue, userVars
  <2>2. Progress' /\ Round' /\ Request'
    BY <2>1 DEF Progress, Idle, Round, Request
  <2>3. CASE wasConnected
    BY <1>2, <2>1, <2>2, <2>3, CloseKeeps DEF BeginRound
  <2>4. CASE ~wasConnected
    <3>1. UNCHANGED <<session, link>> /\ link = NoDevice /\ session # "running"
      BY <1>2, <2>1, <2>4 DEF BeginRound, LinkInv, NoStrayLink, Remembered
    <3>2. Opening' /\ Remembered' /\ NeverPowersOff' /\ NoStrayLink'
      BY <2>1, <3>1, Nothing DEF NoLinkToNothing, Opening, OpensFromClosed, Remembered, Idle,
         NeverPowersOff, NoStrayLink
    <3>3. QED
      BY <2>2, <3>2 DEF LinkParts
  <2>5. QED
    BY <2>3, <2>4
<1>3. QED
  BY <1>1, <1>2 DEF Tick

LEMMA OutsideKeeps ==
  ASSUME LinkInv, Advance \/ ComesAndGoes \/ LinkBreaks
  PROVE  LinkParts'
<1>1. CASE Advance \/ ComesAndGoes
  <2>1. UNCHANGED <<automatic, target, selected, connectionState, wasConnected, retrySeconds,
                    session, version, link, call, stage, untried>>
    BY <1>1 DEF Advance, ComesAndGoes, userVars, deviceVars, callVars
  <2>2. nextAttempt' \in {nextAttempt, Less(nextAttempt)}
    BY <1>1 DEF Advance, ComesAndGoes, timers
  <2>3. Round'
    BY <2>1, <2>2 DEF LinkInv, Round, Less
  <2>4. QED
    BY <2>1, <2>3 DEF LinkInv, LinkParts, Progress, Idle, Opening, OpensFromClosed, Request,
       Remembered, NeverPowersOff, NoStrayLink
<1>2. CASE LinkBreaks
  <2>1. UNCHANGED <<automatic, target, selected, connectionState, wasConnected, retrySeconds,
                    nextAttempt, version, call, stage, untried>>
    BY <1>2 DEF LinkBreaks, userVars, timers, callVars
  <2>2. IsConnected /\ \/ session' = "ended" /\ link' = link
                       \/ link' = NoDevice /\ session' = session
    BY <1>2 DEF LinkBreaks
  <2>3. Progress' /\ Round' /\ Request'
    BY <2>1 DEF LinkInv, Progress, Idle, Round, Request
  <2>4. Opening' /\ Remembered' /\ NoStrayLink'
    BY <2>1, <2>2 DEF LinkInv, Opening, OpensFromClosed, Remembered, Idle, NoStrayLink,
       IsConnected
  <2>5. NeverPowersOff'
    BY <2>1, <2>2, Nothing DEF NoLinkToNothing, LinkInv, NeverPowersOff
  <2>6. QED
    BY <2>3, <2>4, <2>5 DEF LinkParts
<1>3. QED
  BY <1>1, <1>2

LEMMA NextKeeps == ASSUME LinkInv, Next PROVE LinkParts'
BY StepKeeps, ClientKeeps, TickKeeps, OutsideKeeps DEF Next

\* The link invariant holds throughout.
THEOREM LinkInvariant == Spec => []LinkInv
<1>1. Init /\ TypeOK => LinkInv
  BY Nothing DEF NoLinkToNothing, Init, LinkInv, Progress, Idle, Opening, OpensFromClosed,
     Round, Request, Remembered, NeverPowersOff, NoStrayLink
<1>2. LinkInv /\ TypeOK' /\ [Next]_vars => LinkInv'
  <2>1. ASSUME LinkInv, TypeOK', Next PROVE LinkInv'
    BY <2>1, NextKeeps DEF LinkInv, LinkParts
  <2>2. ASSUME LinkInv, TypeOK', UNCHANGED vars PROVE LinkInv'
    <3>1. UNCHANGED <<automatic, target, selected, connectionState, wasConnected, retrySeconds,
                      nextAttempt, session, version, link, call, stage, untried>>
      BY <2>2 DEF vars
    <3>2. QED
      BY <2>2, <3>1 DEF LinkInv, Progress, Idle, Opening, OpensFromClosed, Round, Request,
         Remembered, NeverPowersOff, NoStrayLink
  <2>3. QED
    BY <2>1, <2>2
<1>3. QED
  BY <1>1, <1>2, ServiceTypeCorrect, PTL DEF Spec

\* No V1 headset is ever driven as V2: opcode 0x22 would switch it off.
THEOREM LegacyStaysOn == Spec => []NeverPowersOff
<1>1. LinkInv => NeverPowersOff
  BY DEF LinkInv
<1>2. QED
  BY LinkInvariant, <1>1, PTL

\* SonyDevice::connect opens the transport only when it is closed.
THEOREM OneLinkAtATime == Spec => []OpensFromClosed
<1>1. LinkInv => OpensFromClosed
  BY DEF LinkInv, Opening
<1>2. QED
  BY LinkInvariant, <1>1, PTL

\* Between calls an open link is the one the service has selected and will use.
THEOREM LinksAreOwned == Spec => []NoStrayLink
<1>1. LinkInv => NoStrayLink
  BY DEF LinkInv
<1>2. QED
  BY LinkInvariant, <1>1, PTL

-----------------------------------------------------------------------------
(* No step of the service gives up a link that works. *)

LEMMA StepsBreakNothing ==
  ASSUME LinkInv, IsConnected, Next, requests' = requests, faults' = faults, link \in available
  PROVE  IsConnected'
<1>1. CASE Step
  <2>1. stage # "opening" /\ stage # "choose"
    BY DEF LinkInv, Opening, OpensFromClosed, IsConnected
  <2>2. ~ConnectThrows
    BY <2>1 DEF ConnectThrows
  <2>3. Established
    BY <1>1, <2>1, <2>2 DEF Step, OpenLink, RequestFails, CandidateFails, RoundFails, TryCandidate
  <2>4. QED
    BY <2>3 DEF Established, deviceVars, IsConnected
<1>2. CASE Tick
  <2>1. Maintain
    BY <1>2 DEF Tick, BeginRound, RoundIsDue
  <2>2. QED
    BY <2>1 DEF Maintain, deviceVars, IsConnected
<1>3. ~Disconnect /\ ~(\E d \in Devices, named \in BOOLEAN : Connect(d, named))
  <2>1. requests \in Nat
    BY ServiceAssumption DEF ServiceAssumption, LinkInv, TypeOK
  <2>2. ~UserCalls
    BY <2>1 DEF UserCalls
  <2>3. QED
    BY <2>2 DEF Disconnect, Connect
<1>4. CASE Advance \/ ComesAndGoes
  BY <1>4 DEF Advance, ComesAndGoes, deviceVars, IsConnected
<1>5. ~LinkBreaks
  <2>1. faults \in Nat
    BY ServiceAssumption DEF ServiceAssumption, LinkInv, TypeOK
  <2>2. ~Fault
    BY <2>1 DEF Fault
  <2>3. QED
    BY <2>2 DEF LinkBreaks
<1>6. QED
  BY <1>1, <1>2, <1>3, <1>4, <1>5 DEF Next

\* A working link is given up because a client asks, the headset goes or the
\* radio fails, never by a timer or a round of the service's own.
THEOREM LinksAreKept == Spec => KeepsWorkingLink
<1>1. LinkInv /\ [Next]_vars =>
        [IsConnected /\ ~IsConnected' =>
           requests' # requests \/ faults' # faults \/ link \notin available]_vars
  BY StepsBreakNothing
<1>2. QED
  BY <1>1, LinkInvariant, PTL DEF Spec, KeepsWorkingLink

-----------------------------------------------------------------------------
(* DeviceService implements ConnectionSupervision. *)

LEMMA Schedule ==
  /\ RoundsFailed(1) = 0
  /\ \A r \in RetryDelays : /\ Supervisor!DelayAfter(RoundsFailed(r)) = r * Second
                            /\ Supervisor!OneMore(RoundsFailed(r)) = RoundsFailed(Doubled(r))
<1>1. /\ RoundsFailed(1) = 0 /\ RoundsFailed(2) = 1 /\ RoundsFailed(4) = 2
      /\ RoundsFailed(8) = 3 /\ RoundsFailed(16) = 4 /\ RoundsFailed(30) = 5
  BY DEF RoundsFailed
<1>2. /\ Doubled(1) = 2 /\ Doubled(2) = 4 /\ Doubled(4) = 8
      /\ Doubled(8) = 16 /\ Doubled(16) = 30 /\ Doubled(30) = 30
  BY DEF Doubled, LongestDelay
<1>3. /\ DocumentedDelays \in Seq(Nat) /\ Len(DocumentedDelays) = 6
      /\ DocumentedDelays[1] = 1 /\ DocumentedDelays[2] = 2 /\ DocumentedDelays[3] = 4
      /\ DocumentedDelays[4] = 8 /\ DocumentedDelays[5] = 16 /\ DocumentedDelays[6] = 30
  BY DEF DocumentedDelays
<1>4. /\ InUnits(DocumentedDelays) \in Seq(Nat) /\ Len(InUnits(DocumentedDelays)) = 6
      /\ \A i \in 1 .. 6 : InUnits(DocumentedDelays)[i] = DocumentedDelays[i] * Second
  <2>1. DOMAIN DocumentedDelays = 1 .. 6 /\ \A i \in 1 .. 6 : DocumentedDelays[i] \in Nat
    BY <1>3
  <2>2. \A m \in Nat : m * Second \in Nat
    BY Durations
  <2>3. InUnits(DocumentedDelays) = [i \in 1 .. 6 |-> DocumentedDelays[i] * Second]
    BY <2>1 DEF InUnits
  <2>4. \A i \in 1 .. 6 : DocumentedDelays[i] * Second \in Nat
    BY <2>1, <2>2
  <2>5. /\ [i \in 1 .. 6 |-> DocumentedDelays[i] * Second] \in Seq(Nat)
        /\ Len([i \in 1 .. 6 |-> DocumentedDelays[i] * Second]) = 6
    BY <2>4
  <2>6. QED
    BY <2>3, <2>5
<1>5. \A n \in 0 .. 5 :
        /\ Supervisor!DelayAfter(n) = InUnits(DocumentedDelays)[n + 1]
        /\ Supervisor!OneMore(n) = IF n < 5 THEN n + 1 ELSE 5
  BY <1>4 DEF Supervisor!DelayAfter, Supervisor!OneMore
<1>6. ASSUME NEW i \in 0 .. 5
      PROVE  LET r == DocumentedDelays[i + 1]
             IN  RoundsFailed(r) = i /\ RoundsFailed(Doubled(r)) = IF i < 5 THEN i + 1 ELSE 5
  BY <1>1, <1>2, <1>3
<1>7. \A r \in RetryDelays : \E i \in 0 .. 5 : r = DocumentedDelays[i + 1]
  BY <1>3 DEF RetryDelays
<1>8. ASSUME NEW r \in RetryDelays
      PROVE  /\ Supervisor!DelayAfter(RoundsFailed(r)) = r * Second
             /\ Supervisor!OneMore(RoundsFailed(r)) = RoundsFailed(Doubled(r))
  <2>1. PICK i \in 0 .. 5 : r = DocumentedDelays[i + 1]
    BY <1>7
  <2>2. RoundsFailed(r) = i /\ RoundsFailed(Doubled(r)) = IF i < 5 THEN i + 1 ELSE 5
    BY <1>6, <2>1
  <2>3. Supervisor!DelayAfter(i) = r * Second
    BY <1>4, <1>5, <2>1
  <2>4. QED
    BY <1>5, <2>2, <2>3
<1>9. QED
  BY <1>1, <1>8

\* What the mapped variables are made of.
LEMMA Unmoved ==
  ASSUME UNCHANGED <<automatic, target, link, session, stage, wasConnected, call, nextAttempt,
                     retrySeconds>>
  PROVE  UNCHANGED Supervisor!vars
BY DEF Supervisor!vars, Wanted, Linked, TimeLeft, Idle, IsConnected

\* During a call nothing is linked, and nothing is waited for.
LEMMA InCall ==
  ASSUME LinkInv, ~Idle
  PROVE  Linked = NoDevice /\ TimeLeft = 0 /\ automatic
BY DEF LinkInv, TypeOK, Progress, Round, Linked, TimeLeft

LEMMA StepSupervises == ASSUME LinkInv, Step PROVE [Supervisor!Next]_(Supervisor!vars)
<1>1. CASE OpenLink
  <2>1. UNCHANGED <<automatic, target, wasConnected, call, nextAttempt, retrySeconds>>
    BY <1>1 DEF OpenLink, userVars, timers
  <2>2. ~Idle /\ ~Idle'
    BY <1>1 DEF OpenLink, Idle
  <2>3. QED
    BY <2>1, <2>2 DEF Supervisor!vars, Wanted, Linked, TimeLeft
<1>2. CASE Established
  <2>1. /\ ~Idle /\ Idle' /\ IsConnected /\ IsConnected' /\ call' = "none"
        /\ wasConnected' = TRUE /\ retrySeconds' = 1 /\ link' = link
        /\ UNCHANGED <<automatic, target>>
    BY <1>2 DEF Established, Idle, IsConnected, userVars, deviceVars
  <2>2. Linked = NoDevice /\ TimeLeft = 0 /\ automatic
    BY <2>1, InCall
  <2>3. link \in Wanted
    BY <1>2, <2>1, <2>2 DEF Established, LinkInv, Opening, Wanted, IsConnected
  <2>4. Linked' = link /\ TimeLeft' = 0 /\ Wanted' = Wanted
    BY <2>1 DEF Linked, TimeLeft, Wanted
  <2>5. RoundsFailed(retrySeconds)' = 0
    BY <2>1, Schedule
  <2>6. Supervisor!Succeed
    BY <2>1, <2>2, <2>3, <2>4, <2>5 DEF Supervisor!Succeed
  <2>7. QED
    BY <2>6 DEF Supervisor!Next
<1>3. CASE RequestFails
  <2>1. /\ call = "connect" /\ Idle' /\ link' = NoDevice /\ call' = "none"
        /\ wasConnected' = FALSE /\ nextAttempt' = Second
        /\ UNCHANGED <<automatic, target, retrySeconds>>
    BY <1>3 DEF RequestFails, Idle, CloseDevice, userVars
  <2>2. ~Idle /\ retrySeconds = 1
    BY <2>1 DEF LinkInv, Progress, Request
  <2>3. Linked = NoDevice /\ TimeLeft = 0 /\ automatic
    BY <2>2, InCall
  <2>4. Linked' = NoDevice /\ TimeLeft' = Second /\ Wanted' = Wanted
    BY <2>1, <2>3 DEF Linked, TimeLeft, Wanted
  <2>5. RoundsFailed(retrySeconds) = 0 /\ Supervisor!DelayAfter(0) = Second
    BY <2>2, Schedule, Durations DEF RetryDelays
  <2>6. RoundsFailed(retrySeconds)' = RoundsFailed(retrySeconds)
    BY <2>1
  <2>7. Supervisor!RequestFails
    BY <2>1, <2>3, <2>4, <2>5, <2>6 DEF Supervisor!RequestFails
  <2>8. QED
    BY <2>7 DEF Supervisor!Next
<1>4. CASE CandidateFails
  <2>1. UNCHANGED <<automatic, target, wasConnected, call, nextAttempt, retrySeconds>>
    BY <1>4 DEF CandidateFails, userVars, timers
  <2>2. ~Idle /\ ~Idle'
    BY <1>4 DEF CandidateFails, Idle, LinkInv, Progress
  <2>3. QED
    BY <2>1, <2>2 DEF Supervisor!vars, Wanted, Linked, TimeLeft
<1>5. CASE RoundFails
  <2>1. /\ stage = "choose" /\ Idle' /\ call' = "none" /\ nextAttempt' = retrySeconds * Second
        /\ retrySeconds' = Doubled(retrySeconds)
        /\ UNCHANGED <<automatic, target, wasConnected, link, session>>
    BY <1>5 DEF RoundFails, Idle, userVars, deviceVars
  <2>2. ~Idle /\ call = "tick" /\ link = NoDevice /\ ~wasConnected
    BY <2>1 DEF LinkInv, Progress, Idle, Opening, OpensFromClosed, Round
  <2>3. Linked = NoDevice /\ TimeLeft = 0 /\ automatic
    BY <2>2, InCall
  <2>4. Linked' = NoDevice /\ TimeLeft' = retrySeconds * Second /\ Wanted' = Wanted
    BY <2>1, <2>2, <2>3 DEF Linked, TimeLeft, Wanted
  <2>5. Wanted # {}
    BY <2>3, ServiceAssumption DEF ServiceAssumption, Wanted
  <2>6. /\ Supervisor!DelayAfter(RoundsFailed(retrySeconds)) = retrySeconds * Second
        /\ RoundsFailed(retrySeconds)' = Supervisor!OneMore(RoundsFailed(retrySeconds))
    BY <2>1, Schedule DEF LinkInv, TypeOK, RetryDelays
  <2>7. Supervisor!Fail
    BY <2>1, <2>2, <2>3, <2>4, <2>5, <2>6 DEF Supervisor!Fail
  <2>8. QED
    BY <2>7 DEF Supervisor!Next
<1>6. ASSUME NEW d \in Devices, TryCandidate(d) PROVE UNCHANGED Supervisor!vars
  <2>1. UNCHANGED <<automatic, target, wasConnected, call, nextAttempt, retrySeconds>>
    BY <1>6 DEF TryCandidate, userVars, timers
  <2>2. ~Idle /\ ~Idle'
    BY <1>6 DEF TryCandidate, BeginConnect, Idle
  <2>3. QED
    BY <2>1, <2>2 DEF Supervisor!vars, Wanted, Linked, TimeLeft
<1>7. QED
  BY <1>1, <1>2, <1>3, <1>4, <1>5, <1>6 DEF Step

LEMMA ClientSupervises ==
  ASSUME LinkInv, Disconnect \/ \E d \in Devices, named \in BOOLEAN : Connect(d, named)
  PROVE  Supervisor!Next
<1>1. CASE Disconnect
  <2>1. /\ automatic' = FALSE /\ link' = NoDevice /\ retrySeconds' = retrySeconds
        /\ call' # "connect"
    BY <1>1 DEF Disconnect, CloseDevice, callVars, Idle, LinkInv, Progress
  <2>2. Wanted' = {} /\ Linked' = NoDevice /\ TimeLeft' = 0
    BY <2>1 DEF Wanted, Linked, TimeLeft
  <2>3. RoundsFailed(retrySeconds)' = RoundsFailed(retrySeconds)
    BY <2>1
  <2>4. Supervisor!Release
    BY <2>1, <2>2, <2>3 DEF Supervisor!Release
  <2>5. QED
    BY <2>4 DEF Supervisor!Next
<1>2. ASSUME NEW d \in Devices, NEW named \in BOOLEAN, Connect(d, named) PROVE Supervisor!Next
  <2>1. /\ automatic' = TRUE /\ target' = d /\ retrySeconds' = 1 /\ call' = "connect"
        /\ stage' = "opening"
    BY <1>2 DEF Connect, Accept, BeginConnect
  <2>2. Wanted' = {d} /\ Linked' = NoDevice /\ TimeLeft' = 0
    BY <2>1, Nothing DEF NoLinkToNothing, Wanted, Linked, TimeLeft, Idle
  <2>3. RoundsFailed(retrySeconds)' = 0
    BY <2>1, Schedule
  <2>4. Supervisor!Request
    BY <2>1, <2>2, <2>3 DEF Supervisor!Request
  <2>5. QED
    BY <2>4 DEF Supervisor!Next
<1>3. QED
  BY <1>1, <1>2

LEMMA TickSupervises == ASSUME LinkInv, Tick PROVE UNCHANGED Supervisor!vars
<1>1. CASE Maintain
  BY <1>1, Unmoved DEF Maintain, userVars, deviceVars, callVars
<1>2. ASSUME NEW connected \in SUBSET Paired, BeginRound(connected)
      PROVE  UNCHANGED Supervisor!vars
  <2>1. /\ Idle /\ ~IsConnected /\ automatic /\ (wasConnected \/ nextAttempt = 0) /\ ~Idle'
        /\ nextAttempt' = 0 /\ UNCHANGED <<automatic, target, retrySeconds>>
        /\ call # "connect" /\ call' = "tick"
    BY <1>2 DEF BeginRound, RoundIsDue, Due, Idle, userVars, LinkInv, Progress
  <2>2. Linked = NoDevice /\ Linked' = NoDevice /\ Wanted' = Wanted
    BY <2>1 DEF Linked, Wanted
  <2>3. TimeLeft = 0 /\ TimeLeft' = 0
    BY <2>1 DEF TimeLeft
  <2>4. RoundsFailed(retrySeconds)' = RoundsFailed(retrySeconds)
    BY <2>1
  <2>5. QED
    BY <2>1, <2>2, <2>3, <2>4 DEF Supervisor!vars
<1>3. QED
  BY <1>1, <1>2 DEF Tick

LEMMA OutsideSupervises ==
  ASSUME LinkInv, Advance \/ ComesAndGoes \/ LinkBreaks
  PROVE  [Supervisor!Next]_(Supervisor!vars)
<1>1. CASE Advance
  <2>1. /\ UNCHANGED <<automatic, target, link, session, stage, wasConnected, call, retrySeconds>>
        /\ nextAttempt' = Less(nextAttempt) /\ nextAttempt \in Nat
    BY <1>1, Durations DEF Advance, userVars, deviceVars, callVars, LinkInv, TypeOK, LongestDelay
  <2>2. UNCHANGED <<Wanted, Linked, RoundsFailed(retrySeconds)>>
    BY <2>1 DEF Wanted, Linked, Idle, IsConnected
  <2>3. TimeLeft' = TimeLeft \/ (TimeLeft > 0 /\ TimeLeft' = TimeLeft - 1)
    BY <2>1 DEF TimeLeft, Less
  <2>4. Supervisor!Elapse \/ UNCHANGED Supervisor!vars
    BY <2>1, <2>2, <2>3 DEF Supervisor!Elapse, Supervisor!vars
  <2>5. QED
    BY <2>4 DEF Supervisor!Next
<1>2. CASE ComesAndGoes
  BY <1>2, Unmoved DEF ComesAndGoes, userVars, deviceVars, callVars, timers
<1>3. CASE LinkBreaks
  <2>1. /\ UNCHANGED <<automatic, target, stage, wasConnected, call, nextAttempt, retrySeconds>>
        /\ ~IsConnected'
    BY <1>3 DEF LinkBreaks, IsConnected, userVars, timers, callVars
  <2>2. UNCHANGED <<Wanted, TimeLeft, RoundsFailed(retrySeconds)>> /\ Linked' = NoDevice
    BY <2>1 DEF Wanted, TimeLeft, Linked
  <2>3. Supervisor!Lose
    BY <2>1, <2>2 DEF Supervisor!Lose
  <2>4. QED
    BY <2>3 DEF Supervisor!Next
<1>4. QED
  BY <1>1, <1>2, <1>3

\* DeviceService implements ConnectionSupervision: only accepted headsets are
\* linked to, a manual disconnect holds, and failed rounds wait the documented
\* delays whatever happens between them.
THEOREM ServiceSupervises == Spec => Supervises
<1>1. Init /\ TypeOK => Supervisor!Init
  <2> SUFFICES ASSUME Init, TypeOK PROVE Supervisor!Init
    OBVIOUS
  <2>1. Wanted \in {{d} : d \in Devices} \cup {Devices}
    BY DEF Init, TypeOK, MaybeDevice, Wanted
  <2>2. Linked = NoDevice /\ TimeLeft = 0
    BY DEF Init, Linked, TimeLeft
  <2>3. RoundsFailed(retrySeconds) = 0 /\ call # "connect"
    BY Schedule DEF Init
  <2>4. QED
    BY <2>1, <2>2, <2>3 DEF Supervisor!Init
<1>2. LinkInv /\ [Next]_vars => [Supervisor!Next]_(Supervisor!vars)
  <2>1. ASSUME LinkInv, Next PROVE [Supervisor!Next]_(Supervisor!vars)
    BY <2>1, StepSupervises, ClientSupervises, TickSupervises, OutsideSupervises DEF Next
  <2>2. ASSUME UNCHANGED vars PROVE UNCHANGED Supervisor!vars
    BY <2>2, Unmoved DEF vars
  <2>3. QED
    BY <2>1, <2>2
<1>3. QED
  BY <1>1, <1>2, LinkInvariant, ServiceTypeCorrect, PTL DEF Spec, Supervises, Supervisor!Spec
=============================================================================
