----------------------- MODULE DeviceServiceProperties -----------------------
(***************************************************************************)
(* What makes the connection lifecycle correct.                            *)
(***************************************************************************)
EXTENDS DeviceService, Sequences

MaybeDevice == Devices \cup {NoDevice}

\* Every variable of the service has a value its C++ type and its range allow.
TypeOK ==
  /\ automatic \in BOOLEAN /\ wasConnected \in BOOLEAN
  /\ target \in MaybeDevice /\ selected \in MaybeDevice /\ link \in MaybeDevice
  /\ connectionState \in {"searching", "connecting", "connected", "retrying",
                          "manually_disconnected"}
  /\ retrySeconds \in {1, 2, 4, 8, 16, 30}
  /\ nextAttempt \in 0 .. LongestDelay * Second
  /\ nextSettings \in Nat /\ nextBattery \in Nat
  /\ session \in {"none", "running", "ended"} /\ version \in {"V1", "V2"}
  /\ call \in {"none", "connect", "tick"}
  /\ stage \in {"idle", "choose", "opening", "init"}
  /\ untried \subseteq Devices /\ hinted \subseteq Devices
  /\ available \subseteq Devices
  /\ requests \in 0 .. MaxRequests /\ faults \in 0 .. MaxFaults

(***************************************************************************)
(* Opcode 0x22 reads the battery in protocol V2 and switches a V1 headset  *)
(* off.  Whatever was connected before, and whether or not the caller knew *)
(* the headset's name, a link to a V1 headset is never driven as V2: not   *)
(* while it is initialised, not by the periodic battery reading, and not   *)
(* by what is left of the session with another headset.                    *)
(***************************************************************************)
NeverPowersOff == version = "V2" => link \notin Legacy

(***************************************************************************)
(* The transport is never told to open a connection over one that is open, *)
(* and no session is alive then that could close the new link when it is   *)
(* destroyed (SonyDevice::connect tears the old session down first).       *)
(***************************************************************************)
OpensFromClosed ==
  stage \in {"choose", "opening"} => link = NoDevice /\ session # "running"

(***************************************************************************)
(* Between calls an open link is one the service knows of and answers for: *)
(* it goes to the selected headset, which is the explicit target if there  *)
(* is one, the service wants a link, and its next call will either use the *)
(* link or find it lost and close it.  After a manual disconnect, and      *)
(* while the service waits to retry, no link is left open.                 *)
(***************************************************************************)
NoStrayLink ==
  Idle /\ link # NoDevice =>
    /\ automatic /\ wasConnected
    /\ connectionState = "connected"
    /\ link = selected
    /\ target # NoDevice => link = target

(***************************************************************************)
(* A link that works is given up for three reasons only: a client asks for *)
(* a connection or for none, the headset goes, or the radio fails.  No     *)
(* timer, maintenance step or retry round of the service ever drops it.    *)
(***************************************************************************)
KeepsWorkingLink ==
  [][IsConnected /\ ~IsConnected' =>
       requests' # requests \/ faults' # faults \/ link \notin available]_vars

(***************************************************************************)
(* The service implements the supervisor: the headsets it ever links to    *)
(* are those the user accepts, a manual disconnect holds until the next    *)
(* request, and failed rounds are followed by the documented delays, one   *)
(* after the other, which a link or a request resets.  Only the failure of *)
(* a request's own call waits the first delay without a step on.  A call   *)
(* in progress has not linked yet; a link that is lost, and a request in   *)
(* progress, wait for nothing.                                             *)
(***************************************************************************)
Wanted ==
  IF ~automatic THEN {} ELSE IF target = NoDevice THEN Devices ELSE {target}
Linked == IF Idle /\ IsConnected THEN link ELSE NoDevice
TimeLeft == IF ~automatic \/ wasConnected \/ call = "connect" THEN 0 ELSE nextAttempt

\* docs/ipc-and-lifecycle.md: 1, 2, 4, 8, 16, then 30 seconds.
DocumentedDelays == <<1, 2, 4, 8, 16, 30>>
RoundsFailed(seconds) ==
  CASE seconds = 1 -> 0 [] seconds = 2 -> 1 [] seconds = 4 -> 2
    [] seconds = 8 -> 3 [] seconds = 16 -> 4 [] OTHER -> 5
InUnits(delays) == [i \in DOMAIN delays |-> delays[i] * Second]

Supervisor == INSTANCE ConnectionSupervision WITH
  Delays <- InUnits(DocumentedDelays), wanted <- Wanted, linked <- Linked,
  wait <- TimeLeft, failed <- RoundsFailed(retrySeconds), asked <- (call = "connect")

Supervises == Supervisor!Spec

(***************************************************************************)
(* While a headset that the user wants stays in range, the service reports *)
(* a connection again and again, whatever happened before: losses, failed  *)
(* rounds, candidates that fail first, a manual disconnect since revoked.  *)
(***************************************************************************)
Accepts(d) ==
  /\ connectionState # "manually_disconnected"
  /\ IF target = NoDevice THEN d \in Paired ELSE d = target

Reconnects ==
  \A d \in Devices :
    <>[](d \in available /\ Accepts(d)) => []<>(Idle /\ ReportedState = "connected")
=============================================================================
