-------------------------- MODULE MCDeviceService --------------------------
(***************************************************************************)
(* DeviceService on small instances, with a history of the delays.         *)
(***************************************************************************)
EXTENDS DeviceServiceProperties

VARIABLE waits   \* the delays, in seconds, that failures since the last link or request set

\* An attempt just failed, and the next one is scheduled.
Failed == ~Idle /\ Idle' /\ connectionState' = "retrying"

Recorded ==
  IF Failed THEN Append(waits, nextAttempt' \div Second)
  ELSE IF requests' # requests \/ (~Idle /\ Idle') THEN <<>>
  ELSE waits

InitHistory == Init /\ waits = <<>>

\* The history is kept until the schedule has reached its longest delay.
NextHistory == Next /\ Len(Recorded) <= Len(DocumentedDelays) /\ waits' = Recorded

SpecHistory == InitHistory /\ [][NextHistory]_<<vars, waits>>

(***************************************************************************)
(* docs/ipc-and-lifecycle.md: failures retry after 1, 2, 4, 8, 16, then 30 *)
(* seconds.  The n-th failure in a row, the one of an explicit connect     *)
(* request included, is followed by the n-th delay of that list.           *)
(***************************************************************************)
EveryFailureDoubles ==
  \A i \in 1 .. Len(waits) : waits[i] = DocumentedDelays[i]
=============================================================================
