----------------------- MODULE ConnectionSupervision -----------------------
(***************************************************************************)
(* What the connection supervisor promises whoever uses it, without the    *)
(* machinery: there is one link at most, it only ever goes to a headset    *)
(* the user accepts, it is only given up when the user asks or the radio   *)
(* fails, and while it is missing the supervisor tries again on the        *)
(* documented schedule of growing delays, which a link resets.  One thing  *)
(* is not on the schedule: the failure of a request itself, once for each, *)
(* waits the first delay and leaves the schedule at its start.             *)
(***************************************************************************)
EXTENDS Naturals, Sequences

CONSTANTS
  Devices,     \* the headsets
  NoDevice,    \* no headset at all
  Delays       \* how long to wait after the 1st, 2nd, ... failed round

VARIABLES
  wanted,      \* the headsets the user accepts now
  linked,      \* the headset the link goes to, or NoDevice
  wait,        \* what is left of the wait before the next round
  failed,      \* how many rounds failed since the last link or request
  asked        \* a request is being carried out

vars == <<wanted, linked, wait, failed, asked>>

\* The last delay repeats.
DelayAfter(n) == IF n < Len(Delays) THEN Delays[n + 1] ELSE Delays[Len(Delays)]
OneMore(n) == IF n + 1 < Len(Delays) THEN n + 1 ELSE Len(Delays) - 1

Init ==
  /\ wanted \in {{d} : d \in Devices} \cup {Devices}
  /\ linked = NoDevice
  /\ wait = 0
  /\ failed = 0
  /\ asked = FALSE

\* The user asks for one headset: the link there was is given up.
Request ==
  /\ \E d \in Devices : wanted' = {d}
  /\ linked' = NoDevice
  /\ wait' = 0
  /\ failed' = 0
  /\ asked' = TRUE

\* The user wants no headset: nothing is tried from now on.
Release ==
  /\ wanted' = {}
  /\ linked' = NoDevice
  /\ wait' = 0
  /\ asked' = FALSE
  /\ UNCHANGED failed

Lose ==
  /\ linked' = NoDevice
  /\ UNCHANGED <<wanted, wait, failed, asked>>

Succeed ==
  /\ linked = NoDevice
  /\ wait = 0
  /\ linked' \in wanted
  /\ failed' = 0
  /\ asked' = FALSE
  /\ UNCHANGED <<wanted, wait>>

\* A round fails: the next delay of the schedule.
Fail ==
  /\ ~asked
  /\ wanted # {}
  /\ linked = NoDevice
  /\ wait = 0
  /\ wait' = DelayAfter(failed)
  /\ failed' = OneMore(failed)
  /\ UNCHANGED <<wanted, linked, asked>>

\* The request being carried out fails: the first delay, and no step on.
RequestFails ==
  /\ asked
  /\ linked = NoDevice
  /\ wait = 0
  /\ wait' = DelayAfter(0)
  /\ asked' = FALSE
  /\ UNCHANGED <<wanted, linked, failed>>

Elapse ==
  /\ wait > 0
  /\ wait' = wait - 1
  /\ UNCHANGED <<wanted, linked, failed, asked>>

Next == Request \/ Release \/ Lose \/ Succeed \/ Fail \/ RequestFails \/ Elapse

Spec == Init /\ [][Next]_vars
=============================================================================
