-------------------------- MODULE OrderedDelivery --------------------------
(***************************************************************************)
(* What the receive half of a protocol session promises its application of *)
(* one connection, whose frames the headset numbers from 1.  The session   *)
(* passes each frame on once, in order: it shows it to the notification    *)
(* callbacks, or gives it to the request that waits for its opcode.        *)
(* Requests are answered apart from that, and later: with the frame they   *)
(* were given, or with one the callbacks saw before the request was made.  *)
(* No frame answers two requests, and an opcode's answers are in order;    *)
(* between an answer and what the callbacks saw no order is promised.      *)
(***************************************************************************)
EXTENDS Naturals, Sequences

CONSTANT Opcodes   \* what a request may ask for

VARIABLES
  produced,   \* how many frames the headset has produced on this connection
  passed,     \* the frames passed on, with their routes
  answers     \* the frames that answered requests, with the opcode asked for

vars == <<produced, passed, answers>>

Init ==
  /\ produced = 0
  /\ passed = <<>>
  /\ answers = <<>>

Produce ==
  /\ produced' = produced + 1
  /\ UNCHANGED <<passed, answers>>

PassOn(to) ==
  /\ Len(passed) < produced
  /\ passed' = Append(passed, [id |-> Len(passed) + 1, to |-> to])
  /\ UNCHANGED <<produced, answers>>

\* The frame being passed on may answer a request before it has been.
Answer(n, o) ==
  /\ n <= produced /\ n <= Len(passed) + 1
  /\ \A k \in DOMAIN answers : answers[k].id # n /\ (answers[k].op = o => answers[k].id < n)
  /\ answers' = Append(answers, [id |-> n, op |-> o])
  /\ UNCHANGED <<produced, passed>>

Reconnect ==
  /\ produced' = 0
  /\ passed' = <<>>
  /\ answers' = <<>>

Next ==
  \/ Produce
  \/ \E to \in {"callbacks", "request"} : PassOn(to)
  \/ \E n \in 1 .. produced, o \in Opcodes : Answer(n, o)
  \/ Reconnect

Spec == Init /\ [][Next]_vars
=============================================================================
