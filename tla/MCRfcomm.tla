------------------------------ MODULE MCRfcomm ------------------------------
(* What the headset sends: whole and damaged frames, and nothing.          *)
EXTENDS RfcommConnector

Ack == [type |-> 1, sequence |-> 0, payload |-> <<>>]
Marked == [type |-> 12, sequence |-> 1, payload |-> <<StartMarker, 9>>]
Summed == [type |-> 12, sequence |-> 0, payload |-> <<47>>]   \* its checksum is an end marker

Then(frame, noise) == [frame |-> frame, then |-> noise]
Sent(before, sent, n) == [before |-> before, sent |-> sent, sends |-> n]

Lost(wire, i) == SubSeq(wire, 1, i - 1) \o SubSeq(wire, i + 1, Len(wire))
Changed(wire, i, b) == [wire EXCEPT ![i] = b]

Damaged ==
  LET wire == Wire(Marked) IN
  {Lost(wire, i) : i \in {1, 4, 8, Len(wire)}}
    \cup ({Changed(wire, i, b) : i \in {1, 8}, b \in Markers \cup {7}} \ {wire})

Overlong == <<StartMarker>> \o [i \in 1 .. 2 * MaxFrameSize + 9 |-> 5]

\* A damaged frame before and after whole ones.
MCTransmissions ==
  {Sent(<<>>, <<Then(Ack, d), Then(Summed, <<>>)>>, 0) : d \in Damaged \cup {Overlong}}
    \cup {Sent(<<>>, <<Then(Marked, <<>>), Then(Summed, <<>>)>>, 0),
          Sent(<<5, 5>>, <<>>, 2)}

=============================================================================
