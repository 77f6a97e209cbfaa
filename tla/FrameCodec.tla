----------------------------- MODULE FrameCodec -----------------------------
(***************************************************************************)
(* The wire format of sony::protocol::FrameCodec, and what                 *)
(* SonyProtocolSession::_parseStream takes from the bytes it has.          *)
(*                                                                         *)
(* A frame on the wire is a start marker, the escaped body and an end      *)
(* marker; the body is a type, a sequence number, the payload's size in    *)
(* four bytes, the payload and a checksum.  What may fail yields a         *)
(* sequence of at most one result.                                         *)
(***************************************************************************)
EXTENDS Naturals, Sequences, SequencesExt

CONSTANT MaxFrameSize   \* MAX_FRAME_SIZE

\* 2048 in the code; a size of four bytes can tell.
ASSUME CodecAssumption == MaxFrameSize \in Nat /\ MaxFrameSize \div 16777216 < 256

Byte == 0 .. 255
Frame == [type : Byte, sequence : Byte, payload : Seq(Byte)]

EndMarker == 60
EscapeMarker == 61
StartMarker == 62
Markers == {EndMarker, EscapeMarker, StartMarker}
Shift == 16             \* an escaped marker is sent as the marker less 16

Escaped(b) == IF b \in Markers THEN <<EscapeMarker, b - Shift>> ELSE <<b>>
Escape(data) == FlattenSeq([i \in DOMAIN data |-> Escaped(data[i])])

\* What an escape marker announces is a marker.
IsEscaped(data) ==
  \A i \in DOMAIN data : data[i] = EscapeMarker =>
    i < Len(data) /\ data[i + 1] + Shift \in Markers

Unescaped(data, i) ==
  IF data[i] = EscapeMarker THEN <<>>
  ELSE IF i > 1 /\ data[i - 1] = EscapeMarker THEN <<data[i] + Shift>>
  ELSE <<data[i]>>
Unescape(data) == FlattenSeq([i \in DOMAIN data |-> Unescaped(data, i)])

Checksum(data) ==
  LET sum[i \in 0 .. Len(data)] == IF i = 0 THEN 0 ELSE (sum[i - 1] + data[i]) % 256
  IN sum[Len(data)]

Size(b1, b2, b3, b4) == ((b1 * 256 + b2) * 256 + b3) * 256 + b4

SizeBytes(n) == <<(n \div 16777216) % 256, (n \div 65536) % 256, (n \div 256) % 256, n % 256>>

Body(frame) == <<frame.type, frame.sequence>> \o SizeBytes(Len(frame.payload)) \o frame.payload
Wire(frame) == <<StartMarker>> \o Escape(Append(Body(frame), Checksum(Body(frame)))) \o <<EndMarker>>

\* A frame that is too long for the wire is refused.
Encode(frame) == IF Len(Wire(frame)) > MaxFrameSize THEN <<>> ELSE <<Wire(frame)>>

MinBodySize == 7

\* Bytes after the checksum are ignored.
Decode(wire) ==
  LET body == SubSeq(wire, 2, Len(wire) - 1)
      data == Unescape(body)
      size == Size(data[3], data[4], data[5], data[6])
      end == 6 + size
      IsFrame == /\ IsEscaped(body)
                 /\ Len(data) >= MinBodySize
                 /\ Len(data) > end
                 /\ data[end + 1] = Checksum(SubSeq(data, 1, end))
  IN IF IsFrame THEN <<[type |-> data[1], sequence |-> data[2], payload |-> SubSeq(data, 7, end)]>>
                ELSE <<>>

\* The loop of _parseStream() starts over at every start marker: a frame is what
\* lies between a start marker and the next marker, when that is an end marker.
\* Where the frame starts that is open before position j (one place or none):
OpenBefore(bytes, j) == {i \in 1 .. j - 1 : /\ bytes[i] = StartMarker
                                        /\ \A k \in i + 1 .. j - 1 : bytes[k] \notin {StartMarker, EndMarker}}
From(bytes, j) == CHOOSE i \in OpenBefore(bytes, j) : TRUE

\* The frame that ends at position j, if there is one and it is not damaged.
Found(bytes, j) == IF bytes[j] = EndMarker /\ OpenBefore(bytes, j) # {}
                   THEN Decode(SubSeq(bytes, From(bytes, j), j)) ELSE <<>>
Parsed(bytes) == FlattenSeq([j \in DOMAIN bytes |-> Found(bytes, j)])

\* What is kept for the next call: a frame that has begun, until it is too long.
Kept(bytes) == IF OpenBefore(bytes, Len(bytes) + 1) = {} THEN <<>>
               ELSE SubSeq(bytes, From(bytes, Len(bytes) + 1), Len(bytes))
WrongRest(bytes) == Kept(bytes)
Rest(bytes) == IF Len(Kept(bytes)) > 2 * MaxFrameSize THEN Tail(Kept(bytes)) ELSE Kept(bytes)

=============================================================================
