----------------------------- MODULE FrameCodec -----------------------------
(***************************************************************************)
(* The frames of the RS-485 line as bytes: crc8, Frame::encode and parse,  *)
(* and the two decoders, feed (a byte at a time) and feed_slice.  The      *)
(* protocol has no byte stuffing: a marker inside a body is told from an   *)
(* end marker by the length byte alone.                                    *)
(***************************************************************************)
EXTENDS Integers, Sequences, SequencesExt

Marker == 126
MaxBuffer == 512

Byte == 0 .. 255
Bit(x, k) == (x \div 2 ^ k) % 2
Differ(x, y, k) == IF Bit(x, k) # Bit(y, k) THEN 2 ^ k ELSE 0
(* A function applied, so that an argument is evaluated once. *)
Xor8(a, b) ==
    [x \in Byte |-> [y \in Byte |->
        Differ(x, y, 0) + Differ(x, y, 1) + Differ(x, y, 2) + Differ(x, y, 3)
          + Differ(x, y, 4) + Differ(x, y, 5) + Differ(x, y, 6) + Differ(x, y, 7)]][a][b]
ShiftOnce == [crc \in Byte |-> IF crc >= 128 THEN Xor8((2 * crc) % 256, 7) ELSE 2 * crc]
(* compute: eight shifts for every byte, as a table. *)
Shifted == [byte \in Byte |->
    LET After[k \in 0 .. 8] == IF k = 0 THEN byte ELSE ShiftOnce[After[k - 1]] IN After[8]]
CrcAfter(data) ==
    LET After[i \in 0 .. Len(data)] == IF i = 0 THEN 2 ELSE Shifted[Xor8(After[i - 1], data[i])]
    IN  After
Crc8(data) == Xor8(CrcAfter(data)[Len(data)], 2)

Frame(type, payload) == [type |-> type, payload |-> payload]
FrameError == [type |-> <<>>, payload |-> <<>>]

Encode(frame) ==
    IF 4 + Len(frame.payload) > 255 THEN <<>>
    ELSE LET body == <<4 + Len(frame.payload)>> \o frame.type \o frame.payload
         IN  <<Marker>> \o body \o <<Crc8(body)>> \o <<Marker>>

Parse(data) ==
    IF Len(data) < 4 \/ data[1] < 4 \/ Len(data) < data[1] THEN FrameError
    ELSE LET body == SubSeq(data, 1, data[1] - 1)
         IN  IF Crc8(body) # data[data[1]] THEN FrameError
             ELSE Frame(SubSeq(data, 2, 3), SubSeq(data, 4, data[1] - 1))

-----------------------------------------------------------------------------
(* A decoder and the frames a byte makes it return.                        *)
NewDecoder == [buffer |-> <<>>, inFrame |-> FALSE, expected |-> 0, errors |-> 0]
Idle(d) == [d EXCEPT !.buffer = <<>>, !.inFrame = FALSE, !.expected = 0]
ResetOnError(d) == [Idle(d) EXCEPT !.errors = @ + 1]
Started(d) == [d EXCEPT !.buffer = <<>>, !.inFrame = TRUE, !.expected = 0]
BadLength(byte) == byte < 4 \/ byte > MaxBuffer
Stays(d) == [dec |-> d, frames |-> <<>>]

EndsHalfReset(d) ==
    LET frame == Parse(SubSeq(d.buffer, 1, d.expected))
    IN  IF frame = FrameError THEN Stays([d EXCEPT !.buffer = <<>>, !.errors = @ + 1])
        ELSE [dec |-> Idle(d), frames |-> <<frame>>]
(* The end of a body: parsed, or counted as an error. *)
Ends(d) ==
    LET frame == Parse(SubSeq(d.buffer, 1, d.expected))
    IN  IF frame = FrameError THEN Stays(ResetOnError(d))
        ELSE [dec |-> Idle(d), frames |-> <<frame>>]

FeedMarker(d) ==
    CASE ~d.inFrame -> Stays(Started(d))
      [] d.inFrame /\ d.expected > 0 ->
            IF Len(d.buffer) >= d.expected THEN Ends(d)
            ELSE Stays([d EXCEPT !.buffer = Append(@, Marker)])
      [] d.inFrame /\ d.expected = 0 ->
            IF d.buffer # <<>> THEN Stays(Started(ResetOnError(d))) ELSE Stays(d)
FeedByte(d, byte) ==
    LET longer == [d EXCEPT !.buffer = Append(@, byte)]
    IN  CASE ~d.inFrame -> Stays(d)
          [] d.inFrame /\ d.buffer = <<>> ->
                IF BadLength(byte) THEN Stays(ResetOnError(d))
                ELSE Stays([longer EXCEPT !.expected = byte])
          [] d.inFrame /\ d.buffer # <<>> -> Stays(longer)
Feed(d, byte) == IF byte = Marker THEN FeedMarker(d) ELSE FeedByte(d, byte)

(* feed_slice, one byte of the slice: a full body must be followed by the  *)
(* end marker, where feed goes on collecting.                              *)
SliceStep(d, byte) ==
    CASE ~d.inFrame -> IF byte = Marker THEN Stays(Started(d)) ELSE Stays(d)
      [] d.inFrame /\ d.expected = 0 ->
            IF byte = Marker THEN Stays(Started(d))
            ELSE IF BadLength(byte) THEN Stays(ResetOnError(d))
            ELSE Stays([d EXCEPT !.buffer = <<byte>>, !.expected = byte])
      [] d.inFrame /\ d.expected > 0 ->
            IF Len(d.buffer) < d.expected THEN Stays([d EXCEPT !.buffer = Append(@, byte)])
            ELSE IF byte = Marker THEN Ends(d) ELSE Stays(ResetOnError(d))

=============================================================================
