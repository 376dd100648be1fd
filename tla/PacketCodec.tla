---------------------------- MODULE PacketCodec -----------------------------
(***************************************************************************)
(* The MQTT packets of the client as bytes: the remaining length, PUBLISH  *)
(* and the small packets, and what the client makes of each.               *)
(***************************************************************************)
EXTENDS Integers, Sequences, SequencesExt

Incomplete == [is |-> "incomplete"]

(* Seven bits a byte, least significant first, the high bit on all but the *)
(* last: at most four bytes.                                               *)
EncodeRemainingLength(n) ==
    LET Part(k) == (n \div 128 ^ k) % 128
        count == CHOOSE c \in 1 .. 4 : n < 128 ^ c /\ \A b \in 1 .. c - 1 : n >= 128 ^ b
    IN  [k \in 1 .. count |-> Part(k - 1) + IF k < count THEN 128 ELSE 0]
(* The value and the size of the header, or Incomplete.  The code goes on  *)
(* to a fifth byte, which no packet of a broker has.                       *)
DecodeRemainingLength(buf) ==
    LET Last7(k) == buf[k + 1] < 128
        Closed == {k \in 1 .. 5 : k + 1 <= Len(buf) /\ Last7(k)}
    IN  IF Closed = {} THEN Incomplete
        ELSE LET k == CHOOSE k \in Closed : \A j \in Closed : k <= j
                 Part(j) == IF j <= k THEN (buf[j + 1] % 128) * 128 ^ (j - 1) ELSE 0
             IN  [is |-> "length", header |-> k + 1,
                  value |-> Part(1) + Part(2) + Part(3) + Part(4) + Part(5)]

U16(n) == <<n \div 256, n % 256>>
FromU16(hi, lo) == hi * 256 + lo
LpString(text) == U16(Len(text)) \o text

EncodePublish(topic, payload, qos, id) ==
    LET rest == LpString(topic) \o (IF qos > 0 THEN U16(id) ELSE <<>>) \o payload
    IN  <<48 + 2 * qos>> \o EncodeRemainingLength(Len(rest)) \o rest
EncodePuback(id) == <<64, 2>> \o U16(id)
EncodeSuback(id, code) == <<144, 3>> \o U16(id) \o <<code>>
EncodePingresp == <<208, 0>>
EncodeDisconnect == <<224, 0>>

EncodeConnack(code) == <<32, 2, 0, code>>
ParseConnack(packet) == Len(packet) >= 4 /\ packet[1] = 32 /\ packet[4] = 0

(* try_extract_packet: the first packet of the buffer and what is left. *)
ExtractEarly(buffer) ==
    LET size == DecodeRemainingLength(buffer)
        total == size.header + size.value
    IN  IF size = Incomplete THEN [packet |-> <<>>, left |-> buffer]
        ELSE IF Len(buffer) > total
        THEN [packet |-> SubSeq(buffer, 1, total), left |-> SubSeq(buffer, total + 1, Len(buffer))]
        ELSE [packet |-> <<>>, left |-> buffer]
TryExtractPacket(buffer) ==
    LET size == DecodeRemainingLength(buffer)
        total == size.header + size.value
    IN  IF size = Incomplete THEN [packet |-> <<>>, left |-> buffer]
        ELSE IF Len(buffer) >= total
        THEN [packet |-> SubSeq(buffer, 1, total), left |-> SubSeq(buffer, total + 1, Len(buffer))]
        ELSE [packet |-> <<>>, left |-> buffer]

(* process_packets, up to the acknowledgement. *)
Publish(topic, payload, id) == [is |-> "publish", topic |-> topic, payload |-> payload, id |-> id]
Fatal == [is |-> "fatal"]
Handled == [is |-> "handled"]
NoId == 0
ParsePublish(packet) ==
    LET size == DecodeRemainingLength(packet)
        body == SubSeq(packet, size.header + 1, Len(packet))
        qos == (packet[1] \div 2) % 4
        topicEnd == 2 + FromU16(body[1], body[2])
        idEnd == topicEnd + (IF qos > 0 THEN 2 ELSE 0)
    IN  IF size = Incomplete THEN Fatal
        ELSE IF Len(body) < 2 THEN Fatal
        ELSE IF Len(body) < idEnd THEN Fatal
        ELSE Publish(SubSeq(body, 3, topicEnd), SubSeq(body, idEnd + 1, Len(body)),
                     IF qos > 0 THEN FromU16(body[topicEnd + 1], body[topicEnd + 2]) ELSE NoId)
ProcessPacket(packet) ==
    CASE packet[1] \div 16 = 3 -> ParsePublish(packet)
      [] packet[1] \div 16 = 14 -> Fatal
      [] OTHER -> Handled

(* parse_suback, for the packet identifier awaited. *)
SubackOk(packet, id) ==
    LET size == DecodeRemainingLength(packet)
        body == SubSeq(packet, size.header + 1, Len(packet))
    IN  /\ packet[1] = 144 /\ size # Incomplete /\ Len(body) >= 3
        /\ FromU16(body[1], body[2]) = id /\ body[3] # 128
=============================================================================
