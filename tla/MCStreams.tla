----------------------------- MODULE MCStreams ------------------------------
(* The streams of the run: frames as the spa sends them, packets as a      *)
(* broker does, responses of a firmware server.                            *)
EXTENDS Streams

(* Status frames (FF AF 13), told apart by their last byte.  The second    *)
(* holds a marker as data, the third is the query of the registration.     *)
MCSentFrames == [i \in 1 .. 44 |->
    CASE i = 2 -> Frame(<<255, 175>>, <<19, 20, Marker, 21>>)
      [] i = 3 -> Frame(<<254, 191>>, <<0>>)
      [] OTHER -> Frame(<<255, 175>>, <<19, 10 + i>>)]

MCSubscriptions == <<1, 2>>
Suback(id) == EncodeSuback(id, 1)
Message(n, qos) == EncodePublish(<<108, 47>>, <<n>>, qos, 256 * n + 1)
Large(n, size) == EncodePublish(<<108, 47>>, [i \in 1 .. size |-> n], 0, NoId)
MCPacketCases == {<<EncodeConnack(0)>> \o packets : packets \in {
    <<EncodePuback(1), Suback(1), Message(1, 1), Suback(2), Message(2, 1), EncodePingresp,
      Message(3, 0), Large(4, 140), Message(5, 1)>>,
    <<Suback(1), Suback(2), Large(6, 250), Message(7, 0)>>,
    <<Suback(1), Large(8, 140), Suback(2), Message(9, 0)>>,
    <<EncodePuback(1), EncodePuback(2), EncodePuback(3), Suback(1), Message(1, 0)>>,
    <<Suback(2), Message(1, 1), EncodeDisconnect, Message(2, 1)>>}} \cup {<<EncodeConnack(5), Message(1, 0)>>}

Image(n) == [i \in 1 .. n |-> IF i = 1 THEN Magic ELSE i]
MCImageCases ==
    {[status |-> s, length |-> n, crc |-> c, body |-> Image(n)] :
        s \in {200, 404}, n \in {5, 8, 11}, c \in {"none", "good", "bad"}}
      \cup {[status |-> 200, length |-> NoLength, crc |-> "good", body |-> Image(n)] : n \in {0, 7, 8, 13}}
      \cup {[status |-> 200, length |-> 6, crc |-> "good", body |-> Tail(Image(6))]}

MCLogLevels == <<"info", "debug", "warn", "info", "error", "info", "trace", "info", "warn">>
=============================================================================
