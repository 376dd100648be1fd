------------------------------ MODULE Streams -------------------------------
(***************************************************************************)
(* The receivers of byte streams, each at the end of its own line: the two *)
(* frame decoders on RS-485, the MQTT client on its socket, the firmware   *)
(* download on its own, the readers of the published log and of the        *)
(* captures of the line.  A behaviour is about one of them, kind.          *)
(*                                                                         *)
(* The bytes sent are fixed by kind and case; at counts those that have    *)
(* come.  A serial line loses, changes and adds bytes; a socket delivers   *)
(* them in pieces of any size and may break.  out is what the receiver     *)
(* handed on: numbers of the items sent, Unknown for anything else.        *)
(***************************************************************************)
EXTENDS Diagnostics, PacketCodec, OtaWriter

CONSTANTS
    SentFrames,     \* the frames of the line, in order, no two the same
    FaultWindow,    \* the bytes the line may spoil are the first ones
    MaxFaults,      \* faults of a socket in a behaviour
    Subscriptions,  \* packet identifiers of the SUBSCRIBEs, in order
    MaxSkip,        \* MAX_SKIP
    SubackPayload,  \* the size of subscribe's payload buffer
    RxMax,          \* RX_BUFFER_MAX_SIZE
    PacketCases,    \* sequences of packets a broker sends after the CONNECT
    ImageCases,     \* responses of the firmware server
    Pieces,         \* sizes of the pieces a socket delivers
    LogLevels,      \* the levels of the messages logged, in order
    LogBatch,       \* MAX_LOG_ENTRIES_PER_ITER
    SniffFrames,    \* the first frames of the line, those a capture is about
    SniffReads,     \* sizes of the reads of uart_task
    SniffCap        \* the capacity of SNIFF_CHANNEL

(* What is sent on the line are frames that can be encoded, what a broker  *)
(* sends are whole packets.  Items are told apart: no two are the same.    *)
ASSUME LineAssumption ==
    /\ SentFrames \in Seq([type : Seq(Byte), payload : Seq(Byte)]) /\ SentFrames # <<>>
    /\ \A i \in 1 .. Len(SentFrames) :
          Len(SentFrames[i].type) = 2 /\ 4 + Len(SentFrames[i].payload) <= 255
    /\ IsInjective(SentFrames)
ASSUME LogAssumption ==
    LogSize \in Nat \ {0} /\ LogLevels \in Seq(STRING) /\ LogBatch \in Nat
(* A capture is of frames of the line and read in pieces of some size. *)
ASSUME SniffAssumption == SniffFrames \in 1 .. Len(SentFrames) /\ SniffReads \subseteq Nat
ASSUME StreamsAssumption ==
    /\ Pieces \subseteq Nat \ {0}
    /\ \A c \in ImageCases : /\ c.status \in Nat /\ c.length \in Nat /\ c.body \in Seq(Nat)
                            /\ c.crc \in {"none", "good", "bad"}

VARIABLES kind, case, at, rx, out, faults, faultAt
vars == <<kind, case, at, rx, out, faults, faultAt>>

Lines == {"feed", "slice"}
Unknown == 0
Concat(seqs) == FlattenSeq(seqs)

(* Where the frames of the line end. *)
FrameSize == [i \in 1 .. Len(SentFrames) |-> 6 + Len(SentFrames[i].payload)]
Longest == CHOOSE n \in Range(FrameSize) : \A i \in 1 .. Len(SentFrames) : FrameSize[i] <= n
FrameEnd[i \in 0 .. Len(SentFrames)] == IF i = 0 THEN 0 ELSE FrameEnd[i - 1] + FrameSize[i]

(* The bytes and the items of every stream. *)
LineBytes == Concat([i \in 1 .. Len(SentFrames) |-> Encode(SentFrames[i])])
PacketBytes == [c \in PacketCases |-> Concat(c)]
PublishedBy(c) ==
    LET Upto[n \in 0 .. Len(c)] ==
            IF n = 0 THEN <<>>
            ELSE IF ProcessPacket(c[n]).is = "publish" THEN Append(Upto[n - 1], ProcessPacket(c[n]))
            ELSE Upto[n - 1]
    IN  Upto
Publishes == [c \in PacketCases |-> PublishedBy(c)[Len(c)]]
ImageBytes == [c \in ImageCases |-> Header(c.status, c.length) \o c.body]
IsPacket(p) ==
    LET size == DecodeRemainingLength(p)
    IN  size # Incomplete /\ Len(p) = size.header + size.value
ASSUME PacketAssumption ==
    \A c \in PacketCases :
        /\ c \in Seq(Seq(Byte)) /\ c # <<>> /\ Len(c[1]) = 4 /\ \A i \in 1 .. Len(c) : IsPacket(c[i])
        /\ IsInjective(Publishes[c])
Numbered(n) == [i \in 1 .. n |-> i]
Logged(i) == LogLevels[i] \in {"error", "warn", "info"}
Captured[n \in 0 .. Len(LogLevels)] ==
    IF n = 0 THEN <<>> ELSE IF Logged(n) THEN Append(Captured[n - 1], n) ELSE Captured[n - 1]
Bytes == CASE kind \in Lines -> LineBytes
           [] kind = "sniff" -> SubSeq(LineBytes, 1, FrameEnd[SniffFrames])
           [] kind = "log" -> LogLevels
           [] kind = "mqtt" -> PacketBytes[case]
           [] kind = "ota" -> ImageBytes[case]
Items == CASE kind \in Lines \cup {"sniff"} -> Numbered(Len(SentFrames))
           [] kind = "log" -> Captured[Len(LogLevels)]
           [] kind = "mqtt" -> Numbered(Len(Publishes[case]))
           [] kind = "ota" -> case.body
NumberOf(item, all) ==
    IF \E i \in 1 .. Len(all) : all[i] = item
    THEN CHOOSE i \in 1 .. Len(all) : all[i] = item ELSE Unknown
Total == Len(Bytes)
Piece(n) == SubSeq(Bytes, at + 1, at + n)

BetweenFrames == \E i \in 0 .. Len(SentFrames) : FrameEnd[i] = at

NewClient == [phase |-> "connack", awaited |-> 1, skipped |-> 0, buffer |-> <<>>,
              acking |-> 0, acked |-> {}]
NewDownload == [phase |-> "headers", head |-> <<>>, writer |-> NewWriter]
NewCapture == [sniff |-> NewSniff, capture |-> FALSE, mode |-> FALSE,
               channel |-> <<>>, bytes |-> <<>>, entries |-> <<>>, shown |-> 0]
Init ==
    /\ \/ kind \in Lines /\ case = "line" /\ rx = NewDecoder
       \/ kind = "mqtt" /\ case \in PacketCases /\ rx = NewClient
       \/ kind = "ota" /\ case \in ImageCases /\ rx = NewDownload
       \/ kind = "log" /\ case = "log" /\ rx = NewLog
       \/ kind = "sniff" /\ case \in {"joined", "joining"} /\ rx = NewCapture
    /\ at = 0 /\ out = <<>> /\ faults = 0 /\ faultAt = 0

-----------------------------------------------------------------------------
(* A byte reaches the frame decoder; consumed of the line's bytes went by. *)
Hears(byte, consumed) ==
    \E r \in {IF kind = "feed" THEN Feed(rx, byte) ELSE SliceStep(rx, byte)} :
        /\ rx' = r.dec
        /\ out' = out \o [i \in 1 .. Len(r.frames) |-> NumberOf(r.frames[i], SentFrames)]
        /\ at' = at + consumed
LineByte ==
    /\ kind \in Lines /\ at < Total
    /\ \E byte \in {Bytes[at + 1]} : Hears(byte, 1)
    /\ UNCHANGED <<kind, case, faults, faultAt>>
(* One fault, noise between frames only: a checksum of eight bits misses   *)
(* one frame in 256 whose bytes were shifted.                              *)
LineFaulty ==
    /\ kind \in Lines /\ at < FaultWindow /\ at < Total /\ faults = 0
    /\ faults' = 1 /\ faultAt' = at /\ UNCHANGED <<kind, case>>
ByteLost == LineFaulty /\ at' = at + 1 /\ UNCHANGED <<rx, out>>
ByteFlipped == LineFaulty /\ Hears(Xor8(Bytes[at + 1], 1), 1)
ByteAdded == LineFaulty /\ BetweenFrames /\ \E noise \in {0, 5, Marker} : Hears(noise, 0)

-----------------------------------------------------------------------------
(* The MQTT client.  The packet that starts at the next byte, as           *)
(* subscribe reads it: header, length and payload, exactly.                *)
NextPacket == TryExtractPacket(SubSeq(Bytes, at + 1, Total)).packet
PayloadSize(packet) == DecodeRemainingLength(packet).value
Client(changed) == kind = "mqtt" /\ rx' = changed /\ UNCHANGED <<kind, case, faultAt>>

(* send_connect waits for the CONNACK; a broker sends nothing after it to  *)
(* a client that has not subscribed.                                       *)
ConnackReads ==
    /\ kind = "mqtt" /\ rx.phase = "connack"
    /\ \E n \in Pieces :
        /\ at + n <= 4 /\ at' = at + n
        /\ Client(IF at + n < 4 THEN rx
                  ELSE [rx EXCEPT !.phase = IF ParseConnack(SubSeq(Bytes, 1, 4)) THEN "suback" ELSE "closed"])
    /\ UNCHANGED <<out, faults>>
ConnackTimesOut ==
    /\ kind = "mqtt" /\ rx.phase = "connack" /\ faults < MaxFaults
    /\ Client([rx EXCEPT !.phase = "closed"])
    /\ faults' = faults + 1 /\ UNCHANGED <<at, out>>

(* subscribe reads one packet: the SUBACK of the awaited subscription,     *)
(* another one that it skips, or one it gives up at.  An error of          *)
(* subscribe is logged only, and recv goes on where the bytes are: after   *)
(* the packet (aligned), or inside it (its bytes are not packets).         *)
AfterSuback(packet) ==
    IF packet[1] = 144
    THEN IF SubackOk(packet, Subscriptions[rx.awaited]) /\ rx.awaited < Len(Subscriptions)
         THEN [rx EXCEPT !.awaited = @ + 1, !.skipped = 0]
         ELSE [rx EXCEPT !.phase = "recv"]
    ELSE IF rx.skipped + 1 > MaxSkip THEN [rx EXCEPT !.phase = "recv"]
    ELSE [rx EXCEPT !.skipped = @ + 1]
SubscribeReads ==
    /\ kind = "mqtt" /\ rx.phase = "suback" /\ at < Total
    /\ \E packet \in {NextPacket} :
        IF PayloadSize(packet) > SubackPayload
        THEN /\ Client([rx EXCEPT !.phase = "misaligned"])
             /\ at' = at + Len(packet) - PayloadSize(packet)
        ELSE Client(AfterSuback(packet)) /\ at' = at + Len(packet)
    /\ UNCHANGED <<out, faults>>
(* read_exact gives up after five seconds, before or inside a packet. *)
SubscribeTimesOut ==
    /\ kind = "mqtt" /\ rx.phase = "suback" /\ faults < MaxFaults
    /\ \E where \in {"recv", "misaligned"} : Client([rx EXCEPT !.phase = where])
    /\ faults' = faults + 1 /\ UNCHANGED <<at, out>>

HasPacket == TryExtractPacket(rx.buffer).packet # <<>>
(* recv reads when the buffer holds no whole packet. *)
RecvReads ==
    /\ kind = "mqtt" /\ rx.phase = "recv" /\ rx.acking = 0 /\ ~HasPacket
    /\ \E n \in Pieces :
        /\ at + n <= Total /\ at' = at + n
        /\ Client(IF Len(rx.buffer) + n > RxMax
                  THEN [rx EXCEPT !.phase = "closed", !.buffer = <<>>]
                  ELSE [rx EXCEPT !.buffer = @ \o Piece(n)])
    /\ UNCHANGED <<out, faults>>
(* A zero-byte read or a failed ping ends recv, and with it the connection. *)
RecvEnds ==
    /\ kind = "mqtt" /\ rx.phase = "recv" /\ rx.acking = 0 /\ ~HasPacket /\ faults < MaxFaults
    /\ Client([rx EXCEPT !.phase = "closed"])
    /\ faults' = faults + 1 /\ UNCHANGED <<at, out>>
(* process_packets, to its end or to the write of a PUBACK. *)
RecvProcesses ==
    /\ kind = "mqtt" /\ rx.phase = "recv" /\ rx.acking = 0 /\ HasPacket
    /\ \E x \in {TryExtractPacket(rx.buffer)} :
        LET made == ProcessPacket(x.packet)
            number == NumberOf(made, Publishes[case])
            taken == [rx EXCEPT !.buffer = x.left]
        IN  CASE made = Fatal -> Client([taken EXCEPT !.phase = "closed"]) /\ out' = out
              [] made = Handled -> Client(taken) /\ out' = out
              [] OTHER ->
                    IF made.id = NoId THEN Client(taken) /\ out' = Append(out, number)
                    ELSE Client([taken EXCEPT !.acking = number]) /\ out' = out
    /\ UNCHANGED <<at, faults>>
AckWithoutDelivery ==
    /\ kind = "mqtt" /\ rx.acking # 0
    /\ Client([rx EXCEPT !.acking = 0, !.acked = @ \cup {rx.acking}])
    /\ UNCHANGED <<at, faults, out>>
(* The PUBACK is written, or cannot be: the message is delivered all the same. *)
AckSent ==
    /\ kind = "mqtt" /\ rx.acking # 0
    /\ Client([rx EXCEPT !.acking = 0, !.acked = @ \cup {rx.acking}])
    /\ out' = Append(out, rx.acking) /\ UNCHANGED <<at, faults>>
AckFails ==
    /\ kind = "mqtt" /\ rx.acking # 0 /\ faults < MaxFaults
    /\ Client([rx EXCEPT !.acking = 0])
    /\ out' = Append(out, rx.acking) /\ faults' = faults + 1 /\ at' = at
(* mqtt_task drops recv after a second: while it reads nothing is lost,    *)
(* while a PUBACK is being written the message is.                         *)
RecvCancelled ==
    /\ kind = "mqtt" /\ rx.acking # 0 /\ faults < MaxFaults
    /\ Client([rx EXCEPT !.acking = 0])
    /\ faults' = faults + 1 /\ UNCHANGED <<at, out>>

-----------------------------------------------------------------------------
(* The download: perform_ota_update.                                       *)
FlashedImage(w) == SubSeq(w.flash, 1, IF w.written < Len(w.flash) THEN w.written ELSE Len(w.flash))
Download(changed) ==
    /\ kind = "ota" /\ rx' = changed /\ out' = FlashedImage(changed.writer)
    /\ UNCHANGED <<kind, case, faultAt>>
Failed(d) == [d EXCEPT !.phase = "failed"]

(* A chunk of the body is written, or the update is given up. *)
Writes(d, chunk) ==
    IF chunk = <<>> THEN [d EXCEPT !.phase = "body"]
    ELSE IF WriteAccepted(d.writer, chunk)
    THEN [d EXCEPT !.phase = "body", !.writer = Write(@, chunk)]
    ELSE Failed(d)
HeaderGrows(piece) ==
    LET head == rx.head \o piece
        start == BodyStart(head)
        read == [rx EXCEPT !.head = head]
        begun == [read EXCEPT !.writer = BeginWriter]
    IN  IF Len(head) > MaxHeader THEN Failed(rx)
        ELSE IF start = 0 THEN read
        ELSE IF ~StatusOk(head) THEN Failed(read)
        ELSE IF ~LengthFits(head) THEN Failed(begun)
        ELSE Writes(begun, SubSeq(head, start, Len(head)))
DownloadReads ==
    /\ kind = "ota" /\ rx.phase \in {"headers", "body"}
    /\ \E n \in Pieces :
        /\ at + n <= Total /\ at' = at + n
        /\ Download(IF rx.phase = "headers" THEN HeaderGrows(Piece(n)) ELSE Writes(rx, Piece(n)))
    /\ UNCHANGED faults

(* The end of the stream: verify_hash where the URL has a CRC, finalize. *)
CrcAccepted ==
    CASE case.crc = "none" -> TRUE
      [] case.crc = "good" -> rx.writer.crc = case.body
      [] case.crc = "bad" -> FALSE
Finished ==
    IF rx.phase = "headers" THEN Failed(rx)
    ELSE IF CrcAccepted /\ FinalizeAccepted(rx.writer)
    THEN [rx EXCEPT !.phase = "finalized", !.writer = Flush(@)]
    ELSE Failed(rx)
DownloadEnds ==
    /\ kind = "ota" /\ rx.phase \in {"headers", "body"} /\ at = Total
    /\ Download(Finished) /\ UNCHANGED <<at, faults>>
(* The server closes early, or the socket fails. *)
DownloadCut ==
    /\ kind = "ota" /\ rx.phase \in {"headers", "body"} /\ at < Total /\ faults < MaxFaults
    /\ \E after \in {Finished, Failed(rx)} : Download(after)
    /\ faults' = faults + 1 /\ at' = at

-----------------------------------------------------------------------------
(* The log: Logger::log captures what is not debug output, mqtt_task       *)
(* drains the ring, publishes the first messages and forgets the rest.  It *)
(* stops at a publish that fails.                                          *)
Logs ==
    /\ kind = "log" /\ at < Total /\ at' = at + 1
    /\ rx' = IF Logged(at + 1) THEN Push(rx, at + 1) ELSE rx
    /\ UNCHANGED <<kind, case, out, faults, faultAt>>
LogsPublished ==
    /\ kind = "log" /\ rx.entries # <<>> /\ rx' = NewLog
    /\ \E tried \in {IF Len(rx.entries) < LogBatch THEN Len(rx.entries) ELSE LogBatch} :
        \E sent \in 0 .. tried :
            /\ faults' = (IF sent = tried THEN faults ELSE faults + 1) /\ faults' <= MaxFaults
            /\ out' = out \o SubSeq(Drain(rx), 1, sent)
    /\ UNCHANGED <<kind, case, at, faultAt>>

-----------------------------------------------------------------------------
(* A capture of the line.  The main loop takes a request or its            *)
(* withdrawal; uart_task starts, records what it reads and its own answer  *)
(* to a query, and ends a capture that is old or long enough.              *)
Capture(changed) == kind = "sniff" /\ rx' = changed /\ UNCHANGED <<kind, case, faultAt>>
SniffCommand ==
    /\ kind = "sniff" /\ faults < MaxFaults /\ faults' = faults + 1
    /\ \E on \in BOOLEAN : Capture([rx EXCEPT !.capture = on, !.mode = on])
    /\ UNCHANGED <<at, out>>
CheckStart ==
    /\ kind = "sniff" /\ ~rx.sniff.active /\ rx.capture
    /\ Capture([rx EXCEPT !.sniff = StartSniff]) /\ UNCHANGED <<at, out, faults>>
Finish(r) ==
    [r EXCEPT !.sniff = NewSniff, !.capture = FALSE,
              !.channel = IF Len(@) < SniffCap THEN Append(@, r.sniff.chunks) ELSE @]
Recorded(r, dir, data, late) ==
    LET s == RecordChunk(r.sniff, dir, data)
        grown == [r EXCEPT !.sniff = s]
    IN  IF CaptureFull(s) \/ (s.active /\ late) THEN Finish(grown) ELSE grown
Query == Frame(<<254, 191>>, <<0>>)
Response == Frame(<<254, 191>>, <<1, 2, 241, 115>>)
(* The line is clean: uart_task has a frame with its last byte. *)
QueryIn(n) == \E i \in 1 .. SniffFrames : SentFrames[i] = Query /\ FrameEnd[i] \in at + 1 .. at + n
UartReads ==
    /\ kind = "sniff"
    /\ \E n \in {k \in SniffReads : at + k <= Total} : \E late \in {"no", "R", "T"} :
        /\ at' = at + n
        /\ \E heard \in {Recorded(rx, "R", Piece(n), late = "R")} :
            Capture(IF QueryIn(n) /\ case = "joining"
                    THEN Recorded(heard, "T", Encode(Response), late = "T") ELSE heard)
    /\ UNCHANGED <<out, faults>>
(* The tick of the main loop sees that the capture is over. *)
SniffModeEnds ==
    /\ kind = "sniff" /\ rx.mode /\ ~rx.capture
    /\ Capture([rx EXCEPT !.mode = FALSE]) /\ UNCHANGED <<at, out, faults>>
(* A capture is published, or lost; the host decodes it and shows one     *)
(* entry after the other before it takes the next.                         *)
SniffPublished ==
    /\ kind = "sniff" /\ rx.channel # <<>> /\ rx.shown = Len(rx.entries)
    /\ \E chunks \in {rx.channel[1]} : \E bytes \in {AllBytes(chunks)} :
        \E found \in {DecodedFrames(bytes)} :
            Capture([rx EXCEPT !.channel = Tail(@), !.bytes = bytes, !.shown = 0,
                               !.entries = HandleChunksFormat(chunks, bytes, found)])
    /\ UNCHANGED <<at, out, faults>>
HostShows ==
    /\ kind = "sniff" /\ rx.shown < Len(rx.entries)
    /\ Capture([rx EXCEPT !.shown = @ + 1])
    /\ \E frame \in {rx.entries[rx.shown + 1].frame} :
        out' = IF frame \in {Garbage, Response} THEN out
               ELSE Append(out, NumberOf(frame, SentFrames))
    /\ UNCHANGED <<at, faults>>
SniffPublishFails ==
    /\ kind = "sniff" /\ rx.channel # <<>> /\ faults < MaxFaults
    /\ Capture([rx EXCEPT !.channel = Tail(@)]) /\ faults' = faults + 1 /\ UNCHANGED <<at, out>>

-----------------------------------------------------------------------------
Step ==
    \/ LineByte
    \/ ConnackReads \/ SubscribeReads \/ RecvReads \/ RecvProcesses \/ AckSent
    \/ DownloadReads \/ DownloadEnds
    \/ Logs \/ LogsPublished
    \/ CheckStart \/ UartReads \/ SniffModeEnds \/ SniffPublished \/ HostShows
Fault ==
    \/ ByteLost \/ ByteFlipped \/ ByteAdded
    \/ ConnackTimesOut \/ SubscribeTimesOut \/ RecvEnds \/ AckFails \/ RecvCancelled
    \/ DownloadCut
    \/ SniffCommand \/ SniffPublishFails
Next == Step \/ Fault
Spec == Init /\ [][Next]_vars /\ WF_vars(Step)

-----------------------------------------------------------------------------
(* Every receiver hands on what was sent, unchanged, in order and at most  *)
(* once: the frame decoders whatever the line does to the bytes, the MQTT  *)
(* client and the download whatever the pieces, the readers of the log and *)
(* of captures whatever was overwritten, dropped or cut.  Only the         *)
(* download never leaves an item out.                                      *)
NotYet == IF kind = "ota" THEN SubSeq(Items, Len(out) + 1, Len(Items))
          ELSE IF out = <<>> THEN Items
          ELSE SubSeq(Items, NumberOf(out[Len(out)], Items) + 1, Len(Items))
AllItems ==
    {Numbered(Len(SentFrames)), Captured[Len(LogLevels)]} \cup {c.body : c \in ImageCases}
      \cup {Numbered(Len(Publishes[c])) : c \in PacketCases}
Receiver == INSTANCE InOrder WITH
    Sendable <- AllItems, todo <- NotYet, done <- out, lossy <- kind # "ota"
DeliversInOrder == Receiver!Spec

(* Once the line is clean again the frame decoder finds its way back: a    *)
(* lost length byte makes it take another byte for the length, up to 255,  *)
(* and it swallows as many bytes; two frames later it is in step.          *)
Resync ==
    kind \in Lines /\ at >= faultAt + 255 + 2 * Longest
      => \A i \in 1 .. Len(SentFrames) : FrameEnd[i] = at => out # <<>> /\ out[Len(out)] = i

(* A frame decoder on a line that keeps talking never collects more than a *)
(* length byte can announce and the frame it was in the middle of.         *)
BufferBounded == kind \in Lines => Len(rx.buffer) <= 255 + Longest

(* A message the client acknowledged was handed on: a recv dropped in the  *)
(* middle of a PUBACK leaves the message to the broker.                    *)
AckedIsDelivered == kind = "mqtt" => \A i \in rx.acked : \E k \in 1 .. Len(out) : out[k] = i

(* An update that is finalized under a CRC has the image in flash, to the  *)
(* last byte and padded to a word, however the pieces were cut.            *)
ImageIntact ==
    kind = "ota" /\ rx.phase = "finalized" /\ case.crc # "none"
      => case.crc = "good" /\ rx.writer.flash = Padded(case.body)

(* With a Content-Length the writer stays inside its partition. *)
WithinPartition ==
    kind = "ota" /\ case.length = Len(case.body) => Len(rx.writer.flash) <= PartitionSize

(* However often it was overwritten and drained, the ring gives the newest *)
(* messages that were captured, without a gap and oldest first.            *)
RingHoldsNewest ==
    kind = "log" =>
        LET captured == Captured[at]
        IN  Drain(rx) = SubSeq(captured, Len(captured) - Len(rx.entries) + 1, Len(captured))

(* The host accounts for every byte of a capture once, in a frame or as    *)
(* garbage; what it shows as a frame ends with the bytes of that frame,    *)
(* wherever the capture began and the answer to a query cut into it.       *)
CaptureExplained ==
    kind = "sniff" =>
        LET entries == rx.entries
            Within(e, i) == e.start <= i /\ i <= e.end
        IN  /\ \A i \in 1 .. Len(rx.bytes) : \E k \in 1 .. Len(entries) :
                    /\ Within(entries[k], i)
                    /\ \A j \in (1 .. Len(entries)) \ {k} : ~Within(entries[j], i)
            /\ \A k \in 1 .. Len(entries) : entries[k].frame # Garbage =>
                    IsSuffix(Encode(entries[k].frame), SubSeq(rx.bytes, entries[k].start, entries[k].end))

(* What arrives is used up: no byte, packet, message or capture waits for  *)
(* ever, and sniff mode shows as long as a capture is asked for.           *)
Drains ==
    <>[](CASE kind \in Lines -> at = Total
           [] kind = "mqtt" -> rx.phase \in {"closed", "misaligned"} \/ (at = Total /\ rx.buffer = <<>>)
           [] kind = "ota" -> rx.phase \in {"finalized", "failed"}
           [] kind = "log" -> at = Total /\ rx.entries = <<>>
           [] kind = "sniff" -> rx.channel = <<>> /\ rx.shown = Len(rx.entries) /\ rx.mode = rx.capture)

(* The firmware in flash: whole when it is finalized under a CRC, and      *)
(* inside its partition (write, finalize).                                 *)
ImageSafe == ImageIntact /\ WithinPartition

(* Frames are found again: the decoder of the device is back in step soon  *)
(* after a fault of the line (FrameDecoder::feed), and the host explains a *)
(* capture to the last byte wherever it began (OffsetFrameDecoder).        *)
InStep == Resync /\ CaptureExplained

(* What is kept meanwhile: a decoder that waits for the end of a frame     *)
(* collects no more than a length can announce and one frame, and the log  *)
(* ring holds the newest messages in order (feed, push, drain).            *)
BuffersHold == BufferBounded /\ RingHoldsNewest
=============================================================================
