--------------------------- MODULE StreamsProofs ----------------------------
(***************************************************************************)
(* Proofs about Streams: the MQTT client acknowledges only what it hands   *)
(* on; the firmware download leaves a whole image in flash and stays       *)
(* inside its partition, for every image, every cut into pieces, every     *)
(* size of a word and of the partition; the frame decoders and the ring of *)
(* the log hold what they should, for every line and every log; and the    *)
(* decoders on a line without faults, the client, the download and the log *)
(* implement InOrder; behind a fault the decoders find their way back; and *)
(* the host explains every byte of a capture once.                         *)
(***************************************************************************)
EXTENDS Streams, SequenceTheorems, FunctionTheorems, FiniteSetTheorems, NaturalsInduction,
        WellFoundedInduction, TLAPS

-----------------------------------------------------------------------------
(* Acknowledged messages.                                                  *)

(* The records of the client, whatever their fields hold. *)
IsClient(r) ==
    r = [phase |-> r.phase, awaited |-> r.awaited, skipped |-> r.skipped, buffer |-> r.buffer,
         acking |-> r.acking, acked |-> r.acked]
AckInv ==
    kind = "mqtt" =>
        /\ IsClient(rx) /\ rx.acking \in Int /\ out \in Seq(Int)
        /\ AckedIsDelivered

(* NumberOf numbers. *)
LEMMA NumberIsInt ==
    ASSUME NEW item, NEW all
    PROVE  NumberOf(item, all) \in Int
  <1>1. CASE \E i \in 1 .. Len(all) : all[i] = item
    BY <1>1 DEF NumberOf
  <1>2. CASE ~\E i \in 1 .. Len(all) : all[i] = item
    BY <1>2 DEF NumberOf, Unknown
  <1> QED BY <1>1, <1>2

(* A step that acknowledges nothing, or what it hands on. *)
LEMMA AckStep ==
    ASSUME AckInv, kind = "mqtt", kind' = kind, IsClient(rx'), rx'.acking \in Int,
           \/ out' = out /\ rx'.acked = rx.acked
           \/ \E n \in Int : /\ out' = Append(out, n)
                             /\ rx'.acked \subseteq rx.acked \cup {n}
    PROVE  AckInv'
  <1>1. out \in Seq(Int) /\ \A i \in rx.acked : \E k \in 1 .. Len(out) : out[k] = i
    BY DEF AckInv, AckedIsDelivered
  <1>2. CASE out' = out /\ rx'.acked = rx.acked
    BY <1>1, <1>2 DEF AckInv, AckedIsDelivered
  <1>3. ASSUME NEW n \in Int, out' = Append(out, n), rx'.acked \subseteq rx.acked \cup {n}
        PROVE  AckInv'
    <2>1. /\ out' \in Seq(Int) /\ Len(out') = Len(out) + 1 /\ out'[Len(out) + 1] = n
          /\ \A k \in 1 .. Len(out) : out'[k] = out[k]
      BY <1>1, <1>3
    <2>2. ASSUME NEW i \in rx'.acked PROVE \E k \in 1 .. Len(out') : out'[k] = i
      <3>1. CASE i = n
        BY <1>1, <2>1, <3>1
      <3>2. CASE i \in rx.acked
        BY <1>1, <2>1, <3>2
      <3> QED BY <1>3, <3>1, <3>2
    <2> QED BY <2>1, <2>2 DEF AckInv, AckedIsDelivered
  <1> QED BY <1>2, <1>3

(* Steps of the other receivers. *)
OtherStep ==
    \/ LineByte \/ ByteLost \/ ByteFlipped \/ ByteAdded
    \/ DownloadReads \/ DownloadEnds \/ DownloadCut
    \/ Logs \/ LogsPublished
    \/ CheckStart \/ UartReads \/ SniffModeEnds \/ SniffPublished \/ HostShows
    \/ SniffCommand \/ SniffPublishFails
LEMMA OthersKeepKind ==
    ASSUME OtherStep
    PROVE  kind # "mqtt" /\ kind' = kind
  <1>1. CASE LineByte \/ ByteLost \/ ByteFlipped \/ ByteAdded
    BY <1>1 DEF LineByte, ByteLost, ByteFlipped, ByteAdded, LineFaulty, Lines
  <1>2. CASE DownloadReads \/ DownloadEnds \/ DownloadCut
    BY <1>2 DEF DownloadReads, DownloadEnds, DownloadCut, Download
  <1>3. CASE Logs \/ LogsPublished
    BY <1>3 DEF Logs, LogsPublished
  <1>4. CASE \/ CheckStart \/ UartReads \/ SniffModeEnds \/ SniffPublished \/ HostShows
             \/ SniffCommand \/ SniffPublishFails
    BY <1>4 DEF CheckStart, UartReads, SniffModeEnds, SniffPublished, HostShows, SniffCommand,
                SniffPublishFails, Capture
  <1> QED BY <1>1, <1>2, <1>3, <1>4 DEF OtherStep

(* Every step keeps the invariant. *)
LEMMA NextKeepsAck ==
    ASSUME AckInv, [Next]_vars
    PROVE  AckInv'
  <1>a. ASSUME kind = "mqtt" PROVE IsClient(rx) /\ rx.acking \in Int
    BY <1>a DEF AckInv
  <1>1. CASE OtherStep
    BY <1>1, OthersKeepKind DEF AckInv
  <1>2. CASE UNCHANGED vars
    BY <1>2 DEF vars, AckInv, AckedIsDelivered, IsClient
  <1>3. CASE ConnackReads \/ ConnackTimesOut \/ SubscribeTimesOut \/ RecvReads \/ RecvEnds \/ RecvCancelled
    <2>1. kind = "mqtt" /\ kind' = kind /\ out' = out
      BY <1>3 DEF ConnackReads, ConnackTimesOut, SubscribeTimesOut, RecvReads, RecvEnds,
                  RecvCancelled, Client
    <2>2. IsClient(rx') /\ rx'.acked = rx.acked /\ rx'.acking \in Int
      <3>1. CASE ConnackReads
        BY <1>a, <2>1, <3>1 DEF ConnackReads, Client, IsClient
      <3>2. CASE ConnackTimesOut \/ SubscribeTimesOut \/ RecvEnds \/ RecvCancelled
        BY <1>a, <2>1, <3>2 DEF ConnackTimesOut, SubscribeTimesOut, RecvEnds, RecvCancelled,
                                Client, IsClient
      <3>3. CASE RecvReads
        BY <1>a, <2>1, <3>3 DEF RecvReads, Client, IsClient
      <3> QED BY <1>3, <3>1, <3>2, <3>3
    <2> QED BY <2>1, <2>2, AckStep
  <1>4. CASE SubscribeReads
    <2>1. kind = "mqtt" /\ kind' = kind /\ out' = out
      BY <1>4 DEF SubscribeReads, Client
    <2>2. \/ rx' = [rx EXCEPT !.phase = "misaligned"]
          \/ \E packet : rx' = AfterSuback(packet)
      BY <1>4 DEF SubscribeReads, Client
    <2>3. IsClient(rx') /\ rx'.acked = rx.acked /\ rx'.acking \in Int
      <3>1. CASE rx' = [rx EXCEPT !.phase = "misaligned"]
        BY <1>a, <2>1, <3>1 DEF IsClient
      <3>2. ASSUME NEW packet, rx' = AfterSuback(packet)
            PROVE  IsClient(rx') /\ rx'.acked = rx.acked /\ rx'.acking \in Int
        BY <1>a, <2>1, <3>2 DEF AfterSuback, IsClient
      <3> QED BY <2>2, <3>1, <3>2
    <2> QED BY <2>1, <2>3, AckStep
  <1>5. CASE RecvProcesses
    <2>1. kind = "mqtt" /\ kind' = kind /\ rx.acking = 0
      BY <1>5 DEF RecvProcesses, Client
    <2>2. PICK x : LET made == ProcessPacket(x.packet)
                       number == NumberOf(made, Publishes[case])
                       taken == [rx EXCEPT !.buffer = x.left]
                   IN  \/ rx' \in {taken, [taken EXCEPT !.phase = "closed"]} /\ out' = out
                       \/ rx' = taken /\ out' = Append(out, number)
                       \/ rx' = [taken EXCEPT !.acking = number] /\ out' = out
      <3>1. PICK x \in {TryExtractPacket(rx.buffer)} :
                LET made == ProcessPacket(x.packet)
                    number == NumberOf(made, Publishes[case])
                    taken == [rx EXCEPT !.buffer = x.left]
                IN  CASE made = Fatal -> Client([taken EXCEPT !.phase = "closed"]) /\ out' = out
                      [] made = Handled -> Client(taken) /\ out' = out
                      [] OTHER ->
                            IF made.id = NoId THEN Client(taken) /\ out' = Append(out, number)
                            ELSE Client([taken EXCEPT !.acking = number]) /\ out' = out
        BY <1>5 DEF RecvProcesses
      <3>2. WITNESS x
      <3> QED BY <3>1 DEF Client
    <2>3. NumberOf(ProcessPacket(x.packet), Publishes[case]) \in Int
      BY NumberIsInt
    <2>4. /\ IsClient(rx') /\ rx'.acked = rx.acked /\ rx'.acking \in Int
          /\ \/ out' = out
             \/ \E n \in Int : out' = Append(out, n)
      BY <1>a, <2>1, <2>2, <2>3 DEF IsClient
    <2> QED BY <2>1, <2>4, AckStep
  <1>6. CASE AckSent \/ AckFails
    <2>1. /\ kind = "mqtt" /\ kind' = kind /\ out' = Append(out, rx.acking)
          /\ \/ rx' = [rx EXCEPT !.acking = 0, !.acked = @ \cup {rx.acking}]
             \/ rx' = [rx EXCEPT !.acking = 0]
      BY <1>6 DEF AckSent, AckFails, Client
    <2>2. /\ IsClient(rx') /\ rx'.acking = 0
          /\ rx'.acked = rx.acked \/ rx'.acked = rx.acked \cup {rx.acking}
      <3>1. CASE rx' = [rx EXCEPT !.acking = 0, !.acked = @ \cup {rx.acking}]
        BY <1>a, <2>1, <3>1 DEF IsClient
      <3>2. CASE rx' = [rx EXCEPT !.acking = 0]
        BY <1>a, <2>1, <3>2 DEF IsClient
      <3> QED BY <2>1, <3>1, <3>2
    <2> QED BY <1>a, <2>1, <2>2, AckStep
  <1> QED BY <1>1, <1>2, <1>3, <1>4, <1>5, <1>6 DEF Next, Step, Fault, OtherStep

(* A message the client acknowledged was handed on, though recv may be     *)
(* dropped in the middle of a PUBACK and the PUBACK may fail               *)
(* (process_packets).                                                      *)
THEOREM AcknowledgedIsDelivered == Spec => []AckedIsDelivered
  <1>1. Init => AckInv
    <2> SUFFICES ASSUME Init, kind = "mqtt" PROVE AckInv
      BY DEF AckInv
    <2>1. rx = NewClient /\ out = <<>>
      BY DEF Init, Lines
    <2>2. out \in Seq(Int)
      BY <2>1, EmptySeq
    <2> QED BY <2>1, <2>2 DEF AckInv, IsClient, NewClient, AckedIsDelivered
  <1>2. AckInv => AckedIsDelivered
    BY DEF AckInv, AckedIsDelivered
  <1> QED BY <1>1, <1>2, NextKeepsAck, PTL DEF Spec

-----------------------------------------------------------------------------
(* The image in flash.                                                     *)

(* What is written so far: whole words in flash, less than a word pending, *)
(* together the bytes the CRC was taken of.                                *)
IsWriter(w) ==
    w = [flash |-> w.flash, pending |-> w.pending, written |-> w.written, crc |-> w.crc,
         begun |-> w.begun]
WriterFits(w) ==
    /\ IsWriter(w) /\ w.flash \in Seq(Nat) /\ w.pending \in Seq(Nat)
    /\ Len(w.flash) % WordSize = 0 /\ Len(w.pending) < WordSize
    /\ w.crc = w.flash \o w.pending /\ w.written = Len(w.crc)

(* The inductive invariant of the download: the header is what has come,   *)
(* and behind an accepted header the writer was given the first bytes of   *)
(* the body, in order and without a gap, wherever the pieces were cut.     *)
HeaderSize == 6
IsDownload(d) == d = [phase |-> d.phase, head |-> d.head, writer |-> d.writer]
BodyFits(d, n) ==
    /\ case.status = 200 /\ (case.length = NoLength \/ case.length <= PartitionSize)
    /\ WriterFits(d.writer)
    /\ n \in 0 .. Len(case.body) /\ d.writer.crc = SubSeq(case.body, 1, n)
DownloadInv ==
    kind = "ota" =>
        /\ case \in ImageCases /\ at \in 0 .. Total /\ IsDownload(rx)
        /\ rx.phase = "headers" => rx.writer = NewWriter /\ rx.head = SubSeq(Bytes, 1, at)
        /\ rx.phase = "body" => BodyFits(rx, at - HeaderSize)
        /\ ImageSafe

(* Words: quotients and remainders. *)
LEMMA Quotient ==
    ASSUME NEW a \in Nat
    PROVE  /\ a \div WordSize \in Nat /\ a % WordSize \in 0 .. WordSize - 1
           /\ a = WordSize * (a \div WordSize) + (a % WordSize)
  BY WriterAssumption
LEMMA Remainder ==
    ASSUME NEW q \in Nat, NEW r \in 0 .. WordSize - 1
    PROVE  (WordSize * q + r) % WordSize = r
  BY WriterAssumption
LEMMA WordsCounted ==
    ASSUME NEW a \in Nat, a % WordSize = 0
    PROVE  \E p \in Nat : a = WordSize * p
  <1>1. a \div WordSize \in Nat /\ a = WordSize * (a \div WordSize) + (a % WordSize)
    BY Quotient
  <1>2. WordSize * (a \div WordSize) \in Nat
    BY <1>1, WriterAssumption
  <1>3. a = WordSize * (a \div WordSize)
    BY <1>1, <1>2
  <1> QED BY <1>1, <1>3
LEMMA WordsAdd ==
    ASSUME NEW a \in Nat, NEW b \in Nat, a % WordSize = 0
    PROVE  (a + b) % WordSize = b % WordSize
  <1>1. PICK p \in Nat : a = WordSize * p
    BY WordsCounted
  <1>2. PICK q \in Nat, r \in 0 .. WordSize - 1 : b = WordSize * q + r /\ r = b % WordSize
    BY Quotient, WriterAssumption
  <1>3. a + b = WordSize * (p + q) + r
    BY <1>1, <1>2, WriterAssumption
  <1> QED BY <1>2, <1>3, Remainder
LEMMA NextWord ==
    ASSUME NEW a \in Nat, NEW b \in Nat, a % WordSize = 0, b % WordSize = 0, a < b
    PROVE  a + WordSize <= b
  <1>1. PICK p \in Nat : a = WordSize * p
    BY WordsCounted
  <1>2. PICK q \in Nat : b = WordSize * q
    BY WordsCounted
  <1>3. p < q
    BY <1>1, <1>2, WriterAssumption
  <1>4. WordSize * (p + 1) <= WordSize * q
    BY <1>3, WriterAssumption
  <1> QED BY <1>1, <1>2, <1>4, WriterAssumption

(* WholeWords cuts at a word. *)
LEMMA WholeWordsFit ==
    ASSUME NEW data \in Seq(Nat)
    PROVE  /\ WholeWords(data) \in 0 .. Len(data) /\ WholeWords(data) % WordSize = 0
           /\ Len(data) - WholeWords(data) < WordSize
  <1>1. PICK q \in Nat, r \in 0 .. WordSize - 1 :
          Len(data) = WordSize * q + r /\ r = Len(data) % WordSize
    BY Quotient, LenProperties
  <1>2. WholeWords(data) = WordSize * q + 0 /\ WordSize * q \in Nat
    BY <1>1, WriterAssumption DEF WholeWords
  <1>3. (WordSize * q + 0) % WordSize = 0
    BY Remainder, WriterAssumption
  <1> QED BY <1>1, <1>2, <1>3, WriterAssumption

(* A sequence cut in two. *)
LEMMA CutInTwo ==
    ASSUME NEW s \in Seq(Nat), NEW cut \in 0 .. Len(s)
    PROVE  /\ SubSeq(s, 1, cut) \in Seq(Nat) /\ Len(SubSeq(s, 1, cut)) = cut
           /\ SubSeq(s, cut + 1, Len(s)) \in Seq(Nat)
           /\ Len(SubSeq(s, cut + 1, Len(s))) = Len(s) - cut
           /\ SubSeq(s, 1, cut) \o SubSeq(s, cut + 1, Len(s)) = s
  <1>1. Len(s) \in Nat /\ \A i \in 1 .. Len(s) : s[i] \in Nat
    BY LenProperties, ElementOfSeq
  <1>2. SubSeq(s, 1, cut) \in Seq(Nat) /\ Len(SubSeq(s, 1, cut)) = cut
    BY <1>1, SubSeqProperties
  <1>3. /\ SubSeq(s, cut + 1, Len(s)) \in Seq(Nat)
        /\ Len(SubSeq(s, cut + 1, Len(s))) = Len(s) - cut
    BY <1>1, SubSeqProperties
  <1>4. SubSeq(s, 1, cut) \o SubSeq(s, cut + 1, Len(s)) = SubSeq(s, 1, Len(s))
    <2>1. 1 \in 1 .. Len(s) + 1 /\ cut \in 1 - 1 .. Len(s) /\ Len(s) \in cut .. Len(s)
      BY <1>1
    <2> QED BY <2>1, ConcatAdjacentSubSeq
  <1> QED BY <1>2, <1>3, <1>4, SubSeqFull

(* Bytes put together. *)
LEMMA Regrouped ==
    ASSUME NEW s1 \in Seq(Nat), NEW s2 \in Seq(Nat), NEW s3 \in Seq(Nat)
    PROVE  (s1 \o s2) \o s3 = s1 \o (s2 \o s3)
  OBVIOUS
LEMMA ConcatFits ==
    ASSUME NEW s1 \in Seq(Nat), NEW s2 \in Seq(Nat)
    PROVE  s1 \o s2 \in Seq(Nat) /\ Len(s1 \o s2) = Len(s1) + Len(s2)
  OBVIOUS

(* What a write makes of the bytes: whole words join those in flash. *)
Words(kept, more) == SubSeq(kept \o more, 1, WholeWords(kept \o more))
Rest(kept, more) ==
    SubSeq(kept \o more, WholeWords(kept \o more) + 1, Len(kept \o more))
LEMMA WholeWordsWritten ==
    ASSUME NEW flash \in Seq(Nat), NEW kept \in Seq(Nat), NEW more \in Seq(Nat),
           Len(flash) % WordSize = 0
    PROVE  /\ flash \o Words(kept, more) \in Seq(Nat)
           /\ Len(flash \o Words(kept, more)) % WordSize = 0
           /\ Rest(kept, more) \in Seq(Nat) /\ Len(Rest(kept, more)) < WordSize
           /\ (flash \o Words(kept, more)) \o Rest(kept, more) = (flash \o kept) \o more
           /\ Len((flash \o kept) \o more) = Len(flash \o kept) + Len(more)
  <1>0. PICK cut, words, rest :
          /\ cut = WholeWords(kept \o more)
          /\ words = Words(kept, more) /\ rest = Rest(kept, more)
    OBVIOUS
  <1>1. PICK data \in Seq(Nat) : data = kept \o more
    BY ConcatFits
  <1>2. cut \in 0 .. Len(data) /\ cut % WordSize = 0 /\ Len(data) - cut < WordSize
    BY <1>0, <1>1, WholeWordsFit
  <1>3. /\ words \in Seq(Nat) /\ Len(words) = cut
        /\ rest \in Seq(Nat) /\ Len(rest) = Len(data) - cut /\ words \o rest = data
    BY <1>0, <1>1, <1>2, CutInTwo DEF Words, Rest
  <1>4. cut \in Nat /\ Len(flash) \in Nat
    BY <1>2, LenProperties
  <1>5. flash \o words \in Seq(Nat) /\ Len(flash \o words) = Len(flash) + cut
    <2>1. words \in Seq(Nat) /\ Len(words) = cut
      BY <1>3
    <2> QED BY ONLY <2>1, ConcatFits
  <1>6. (Len(flash) + cut) % WordSize = 0
    BY <1>2, <1>4, WordsAdd
  <1>7. (flash \o words) \o rest = (flash \o kept) \o more
    <2>1. words \in Seq(Nat) /\ rest \in Seq(Nat) /\ words \o rest = kept \o more
      BY <1>1, <1>3
    <2>2. (flash \o words) \o rest = flash \o (words \o rest)
      BY ONLY <2>1, Regrouped
    <2>3. (flash \o kept) \o more = flash \o (kept \o more)
      BY ONLY Regrouped
    <2> QED BY <2>1, <2>2, <2>3
  <1>8. Len((flash \o kept) \o more) = Len(flash \o kept) + Len(more)
    <2>1. flash \o kept \in Seq(Nat)
      BY ConcatFits
    <2> QED BY <2>1, ConcatFits
  <1> QED BY <1>0, <1>2, <1>3, <1>5, <1>6, <1>7, <1>8

(* A chunk of any size: whole words go to flash, nothing is lost. *)
LEMMA WriteFits ==
    ASSUME NEW w, WriterFits(w), NEW chunk \in Seq(Nat)
    PROVE  WriterFits(Write(w, chunk)) /\ Write(w, chunk).crc = w.crc \o chunk
  <1>1. /\ IsWriter(w) /\ w.flash \in Seq(Nat) /\ w.pending \in Seq(Nat)
        /\ Len(w.flash) % WordSize = 0
        /\ w.crc = w.flash \o w.pending /\ w.written = Len(w.crc)
    BY DEF WriterFits
  <1>2. PICK words, rest : words = Words(w.pending, chunk) /\ rest = Rest(w.pending, chunk)
    OBVIOUS
  <1>3. PICK f, n, c, v : /\ f = w.flash \o words /\ n = w.written + Len(chunk)
                          /\ c = w.crc \o chunk /\ v = Write(w, chunk)
    OBVIOUS
  <1>4. v = [w EXCEPT !.flash = f, !.written = n, !.crc = c, !.pending = rest]
    BY <1>2, <1>3 DEF Write, Words, Rest
  <1>5. IsWriter(v) /\ v.flash = f /\ v.written = n /\ v.crc = c /\ v.pending = rest
    BY ONLY <1>1, <1>4 DEF IsWriter
  <1>6. /\ w.flash \o words \in Seq(Nat) /\ Len(w.flash \o words) % WordSize = 0
        /\ rest \in Seq(Nat) /\ Len(rest) < WordSize
        /\ (w.flash \o words) \o rest = (w.flash \o w.pending) \o chunk
        /\ Len((w.flash \o w.pending) \o chunk) = Len(w.flash \o w.pending) + Len(chunk)
    BY <1>1, <1>2, WholeWordsWritten, Zenon
  <1>7. f \o rest = c /\ Len(c) = n
    BY <1>1, <1>3, <1>6
  <1> QED BY <1>3, <1>5, <1>6, <1>7 DEF WriterFits

(* finalize pads the last word: what was padded is what was written, and   *)
(* an image that fits still fits.                                          *)
LEMMA PaddingFits ==
    ASSUME NEW n \in Nat, NEW k, k = (WordSize - (n % WordSize)) % WordSize
    PROVE  [i \in 1 .. k |-> Pad] \in Seq(Nat) /\ Len([i \in 1 .. k |-> Pad]) = k /\ k \in Nat
  <1>1. n % WordSize \in 0 .. WordSize - 1
    BY Quotient
  <1>2. k \in Nat
    BY <1>1, Quotient, WriterAssumption
  <1>3. [i \in 1 .. k |-> Pad] \in [1 .. k -> Nat]
    BY DEF Pad
  <1> QED BY <1>2, <1>3, SeqDef
LEMMA PaddingSize ==
    ASSUME NEW p \in Nat, p < WordSize, NEW k, k = (WordSize - (p % WordSize)) % WordSize
    PROVE  (p = 0 /\ k = 0) \/ (p > 0 /\ k = WordSize - p)
  <1>1. p % WordSize = p
    <2>1. (WordSize * 0 + p) % WordSize = p
      BY Remainder, WriterAssumption
    <2>2. WordSize * 0 + p = p
      BY WriterAssumption
    <2> QED BY <2>1, <2>2
  <1>2. CASE p = 0
    <2>1. (WordSize * 1 + 0) % WordSize = 0
      BY Remainder, WriterAssumption
    <2>2. WordSize * 1 + 0 = WordSize - 0
      BY WriterAssumption
    <2> QED BY <1>1, <1>2, <2>1, <2>2
  <1>3. CASE p > 0
    <2>1. (WordSize * 0 + (WordSize - p)) % WordSize = WordSize - p
      BY <1>3, Remainder, WriterAssumption
    <2>2. WordSize * 0 + (WordSize - p) = WordSize - p
      BY WriterAssumption
    <2> QED BY <1>1, <1>3, <2>1, <2>2
  <1> QED BY <1>2, <1>3
LEMMA PaddedFits ==
    ASSUME NEW flash \in Seq(Nat), NEW kept \in Seq(Nat),
           Len(flash) % WordSize = 0, Len(kept) < WordSize
    PROVE  /\ flash \o Padded(kept) = Padded(flash \o kept)
           /\ Len(flash \o kept) <= PartitionSize => Len(flash \o Padded(kept)) <= PartitionSize
  <1>1. /\ flash \o kept \in Seq(Nat) /\ Len(flash \o kept) = Len(flash) + Len(kept)
        /\ Len(flash) \in Nat /\ Len(kept) \in Nat
    BY ConcatFits, LenProperties
  <1>2. Len(flash \o kept) % WordSize = Len(kept) % WordSize
    BY <1>1, WordsAdd
  <1>3. PICK k : k = (WordSize - (Len(kept) % WordSize)) % WordSize
    OBVIOUS
  <1>4. PICK pad : pad = [i \in 1 .. k |-> Pad]
    OBVIOUS
  <1>5. pad \in Seq(Nat) /\ Len(pad) = k /\ k \in Nat
    BY <1>1, <1>3, <1>4, PaddingFits
  <1>6. Padded(kept) = kept \o pad /\ Padded(flash \o kept) = (flash \o kept) \o pad
    BY <1>2, <1>3, <1>4 DEF Padded
  <1>7. (flash \o kept) \o pad = flash \o (kept \o pad)
    BY ONLY <1>5, Regrouped
  <1>8. Len((flash \o kept) \o pad) = Len(flash) + Len(kept) + k
    BY <1>1, <1>5, ConcatFits
  <1>9. ASSUME Len(flash) + Len(kept) <= PartitionSize
        PROVE  Len(flash) + Len(kept) + k <= PartitionSize
    <2>1. CASE Len(kept) = 0
      BY <1>1, <1>3, <1>9, <2>1, PaddingSize, WriterAssumption
    <2>2. CASE Len(kept) > 0
      <3>1. k = WordSize - Len(kept)
        BY <1>1, <1>3, <2>2, PaddingSize
      <3>2. Len(flash) < PartitionSize
        BY <1>1, <1>9, <2>2, WriterAssumption
      <3>3. Len(flash) + WordSize <= PartitionSize
        BY <1>1, <3>2, NextWord, WriterAssumption
      <3> QED BY <1>1, <3>1, <3>3, WriterAssumption
    <2> QED BY <1>1, <2>1, <2>2
  <1> QED BY <1>1, <1>6, <1>7, <1>8, <1>9

LEMMA FlushFits ==
    ASSUME NEW w, WriterFits(w)
    PROVE  /\ Flush(w).flash = Padded(w.crc)
           /\ Len(w.crc) <= PartitionSize => Len(Flush(w).flash) <= PartitionSize
  <1>1. /\ IsWriter(w) /\ w.flash \in Seq(Nat) /\ w.pending \in Seq(Nat)
        /\ Len(w.flash) % WordSize = 0 /\ Len(w.pending) < WordSize
        /\ w.crc = w.flash \o w.pending
    BY DEF WriterFits
  <1>2. Flush(w).flash = w.flash \o Padded(w.pending)
    BY <1>1 DEF Flush, IsWriter
  <1>3. /\ w.flash \o Padded(w.pending) = Padded(w.flash \o w.pending)
        /\ Len(w.flash \o w.pending) <= PartitionSize
             => Len(w.flash \o Padded(w.pending)) <= PartitionSize
    BY <1>1, PaddedFits
  <1> QED BY <1>1, <1>2, <1>3

-----------------------------------------------------------------------------
(* Elements of sequences put together and cut out. *)
LEMMA ConcatElements ==
    ASSUME NEW s1 \in Seq(Nat), NEW s2 \in Seq(Nat)
    PROVE  /\ \A i \in 1 .. Len(s1) : (s1 \o s2)[i] = s1[i]
           /\ \A i \in 1 .. Len(s2) : (s1 \o s2)[Len(s1) + i] = s2[i]
  OBVIOUS
LEMMA Slice ==
    ASSUME NEW s \in Seq(Nat), NEW m \in Nat, NEW k \in Nat, m + k <= Len(s)
    PROVE  /\ SubSeq(s, m + 1, m + k) \in Seq(Nat) /\ Len(SubSeq(s, m + 1, m + k)) = k
           /\ \A i \in 1 .. k : SubSeq(s, m + 1, m + k)[i] = s[m + i]
  <1>1. Len(s) \in Nat /\ \A i \in m + 1 .. m + k : s[i] \in Nat
    BY LenProperties, ElementOfSeq
  <1>2. PICK q : q = SubSeq(s, m + 1, m + k)
    OBVIOUS
  <1>3. PICK a \in Int, b \in Int : a = m + 1 /\ b = m + k
    OBVIOUS
  <1>4. /\ q \in Seq(Nat) /\ Len(q) = IF a <= b THEN b - a + 1 ELSE 0
        /\ \A i \in 1 .. b - a + 1 : q[i] = s[a + i - 1]
    BY <1>1, <1>2, <1>3, SubSeqProperties
  <1>5. Len(q) = k /\ b - a + 1 = k
    BY <1>3, <1>4
  <1>6. ASSUME NEW i \in 1 .. k PROVE q[i] = s[m + i]
    <2>1. a + i - 1 = m + i
      BY <1>3
    <2> QED BY <1>4, <1>5, <2>1
  <1> QED BY <1>2, <1>4, <1>5, <1>6

(* The header's six places. *)
LEMMA HeaderShape ==
    ASSUME NEW status \in Nat, NEW length \in Nat, NEW h, h = Header(status, length)
    PROVE  /\ h \in Seq(Nat) /\ Len(h) = 6 /\ h[1] = status /\ h[2] = length
           /\ h[3] = 13 /\ h[4] = 10 /\ h[5] = 13 /\ h[6] = 10
  <1>1. PICK a, e : a = <<status, length>> /\ e = <<13, 10, 13, 10>>
    OBVIOUS
  <1>2. a \in Seq(Nat) /\ Len(a) = 2 /\ a[1] = status /\ a[2] = length
    BY <1>1
  <1>3. /\ e \in Seq(Nat) /\ Len(e) = 4
        /\ e[1] = 13 /\ e[2] = 10 /\ e[3] = 13 /\ e[4] = 10
    BY <1>1
  <1>4. h = a \o e
    BY <1>1 DEF Header, EmptyLine
  <1>5. /\ h \in Seq(Nat) /\ Len(h) = 6
        /\ \A i \in 1 .. 2 : h[i] = a[i]
        /\ \A i \in 1 .. 4 : h[2 + i] = e[i]
    <2>1. a \o e \in Seq(Nat) /\ Len(a \o e) = Len(a) + Len(e)
      BY <1>2, <1>3, ConcatFits
    <2>2. /\ \A i \in 1 .. Len(a) : (a \o e)[i] = a[i]
          /\ \A i \in 1 .. Len(e) : (a \o e)[Len(a) + i] = e[i]
      BY <1>2, <1>3, ConcatElements
    <2>3. Len(a) = 2 /\ Len(e) = 4 /\ h = a \o e
      BY <1>2, <1>3, <1>4
    <2>4. h \in Seq(Nat) /\ Len(h) = 6
      BY ONLY <2>1, <2>3
    <2>5. /\ \A i \in 1 .. 2 : h[i] = a[i]
          /\ \A i \in 1 .. 4 : h[2 + i] = e[i]
      BY ONLY <2>2, <2>3, Zenon
    <2> QED BY ONLY <2>4, <2>5
  <1>6. h[2 + 1] = e[1] /\ h[2 + 2] = e[2] /\ h[2 + 3] = e[3] /\ h[2 + 4] = e[4]
    BY ONLY <1>5
  <1>7. h[1] = a[1] /\ h[2] = a[2]
    BY ONLY <1>5
  <1> QED BY ONLY <1>2, <1>3, <1>5, <1>6, <1>7

(* The response of the server: six places of header, then the body. *)
LEMMA ResponseBytes ==
    ASSUME NEW c \in ImageCases
    PROVE  /\ c.body \in Seq(Nat) /\ Len(c.body) \in Nat /\ c.length \in Nat
           /\ ImageBytes[c] \in Seq(Nat) /\ Len(ImageBytes[c]) = HeaderSize + Len(c.body)
           /\ ImageBytes[c][1] = c.status /\ ImageBytes[c][2] = c.length
           /\ ImageBytes[c][3] = 13 /\ ImageBytes[c][4] = 10
           /\ ImageBytes[c][5] = 13 /\ ImageBytes[c][6] = 10
           /\ \A i \in 1 .. Len(c.body) : ImageBytes[c][HeaderSize + i] = c.body[i]
  <1>1. c.status \in Nat /\ c.length \in Nat /\ c.body \in Seq(Nat) /\ Len(c.body) \in Nat
    BY StreamsAssumption, LenProperties
  <1>2. PICK status \in Nat, length \in Nat, b \in Seq(Nat) :
          status = c.status /\ length = c.length /\ b = c.body
    BY <1>1
  <1>3. PICK h : h = Header(status, length)
    OBVIOUS
  <1>4. /\ h \in Seq(Nat) /\ Len(h) = 6 /\ h[1] = status /\ h[2] = length
        /\ h[3] = 13 /\ h[4] = 10 /\ h[5] = 13 /\ h[6] = 10
    BY ONLY <1>3, HeaderShape
  <1>5. PICK r : r = ImageBytes[c]
    OBVIOUS
  <1>6. r = h \o b
    BY <1>2, <1>3, <1>5 DEF ImageBytes
  <1>7. r \in Seq(Nat) /\ Len(r) = HeaderSize + Len(b)
    BY ONLY <1>4, <1>6, ConcatFits DEF HeaderSize
  <1>8. /\ \A i \in 1 .. 6 : r[i] = h[i]
        /\ \A i \in 1 .. Len(b) : r[HeaderSize + i] = b[i]
    <2>1. /\ \A i \in 1 .. Len(h) : (h \o b)[i] = h[i]
          /\ \A i \in 1 .. Len(b) : (h \o b)[Len(h) + i] = b[i]
      BY <1>4, ConcatElements
    <2>2. Len(h) = 6
      BY <1>4
    <2> QED BY ONLY <1>6, <2>1, <2>2, Zenon DEF HeaderSize
  <1>9. /\ r[1] = status /\ r[2] = length /\ r[3] = 13 /\ r[4] = 10 /\ r[5] = 13 /\ r[6] = 10
    BY ONLY <1>4, <1>8
  <1> QED BY ONLY <1>1, <1>2, <1>5, <1>7, <1>8, <1>9, Zenon

(* A piece behind the header is a piece of the body. *)
LEMMA BodyPiece ==
    ASSUME NEW c \in ImageCases, NEW m \in Nat, NEW k \in Nat, m + k <= Len(c.body)
    PROVE  SubSeq(ImageBytes[c], (HeaderSize + m) + 1, (HeaderSize + m) + k)
             = SubSeq(c.body, m + 1, m + k)
  <1>0. PICK r, b : r = ImageBytes[c] /\ b = c.body
    OBVIOUS
  <1>1. /\ b \in Seq(Nat) /\ r \in Seq(Nat) /\ Len(b) \in Nat /\ Len(r) = HeaderSize + Len(b)
        /\ \A i \in 1 .. Len(b) : r[HeaderSize + i] = b[i]
    BY <1>0, ResponseBytes
  <1>2. PICK n \in Nat : n = HeaderSize + m
    BY DEF HeaderSize
  <1>3. PICK s, t : s = SubSeq(r, n + 1, n + k) /\ t = SubSeq(b, m + 1, m + k)
    OBVIOUS
  <1>4. m + k <= Len(b) /\ n + k <= Len(r)
    BY <1>0, <1>1, <1>2 DEF HeaderSize
  <1>5. s \in Seq(Nat) /\ Len(s) = k /\ \A i \in 1 .. k : s[i] = r[n + i]
    BY <1>1, <1>3, <1>4, Slice
  <1>6. t \in Seq(Nat) /\ Len(t) = k /\ \A i \in 1 .. k : t[i] = b[m + i]
    BY <1>1, <1>3, <1>4, Slice
  <1>7. ASSUME NEW i \in 1 .. k PROVE s[i] = t[i]
    <2>1. m + i \in 1 .. Len(b) /\ n + i = HeaderSize + (m + i)
      BY ONLY <1>1, <1>2, <1>4 DEF HeaderSize
    <2> QED BY <1>1, <1>5, <1>6, <2>1
  <1>8. s = t
    BY <1>5, <1>6, <1>7, SeqEqual
  <1> QED BY <1>0, <1>2, <1>3, <1>8

(* find_header_end finds the end of an accepted header, and no earlier     *)
(* one, in whatever pieces it came.                                        *)
EndsAt(head, i) == head[i] = 13 /\ head[i + 1] = 10 /\ head[i + 2] = 13 /\ head[i + 3] = 10
LEMMA IsEmptyLine ==
    ASSUME NEW q \in Seq(Nat), Len(q) = 4
    PROVE  q = EmptyLine <=> q[1] = 13 /\ q[2] = 10 /\ q[3] = 13 /\ q[4] = 10
  <1>1. PICK e : e = <<13, 10, 13, 10>>
    OBVIOUS
  <1>2. /\ e \in Seq(Nat) /\ Len(e) = 4
        /\ e[1] = 13 /\ e[2] = 10 /\ e[3] = 13 /\ e[4] = 10
    BY <1>1
  <1>3. ASSUME q[1] = 13, q[2] = 10, q[3] = 13, q[4] = 10 PROVE q = e
    <2>1. \A j \in 1 .. 4 : q[j] = e[j]
      BY <1>2, <1>3
    <2> QED BY <1>2, <2>1, SeqEqual
  <1> QED BY <1>1, <1>2, <1>3 DEF EmptyLine
LEMMA FourBytes ==
    ASSUME NEW s \in Seq(Nat), NEW i \in Nat, 1 <= i, i + 3 <= Len(s)
    PROVE  SubSeq(s, i, i + 3) = EmptyLine <=> EndsAt(s, i)
  <1>1. PICK m \in Nat : m + 1 = i
    OBVIOUS
  <1>2. PICK q : q = SubSeq(s, m + 1, m + 4)
    OBVIOUS
  <1>3. m + 4 = i + 3 /\ m + 2 = i + 1 /\ m + 3 = i + 2
    BY <1>1
  <1>4. q \in Seq(Nat) /\ Len(q) = 4 /\ \A j \in 1 .. 4 : q[j] = s[m + j]
    <2>1. PICK k \in Nat : k = 4
      OBVIOUS
    <2>2. m + k <= Len(s)
      BY <1>3, <2>1
    <2>3. /\ SubSeq(s, m + 1, m + k) \in Seq(Nat) /\ Len(SubSeq(s, m + 1, m + k)) = k
          /\ \A j \in 1 .. k : SubSeq(s, m + 1, m + k)[j] = s[m + j]
      BY <2>2, Slice
    <2> QED BY <1>2, <2>1, <2>3
  <1>5. q[1] = s[i] /\ q[2] = s[i + 1] /\ q[3] = s[i + 2] /\ q[4] = s[i + 3]
    <2>1. 1 \in 1 .. 4 /\ 2 \in 1 .. 4 /\ 3 \in 1 .. 4 /\ 4 \in 1 .. 4
      OBVIOUS
    <2>2. q[1] = s[m + 1] /\ q[2] = s[m + 2] /\ q[3] = s[m + 3] /\ q[4] = s[m + 4]
      BY <1>4, <2>1, Zenon
    <2> QED BY <1>1, <1>3, <2>2, Zenon
  <1>6. q = EmptyLine <=> q[1] = 13 /\ q[2] = 10 /\ q[3] = 13 /\ q[4] = 10
    BY <1>4, IsEmptyLine
  <1>7. EndsAt(s, i) <=> q[1] = 13 /\ q[2] = 10 /\ q[3] = 13 /\ q[4] = 10
    BY <1>5 DEF EndsAt
  <1>8. q = SubSeq(s, i, i + 3)
    BY <1>1, <1>2, <1>3
  <1> QED BY <1>6, <1>7, <1>8
LEMMA FirstEmptyLine ==
    ASSUME NEW head \in Seq(Nat), NEW n \in Nat, Len(head) = n, head[1] # 13,
           n >= 3 => head[3] = 13, n >= 4 => head[4] = 10, n >= 5 => head[5] = 13,
           n >= 6 => head[6] = 10, BodyStart(head) # 0
    PROVE  BodyStart(head) = 7 /\ n >= 6
  <1>1. PICK found : found = {i \in 1 .. n - 3 : SubSeq(head, i, i + 3) = EmptyLine}
    OBVIOUS
  <1>2. BodyStart(head)
          = IF found = {} THEN 0 ELSE (CHOOSE i \in found : \A j \in found : i <= j) + 4
    BY <1>1 DEF BodyStart
  <1>3. \A i \in 1 .. n - 3 : SubSeq(head, i, i + 3) = EmptyLine <=> EndsAt(head, i)
    <2>1. \A i \in 1 .. n - 3 : i \in Nat /\ 1 <= i /\ i + 3 <= n
      OBVIOUS
    <2> QED BY ONLY <2>1, FourBytes, head \in Seq(Nat), Len(head) = n
  <1>4. \A i : i \in found <=> i \in 1 .. n - 3 /\ EndsAt(head, i)
    BY <1>1, <1>3
  <1>5. \A i \in found : i >= 3 /\ i \in 1 .. n - 3
    <2> SUFFICES ASSUME NEW i \in found PROVE i >= 3 /\ i \in 1 .. n - 3
      OBVIOUS
    <2>1. i \in 1 .. n - 3 /\ head[i] = 13 /\ head[i + 1] = 10
      BY <1>4 DEF EndsAt
    <2>2. i # 1
      BY <2>1
    <2>3. i # 2
      BY <2>1
    <2> QED BY <2>1, <2>2, <2>3
  <1>6. found # {}
    BY <1>2
  <1>7. n >= 6
    BY <1>5, <1>6
  <1>8. 3 \in found
    BY <1>4, <1>7 DEF EndsAt
  <1>9. PICK first : first = CHOOSE i \in found : \A j \in found : i <= j
    OBVIOUS
  <1>10. \E i \in found : \A j \in found : i <= j
    BY <1>5, <1>8
  <1>11. first \in found /\ \A j \in found : first <= j
    BY <1>9, <1>10
  <1>12. first = 3
    BY <1>5, <1>8, <1>11
  <1>13. BodyStart(head) = first + 4
    BY <1>2, <1>6, <1>9
  <1> QED BY ONLY <1>7, <1>12, <1>13
LEMMA Prefix ==
    ASSUME NEW r \in Seq(Nat), NEW n \in Nat, n <= Len(r), NEW head, head = SubSeq(r, 1, n)
    PROVE  head \in Seq(Nat) /\ Len(head) = n /\ \A i \in 1 .. n : head[i] = r[i]
  <1>1. Len(r) \in Nat /\ \A i \in 1 .. n : r[i] \in Nat
    BY LenProperties, ElementOfSeq
  <1> QED BY <1>1, SubSeqProperties
HasCome(head, c, n) == n \in Nat /\ n <= Len(ImageBytes[c]) /\ head = SubSeq(ImageBytes[c], 1, n)
LEMMA BodyFound ==
    ASSUME NEW c \in ImageCases, NEW n \in Nat, NEW head, HasCome(head, c, n),
           BodyStart(head) # 0, StatusOk(head)
    PROVE  /\ BodyStart(head) = HeaderSize + 1 /\ HeaderSize <= n
           /\ c.status = 200 /\ head[2] = c.length /\ Len(head) = n
  <1>0. PICK r : r = ImageBytes[c]
    OBVIOUS
  <1>1. /\ r \in Seq(Nat) /\ r[1] = c.status /\ r[2] = c.length
        /\ r[3] = 13 /\ r[4] = 10 /\ r[5] = 13 /\ r[6] = 10
    BY <1>0, ResponseBytes
  <1>2. head \in Seq(Nat) /\ Len(head) = n /\ \A i \in 1 .. n : head[i] = r[i]
    BY <1>0, <1>1, Prefix DEF HasCome
  <1>3. head[1] = 200
    BY DEF StatusOk
  <1>4. BodyStart(head) = 7 /\ n >= 6
    <2>1. /\ n >= 3 => head[3] = 13
          /\ n >= 4 => head[4] = 10
          /\ n >= 5 => head[5] = 13
          /\ n >= 6 => head[6] = 10
      BY ONLY <1>1, <1>2
    <2>2. head[1] # 13
      BY ONLY <1>3
    <2> QED BY <1>2, <2>1, <2>2, FirstEmptyLine
  <1>5. 1 \in 1 .. n /\ 2 \in 1 .. n
    BY ONLY <1>4
  <1> QED BY <1>1, <1>2, <1>3, <1>4, <1>5 DEF HeaderSize

-----------------------------------------------------------------------------
(* The steps of the download. *)

(* What ImageSafe says of a download of the case at hand. *)
DownloadSafe(d) ==
    /\ d.phase = "finalized" /\ case.crc # "none"
         => case.crc = "good" /\ d.writer.flash = Padded(case.body)
    /\ case.length = Len(case.body) => Len(d.writer.flash) <= PartitionSize

(* The empty writer. *)
LEMMA FlagChanged ==
    ASSUME NEW v, IsWriter(v), NEW flag
    PROVE  LET w == [v EXCEPT !.begun = flag]
           IN  /\ IsWriter(w) /\ w.flash = v.flash /\ w.pending = v.pending
               /\ w.written = v.written /\ w.crc = v.crc
  BY DEF IsWriter
LEMMA NewWriterFits ==
    /\ IsWriter(NewWriter) /\ IsWriter(BeginWriter)
    /\ NewWriter.flash = <<>> /\ BeginWriter.flash = <<>>
    /\ WriterFits(BeginWriter) /\ BeginWriter.crc = <<>>
  <1>1. IsWriter(NewWriter)
    BY DEF NewWriter, IsWriter
  <1>a. NewWriter.flash = <<>> /\ NewWriter.pending = <<>> /\ NewWriter.written = 0 /\ NewWriter.crc = <<>>
    BY DEF NewWriter
  <1>b. /\ IsWriter(BeginWriter) /\ BeginWriter.flash = NewWriter.flash
        /\ BeginWriter.pending = NewWriter.pending
        /\ BeginWriter.written = NewWriter.written /\ BeginWriter.crc = NewWriter.crc
    BY ONLY <1>1, FlagChanged, Zenon DEF BeginWriter
  <1>2. <<>> \in Seq(Nat) /\ Len(<<>>) = 0 /\ <<>> = <<>> \o <<>>
    OBVIOUS
  <1>3. 0 % WordSize = 0
    BY WriterAssumption
  <1>4. PICK w : w = BeginWriter
    OBVIOUS
  <1>5. IsWriter(w) /\ w.flash = <<>> /\ w.pending = <<>> /\ w.written = 0 /\ w.crc = <<>>
    BY ONLY <1>4, <1>a, <1>b
  <1>6. WriterFits(w)
    BY ONLY <1>2, <1>3, <1>5, WriterAssumption DEF WriterFits
  <1> QED BY ONLY <1>1, <1>4, <1>5, <1>6, <1>a

(* The first bytes of an announced body fit into the partition. *)
LEMMA BodyInside ==
    ASSUME case \in ImageCases, NEW d, NEW n, BodyFits(d, n), case.length = Len(case.body)
    PROVE  Len(d.writer.crc) <= PartitionSize /\ Len(d.writer.flash) <= PartitionSize
  <1>1. case.body \in Seq(Nat) /\ Len(case.body) \in Nat
    BY ResponseBytes
  <1>2. /\ n \in Nat /\ n <= Len(case.body) /\ d.writer.crc = SubSeq(case.body, 1, n)
        /\ case.length = NoLength \/ case.length <= PartitionSize
        /\ d.writer.flash \in Seq(Nat) /\ d.writer.pending \in Seq(Nat)
        /\ d.writer.crc = d.writer.flash \o d.writer.pending
    BY <1>1 DEF BodyFits, WriterFits
  <1>3. Len(d.writer.crc) = n
    BY <1>1, <1>2, Prefix
  <1>4. n <= PartitionSize
    BY ONLY <1>1, <1>2, case.length = Len(case.body), WriterAssumption DEF NoLength
  <1>5. PICK flash \in Seq(Nat), kept \in Seq(Nat) : flash = d.writer.flash /\ kept = d.writer.pending
    BY <1>2
  <1>6. Len(flash \o kept) = Len(flash) + Len(kept) /\ Len(flash) \in Nat /\ Len(kept) \in Nat
    BY ONLY ConcatFits, LenProperties
  <1>7. Len(flash \o kept) = n
    BY <1>2, <1>3, <1>5
  <1>8. Len(flash) <= PartitionSize
    BY ONLY <1>2, <1>4, <1>6, <1>7, WriterAssumption
  <1> QED BY <1>3, <1>4, <1>5, <1>8

(* A step of the download keeps the invariant when what it makes of rx fits. *)
LEMMA DownloadStep ==
    ASSUME DownloadInv, kind = "ota", kind' = kind, case' = case, at' \in 0 .. Total,
           IsDownload(rx'), DownloadSafe(rx'),
           rx'.phase = "headers" => rx'.writer = NewWriter /\ rx'.head = SubSeq(Bytes, 1, at'),
           rx'.phase = "body" => BodyFits(rx', at' - HeaderSize)
    PROVE  DownloadInv'
  <1>1. Bytes' = Bytes /\ Total' = Total
    BY DEF Bytes, Total, Lines
  <1>2. case \in ImageCases
    BY DEF DownloadInv
  <1>3. ImageSafe'
    BY DEF DownloadSafe, ImageSafe, ImageIntact, WithinPartition
  <1>4. rx'.phase = "body" => BodyFits(rx, at - HeaderSize)'
    BY DEF BodyFits, HeaderSize
  <1>5. IsDownload(rx)'
    BY DEF IsDownload
  <1> QED BY <1>1, <1>2, <1>3, <1>4, <1>5 DEF DownloadInv

(* What a step made of the download, at bytes having come. *)
Kept(d, n) ==
    /\ IsDownload(d) /\ DownloadSafe(d)
    /\ d.phase = "headers" => d.writer = NewWriter /\ d.head = SubSeq(Bytes, 1, n)
    /\ d.phase = "body" => BodyFits(d, n - HeaderSize)

(* A download that was not finalized is safe with nothing in flash, and    *)
(* with the first bytes of the body.                                       *)
LEMMA EmptyIsSafe ==
    ASSUME NEW d, d.phase # "finalized", d.writer.flash = <<>>
    PROVE  DownloadSafe(d)
  <1>1. Len(<<>>) <= PartitionSize
    BY WriterAssumption
  <1> QED BY <1>1 DEF DownloadSafe
LEMMA UnfinishedIsSafe ==
    ASSUME case \in ImageCases, NEW d, NEW n, BodyFits(d, n), NEW e, e.phase # "finalized",
           e.writer = d.writer
    PROVE  DownloadSafe(e)
  <1>1. case.length = Len(case.body) => Len(d.writer.flash) <= PartitionSize
    BY BodyInside
  <1> QED BY <1>1 DEF DownloadSafe

(* The next bytes of the body are written, or the update is given up. *)
LEMMA WritesKept ==
    ASSUME case \in ImageCases, NEW d, IsDownload(d), NEW n, NEW k \in Nat, BodyFits(d, n),
           n + k <= Len(case.body), NEW chunk, chunk = SubSeq(case.body, n + 1, n + k),
           NEW r, r = Writes(d, chunk), NEW m, m - HeaderSize = n + k
    PROVE  Kept(r, m)
  <1>1. case.body \in Seq(Nat) /\ Len(case.body) \in Nat
    BY ResponseBytes
  <1>2. /\ n \in Nat /\ WriterFits(d.writer) /\ d.writer.crc = SubSeq(case.body, 1, n)
        /\ case.status = 200 /\ (case.length = NoLength \/ case.length <= PartitionSize)
    BY <1>1 DEF BodyFits
  <1>3. chunk \in Seq(Nat) /\ Len(chunk) = k
    BY <1>1, <1>2, Slice
  <1>4. /\ IsDownload(r)
        /\ (r.phase = "body" /\ BodyFits(r, n + k)) \/ (r.phase = "failed" /\ r.writer = d.writer)
    <2>1. CASE chunk = <<>>
      <3>1. k = 0 /\ n + k = n
        BY ONLY <1>2, <1>3, <2>1
      <3>2. r = [d EXCEPT !.phase = "body"]
        BY <2>1 DEF Writes
      <3>3. IsDownload(r) /\ r.phase = "body" /\ r.writer = d.writer
        BY ONLY <3>2, IsDownload(d) DEF IsDownload
      <3> QED BY <3>1, <3>3 DEF BodyFits
    <2>2. CASE chunk # <<>> /\ WriteAccepted(d.writer, chunk)
      <3>1. r = [d EXCEPT !.phase = "body", !.writer = Write(d.writer, chunk)]
        BY <2>2 DEF Writes
      <3>2. IsDownload(r) /\ r.phase = "body" /\ r.writer = Write(d.writer, chunk)
        BY ONLY <3>1, IsDownload(d) DEF IsDownload
      <3>3. WriterFits(r.writer) /\ r.writer.crc = d.writer.crc \o chunk
        <4>1. PICK w, v : w = d.writer /\ v = r.writer
          OBVIOUS
        <4>2. WriterFits(w) /\ chunk \in Seq(Nat) /\ v = Write(w, chunk)
          BY <1>2, <1>3, <3>2, <4>1
        <4>3. WriterFits(v) /\ v.crc = w.crc \o chunk
          BY ONLY <4>2, WriteFits
        <4> QED BY ONLY <4>1, <4>3
      <3>4. SubSeq(case.body, 1, n) \o SubSeq(case.body, n + 1, n + k) = SubSeq(case.body, 1, n + k)
        <4>1. PICK b \in Seq(Nat) : b = case.body
          BY <1>1
        <4>2. 1 \in 1 .. Len(b) + 1 /\ n \in 1 - 1 .. Len(b) /\ n + k \in n .. Len(b)
          BY <1>1, <1>2, <4>1
        <4> QED BY <4>1, <4>2, ConcatAdjacentSubSeq
      <3>5. n + k \in 0 .. Len(case.body)
        BY <1>1, <1>2
      <3> QED BY <1>2, <3>2, <3>3, <3>4, <3>5 DEF BodyFits
    <2>3. CASE chunk # <<>> /\ ~WriteAccepted(d.writer, chunk)
      <3>1. r = [d EXCEPT !.phase = "failed"]
        BY <2>3 DEF Writes, Failed
      <3> QED BY ONLY <3>1, IsDownload(d) DEF IsDownload
    <2> QED BY <2>1, <2>2, <2>3
  <1>5. CASE r.phase = "body" /\ BodyFits(r, n + k)
    <2>1. DownloadSafe(r)
      BY <1>5, UnfinishedIsSafe
    <2> QED BY <1>4, <1>5, <2>1 DEF Kept
  <1>6. CASE r.phase = "failed" /\ r.writer = d.writer
    <2>1. DownloadSafe(r)
      BY <1>6, UnfinishedIsSafe
    <2> QED BY <1>4, <1>6, <2>1 DEF Kept
  <1> QED BY <1>4, <1>5, <1>6

(* A piece of the header, and the first bytes of the body behind it. *)
LEMMA HeaderKept ==
    ASSUME DownloadInv, kind = "ota", rx.phase = "headers", NEW n \in Nat, at + n <= Total,
           NEW d, d = HeaderGrows(Piece(n))
    PROVE  Kept(d, at + n)
  <1>1. /\ case \in ImageCases /\ at \in 0 .. Total /\ IsDownload(rx)
        /\ rx.writer = NewWriter /\ rx.head = SubSeq(Bytes, 1, at)
    BY DEF DownloadInv
  <1>2. Bytes = ImageBytes[case] /\ Total = Len(ImageBytes[case])
    BY DEF Bytes, Total, Lines
  <1>3. PICK r : r = ImageBytes[case]
    OBVIOUS
  <1>4. r \in Seq(Nat) /\ Len(r) \in Nat /\ Len(r) = HeaderSize + Len(case.body) /\ Len(case.body) \in Nat
    BY <1>1, <1>3, ResponseBytes
  <1>5. at \in Nat /\ at + n \in Nat /\ at + n <= Len(r) /\ at <= Len(r)
    BY <1>1, <1>2, <1>3, <1>4
  <1>6. PICK head : head = rx.head \o Piece(n)
    OBVIOUS
  <1>7. head = SubSeq(r, 1, at + n)
    <2>1. head = SubSeq(r, 1, at) \o SubSeq(r, at + 1, at + n)
      BY <1>1, <1>2, <1>3, <1>6 DEF Piece
    <2>2. 1 \in 1 .. Len(r) + 1 /\ at \in 1 - 1 .. Len(r) /\ at + n \in at .. Len(r)
      BY <1>4, <1>5
    <2> QED BY <1>4, <2>1, <2>2, ConcatAdjacentSubSeq
  <1>8. PICK read, begun : read = [rx EXCEPT !.head = head] /\ begun = [read EXCEPT !.writer = BeginWriter]
    OBVIOUS
  <1>9. /\ IsDownload(read) /\ read.phase = "headers" /\ read.writer = NewWriter /\ read.head = head
        /\ IsDownload(begun) /\ begun.writer = BeginWriter
    BY ONLY <1>1, <1>8, rx.phase = "headers" DEF IsDownload
  <1>10. d = IF Len(head) > MaxHeader THEN Failed(rx)
             ELSE IF BodyStart(head) = 0 THEN read
             ELSE IF ~StatusOk(head) THEN Failed(read)
             ELSE IF ~LengthFits(head) THEN Failed(begun)
             ELSE Writes(begun, SubSeq(head, BodyStart(head), Len(head)))
    BY <1>6, <1>8 DEF HeaderGrows
  <1>11. ASSUME NEW e, IsDownload(e), e.writer.flash = <<>>, d = Failed(e) PROVE Kept(d, at + n)
    <2>1. IsDownload(d) /\ d.phase = "failed" /\ d.writer = e.writer
      BY ONLY <1>11 DEF Failed, IsDownload
    <2> QED BY <1>11, <2>1, EmptyIsSafe DEF Kept
  <1>12. CASE Len(head) > MaxHeader
    BY <1>1, <1>10, <1>11, <1>12, NewWriterFits
  <1>13. CASE ~(Len(head) > MaxHeader) /\ BodyStart(head) = 0
    <2>1. d = read
      BY <1>10, <1>13
    <2>2. DownloadSafe(d)
      BY <1>9, <2>1, NewWriterFits, EmptyIsSafe
    <2>3. d.head = SubSeq(Bytes, 1, at + n)
      BY <1>2, <1>3, <1>7, <1>9, <2>1
    <2> QED BY <1>9, <2>1, <2>2, <2>3 DEF Kept
  <1>14. CASE ~(Len(head) > MaxHeader) /\ BodyStart(head) # 0 /\ ~StatusOk(head)
    BY <1>9, <1>10, <1>11, <1>14, NewWriterFits
  <1>15. CASE ~(Len(head) > MaxHeader) /\ BodyStart(head) # 0 /\ StatusOk(head) /\ ~LengthFits(head)
    BY <1>9, <1>10, <1>11, <1>15, NewWriterFits
  <1>16. CASE ~(Len(head) > MaxHeader) /\ BodyStart(head) # 0 /\ StatusOk(head) /\ LengthFits(head)
    <2>1. PICK m : m = at + n
      OBVIOUS
    <2>2. /\ BodyStart(head) = HeaderSize + 1 /\ HeaderSize <= m
          /\ case.status = 200 /\ head[2] = case.length /\ Len(head) = m
      <3>1. m \in Nat /\ m <= Len(ImageBytes[case]) /\ head = SubSeq(ImageBytes[case], 1, m)
        BY ONLY <1>3, <1>5, <1>7, <2>1
      <3>2. m \in Nat /\ HasCome(head, case, m)
        BY ONLY <3>1 DEF HasCome
      <3> QED BY ONLY <1>1, <1>16, <3>2, BodyFound
    <2>3. PICK k \in Nat : HeaderSize + k = m
      <3>1. m \in Nat /\ m - HeaderSize \in Nat /\ HeaderSize + (m - HeaderSize) = m
        BY <1>5, <2>1, <2>2 DEF HeaderSize
      <3> QED BY <3>1
    <2>4. 0 + k <= Len(case.body) /\ m - HeaderSize = 0 + k
      BY <1>4, <1>5, <2>1, <2>3 DEF HeaderSize
    <2>5. PICK chunk : chunk = SubSeq(head, BodyStart(head), Len(head))
      OBVIOUS
    <2>6. chunk = SubSeq(case.body, 0 + 1, 0 + k)
      <3>1. PICK h \in Nat : h = HeaderSize
        BY DEF HeaderSize
      <3>2. chunk = SubSeq(head, h + 1, h + k)
        BY ONLY <2>2, <2>3, <2>5, <3>1, Zenon
      <3>3. head \in Seq(Nat) /\ Len(head) = m /\ \A i \in 1 .. m : head[i] = r[i]
        BY <1>4, <1>5, <1>7, <2>1, Prefix
      <3>4. chunk \in Seq(Nat) /\ Len(chunk) = k /\ \A i \in 1 .. k : chunk[i] = head[h + i]
        BY ONLY <2>3, <3>1, <3>2, <3>3, Slice
      <3>a. PICK z \in Nat : z = 0
        OBVIOUS
      <3>5. PICK b : z = 0 /\ b = case.body
        BY <3>a
      <3>6. PICK t : t = SubSeq(b, z + 1, z + k)
        OBVIOUS
      <3>7. b \in Seq(Nat) /\ z + k <= Len(b) /\ \A i \in 1 .. Len(b) : r[h + i] = b[i]
        BY <1>1, <1>3, <2>4, <3>1, <3>5, ResponseBytes
      <3>8. t \in Seq(Nat) /\ Len(t) = k /\ \A i \in 1 .. k : t[i] = b[z + i]
        BY ONLY <3>6, <3>7, Slice
      <3>9. ASSUME NEW i \in 1 .. k PROVE chunk[i] = t[i]
        <4>1. i \in 1 .. Len(b) /\ h + i \in 1 .. m /\ z + i = i
          BY ONLY <2>3, <3>1, <3>5, <3>7, LenProperties
        <4> QED BY ONLY <3>3, <3>4, <3>7, <3>8, <4>1, i \in 1 .. k
      <3>10. chunk = t
        BY ONLY <3>4, <3>8, <3>9, SeqEqual
      <3> QED BY ONLY <3>5, <3>6, <3>10, Zenon
    <2>7. BodyFits(begun, 0)
      <3>1. case.length = NoLength \/ case.length <= PartitionSize
        BY <1>16, <2>2 DEF LengthFits
      <3>2. SubSeq(case.body, 1, 0) = <<>>
        BY <1>1, StreamsAssumption
      <3> QED BY <1>4, <1>9, <2>2, <3>1, <3>2, NewWriterFits DEF BodyFits
    <2>8. d = Writes(begun, chunk)
      BY <1>10, <1>16, <2>5
    <2>9. Kept(d, m)
      BY ONLY <1>1, <1>9, <2>4, <2>6, <2>7, <2>8, WritesKept
    <2> QED BY <2>1, <2>9
  <1> QED BY <1>12, <1>13, <1>14, <1>15, <1>16

(* A piece of the body. *)
LEMMA BodyKept ==
    ASSUME DownloadInv, kind = "ota", rx.phase = "body", NEW n \in Nat, at + n <= Total,
           NEW d, d = Writes(rx, Piece(n))
    PROVE  Kept(d, at + n)
  <1>1. /\ case \in ImageCases /\ at \in 0 .. Total /\ IsDownload(rx) /\ BodyFits(rx, at - HeaderSize)
    BY DEF DownloadInv
  <1>2. Bytes = ImageBytes[case] /\ Total = Len(ImageBytes[case])
    BY DEF Bytes, Total, Lines
  <1>3. /\ Len(ImageBytes[case]) = HeaderSize + Len(case.body) /\ Len(case.body) \in Nat
    BY <1>1, ResponseBytes
  <1>4. at - HeaderSize \in 0 .. Len(case.body)
    BY <1>1 DEF BodyFits
  <1>5. PICK m \in Nat : m = at - HeaderSize
    BY <1>3, <1>4
  <1>6. at = HeaderSize + m /\ m + n <= Len(case.body) /\ (at + n) - HeaderSize = m + n
    BY <1>1, <1>2, <1>3, <1>5 DEF HeaderSize
  <1>7. Piece(n) = SubSeq(case.body, m + 1, m + n)
    BY <1>1, <1>2, <1>6, BodyPiece DEF Piece
  <1>8. BodyFits(rx, m)
    BY <1>1, <1>5
  <1> QED BY ONLY <1>1, <1>6, <1>7, <1>8, d = Writes(rx, Piece(n)), n \in Nat, WritesKept

(* The end of the stream: a CRC that is right is the CRC of the whole body. *)
LEMMA FinishedKept ==
    ASSUME DownloadInv, kind = "ota", rx.phase \in {"headers", "body"},
           NEW d, d \in {Finished, Failed(rx)}
    PROVE  Kept(d, at)
  <1>1. /\ case \in ImageCases /\ IsDownload(rx)
        /\ rx.phase = "headers" => rx.writer = NewWriter
        /\ rx.phase = "body" => BodyFits(rx, at - HeaderSize)
    BY DEF DownloadInv
  <1>2. CASE d = Failed(rx)
    <2>1. IsDownload(d) /\ d.phase = "failed" /\ d.writer = rx.writer
      BY ONLY <1>1, <1>2 DEF Failed, IsDownload
    <2>2. DownloadSafe(d)
      <3>1. CASE rx.phase = "headers"
        BY <1>1, <2>1, <3>1, EmptyIsSafe, NewWriterFits
      <3>2. CASE rx.phase = "body"
        BY <1>1, <2>1, <3>2, UnfinishedIsSafe
      <3> QED BY <3>1, <3>2
    <2> QED BY <2>1, <2>2 DEF Kept
  <1>3. CASE /\ rx.phase = "body" /\ CrcAccepted
             /\ d = [rx EXCEPT !.phase = "finalized", !.writer = Flush(@)]
    <2>1. PICK w : w = rx.writer
      OBVIOUS
    <2>2. IsDownload(d) /\ d.phase = "finalized" /\ d.writer = Flush(w)
      BY ONLY <1>1, <1>3, <2>1 DEF IsDownload
    <2>3. WriterFits(w)
      BY <1>1, <1>3, <2>1 DEF BodyFits
    <2>4. /\ Flush(w).flash = Padded(w.crc)
          /\ Len(w.crc) <= PartitionSize => Len(Flush(w).flash) <= PartitionSize
      BY <2>3, FlushFits
    <2>5. case.crc # "none" => case.crc = "good" /\ w.crc = case.body
      BY <1>1, <1>3, <2>1, StreamsAssumption DEF CrcAccepted
    <2>6. case.length = Len(case.body) => Len(w.crc) <= PartitionSize
      BY <1>1, <1>3, <2>1, BodyInside
    <2>7. DownloadSafe(d)
      BY <2>2, <2>4, <2>5, <2>6 DEF DownloadSafe
    <2> QED BY <2>2, <2>7 DEF Kept
  <1> QED BY <1>2, <1>3 DEF Finished

(* Every step keeps the invariant of the download. *)
LEMMA NextKeepsDownload ==
    ASSUME DownloadInv, [Next]_vars
    PROVE  DownloadInv'
  <1>1. CASE kind # "ota"
    <2>1. kind' = kind
      <3>1. CASE Step
        BY <1>1, <3>1 DEF Step, LineByte, ConnackReads, SubscribeReads, RecvReads, RecvProcesses,
              AckSent, DownloadReads, DownloadEnds, Logs, LogsPublished, CheckStart, UartReads,
              SniffModeEnds, SniffPublished, HostShows, Client, Capture
      <3>2. CASE OtherStep
        BY <3>2, OthersKeepKind
      <3>3. CASE ConnackTimesOut \/ SubscribeTimesOut \/ RecvEnds \/ AckFails \/ RecvCancelled
        BY <3>3 DEF ConnackTimesOut, SubscribeTimesOut, RecvEnds, AckFails, RecvCancelled, Client
      <3> QED BY <3>1, <3>2, <3>3 DEF Next, Fault, OtherStep, vars
    <2> QED BY <1>1, <2>1 DEF DownloadInv
  <1>2. CASE kind = "ota" /\ UNCHANGED vars
    <2>1. Bytes' = Bytes /\ Total' = Total
      BY <1>2 DEF vars, Bytes, Total, Lines
    <2>2. case' = case /\ at' = at /\ rx' = rx /\ kind' = kind
      BY <1>2 DEF vars
    <2>3. DownloadInv /\ Kept(rx, at)
      BY <1>2 DEF DownloadInv, Kept, DownloadSafe, ImageSafe, ImageIntact, WithinPartition
    <2>4. at' \in 0 .. Total
      BY <1>2, <2>2 DEF DownloadInv
    <2> QED BY <1>2, <2>2, <2>3, <2>4, DownloadStep DEF Kept
  <1>3. ASSUME kind = "ota", kind' = kind, case' = case, at' \in 0 .. Total, Kept(rx', at')
        PROVE  DownloadInv'
    BY <1>3, DownloadStep DEF Kept
  <1>4. CASE kind = "ota" /\ DownloadReads
    <2>1. PICK n \in Pieces :
            /\ at + n <= Total /\ at' = at + n
            /\ rx' = (IF rx.phase = "headers" THEN HeaderGrows(Piece(n)) ELSE Writes(rx, Piece(n)))
      BY <1>4 DEF DownloadReads, Download
    <2>2. n \in Nat
      BY StreamsAssumption
    <2>3. kind' = kind /\ case' = case /\ rx.phase \in {"headers", "body"}
      BY <1>4 DEF DownloadReads, Download
    <2>4. at' \in 0 .. Total
      BY <1>4, <2>1, <2>2 DEF DownloadInv
    <2>5. Kept(rx', at + n)
      <3>1. CASE rx.phase = "headers"
        BY <1>4, <2>1, <2>2, <3>1, HeaderKept
      <3>2. CASE rx.phase = "body"
        BY <1>4, <2>1, <2>2, <3>2, BodyKept
      <3> QED BY <2>3, <3>1, <3>2
    <2> QED BY <1>3, <1>4, <2>1, <2>3, <2>4, <2>5
  <1>5. CASE kind = "ota" /\ (DownloadEnds \/ DownloadCut)
    <2>1. /\ kind' = kind /\ case' = case /\ at' = at /\ rx.phase \in {"headers", "body"}
          /\ rx' \in {Finished, Failed(rx)}
      BY <1>5 DEF DownloadEnds, DownloadCut, Download
    <2>2. at' \in 0 .. Total
      BY <1>5, <2>1 DEF DownloadInv
    <2>3. Kept(rx', at)
      BY <1>5, <2>1, FinishedKept
    <2> QED BY <1>3, <1>5, <2>1, <2>2, <2>3
  <1>6. kind = "ota" /\ Next => DownloadReads \/ DownloadEnds \/ DownloadCut
    <2>1. kind = "ota" /\ Step => DownloadReads \/ DownloadEnds
      BY DEF Step, LineByte, Lines, ConnackReads, SubscribeReads, RecvReads, RecvProcesses,
             AckSent, Logs, LogsPublished, CheckStart, UartReads,
             SniffModeEnds, SniffPublished, HostShows
    <2>2. kind = "ota" /\ Fault => DownloadCut
      BY DEF Fault, ByteLost, ByteFlipped, ByteAdded, LineFaulty, Lines, ConnackTimesOut,
             SubscribeTimesOut, RecvEnds, AckFails, RecvCancelled, SniffCommand, SniffPublishFails
    <2> QED BY <2>1, <2>2 DEF Next
  <1> QED BY <1>1, <1>2, <1>4, <1>5, <1>6

(* Nothing is flashed at the start. *)
LEMMA DownloadStarts ==
    ASSUME Init
    PROVE  DownloadInv
  <1> SUFFICES ASSUME kind = "ota" PROVE DownloadInv
    BY DEF DownloadInv
  <1>1. case \in ImageCases /\ rx = NewDownload /\ at = 0
    BY DEF Init, Lines
  <1>2. Bytes = ImageBytes[case] /\ ImageBytes[case] \in Seq(Nat) /\ Len(ImageBytes[case]) \in Nat
    BY <1>1, ResponseBytes DEF Bytes, Lines
  <1>3. at \in 0 .. Total
    BY <1>1, <1>2 DEF Total
  <1>4. /\ IsDownload(rx) /\ rx.phase = "headers" /\ rx.writer = NewWriter /\ rx.head = <<>>
    BY ONLY <1>1 DEF NewDownload, IsDownload
  <1>5. SubSeq(Bytes, 1, at) = <<>>
    BY <1>1, <1>2
  <1>6. ImageSafe
    BY <1>4, NewWriterFits, EmptyIsSafe DEF ImageSafe, ImageIntact, WithinPartition, DownloadSafe
  <1> QED BY <1>1, <1>3, <1>4, <1>5, <1>6 DEF DownloadInv

(* A finalized update with a right CRC has the whole image in flash,       *)
(* padded to a word, and an announced image never leaves its partition,    *)
(* for every image, cut of the stream, word size and partition             *)
(* (perform_ota_update, EspOtaFlash::write, finalize).                     *)
THEOREM ImageIsSafe == Spec => []ImageSafe
  <1>1. Init => DownloadInv
    BY DownloadStarts
  <1>2. DownloadInv => ImageSafe
    BY DEF DownloadInv, ImageSafe, ImageIntact, WithinPartition
  <1> QED BY <1>1, <1>2, NextKeepsDownload, PTL DEF Spec

-----------------------------------------------------------------------------
(* Recursions over numbers.                                                *)

(* The least element of a set of numbers. *)
LEMMA LeastIsThere ==
    ASSUME NEW I \in SUBSET Nat, I # {}
    PROVE  \E i \in I : \A j \in I : i <= j
  <1>1. PICK i \in I : \A j \in I : ~(<<j, i>> \in OpToRel(<, Nat))
    BY NatLessThanWellFounded, WFMin
  <1>2. \A j \in I : j \in Nat
    OBVIOUS
  <1>3. \A j \in I : i <= j
    <2> SUFFICES ASSUME NEW j \in I PROVE i <= j
      OBVIOUS
    <2>1. ~(j < i)
      BY <1>1, <1>2 DEF OpToRel
    <2> QED BY <1>2, <2>1
  <1> QED BY <1>3

Iterates(f, S, start, N, step) ==
    f \in [0 .. N -> S] /\ f[0] = start /\ \A k \in 1 .. N : f[k] = step[k][f[k - 1]]

(* Doing a step n times from a start: there is a function that says where  *)
(* one is after each.                                                      *)
LEMMA Iterated ==
    ASSUME NEW S, NEW start \in S, NEW N \in Nat, NEW step \in [1 .. N -> [S -> S]]
    PROVE  \E f : Iterates(f, S, start, N, step)
  <1> SUFFICES \E f \in [0 .. N -> S] :
              /\ f[0] = start /\ \A k \in 1 .. N : f[k] = step[k][f[k - 1]]
    BY DEF Iterates
  <1> DEFINE Good(n, f) == f[0] = start /\ \A k \in 1 .. n : f[k] = step[k][f[k - 1]]
             Bad == {n \in 0 .. N : ~\E f \in [0 .. n -> S] : Good(n, f)}
  <1>1. SUFFICES ASSUME Bad # {} PROVE FALSE
    BY DEF Bad
  <1>0. Bad \in SUBSET Nat /\ \A n : n \in Bad <=> n \in 0 .. N /\ ~\E f \in [0 .. n -> S] : Good(n, f)
    OBVIOUS
  <1> HIDE DEF Bad
  <1>2. PICK n \in Bad : \A j \in Bad : n <= j
    BY <1>0, <1>1, LeastIsThere
  <1>3. n \in 0 .. N /\ ~\E f \in [0 .. n -> S] : Good(n, f)
    BY <1>0, <1>2
  <1>4. CASE n = 0
    <2>1. [i \in 0 .. 0 |-> start] \in [0 .. 0 -> S] /\ Good(0, [i \in 0 .. 0 |-> start])
      OBVIOUS
    <2> QED BY <1>3, <1>4, <2>1
  <1>5. CASE n # 0
    <2>1. n - 1 \in 0 .. N /\ n - 1 \notin Bad
      <3>1. n - 1 \in 0 .. N /\ ~(n <= n - 1)
        BY <1>3, <1>5
      <3> QED BY <1>2, <3>1
    <2>2. PICK f \in [0 .. n - 1 -> S] : Good(n - 1, f)
      BY <1>0, <2>1
    <2>3. n - 1 \in 0 .. n - 1 /\ n \in 1 .. N
      BY <1>3, <1>5
    <2>4. step[n][f[n - 1]] \in S
      BY <2>2, <2>3
    <2> DEFINE g == [i \in 0 .. n |-> IF i = n THEN step[n][f[n - 1]] ELSE f[i]]
    <2>5. g \in [0 .. n -> S]
      <3>1. \A i \in 0 .. n : i # n => i \in 0 .. n - 1
        BY <1>3
      <3> QED BY <2>2, <2>4, <3>1
    <2>6. g[0] = start
      BY <1>3, <1>5, <2>2
    <2>7. ASSUME NEW k \in 1 .. n PROVE g[k] = step[k][g[k - 1]]
      <3>1. k - 1 \in 0 .. n - 1 /\ k \in 0 .. n /\ k - 1 # n /\ k - 1 \in 0 .. n
        BY <1>3
      <3>2. g[k - 1] = f[k - 1]
        BY <3>1
      <3>3. CASE k = n
        BY <3>1, <3>2, <3>3
      <3>4. CASE k # n
        <4>1. k \in 1 .. n - 1
          BY <1>3, <3>4
        <4> QED BY <2>2, <3>1, <3>2, <3>4, <4>1
      <3> QED BY <3>3, <3>4
    <2> HIDE DEF g
    <2> QED BY <1>3, <2>5, <2>6, <2>7
  <1> QED BY <1>4, <1>5


(* Where a recursion over the first numbers leads, if each step stays in S. *)
LEMMA StaysWithin ==
    ASSUME NEW S, NEW N \in Nat, NEW f, f[0] \in S,
           \A k \in 1 .. N : f[k - 1] \in S => f[k] \in S
    PROVE  \A k \in 0 .. N : f[k] \in S
  <1> DEFINE Bad == {k \in 0 .. N : f[k] \notin S}
  <1>1. SUFFICES ASSUME Bad # {} PROVE FALSE
    BY DEF Bad
  <1>2. Bad \in SUBSET Nat /\ \A k : k \in Bad <=> k \in 0 .. N /\ f[k] \notin S
    OBVIOUS
  <1> HIDE DEF Bad
  <1>3. PICK k \in Bad : \A j \in Bad : k <= j
    BY <1>1, <1>2, LeastIsThere
  <1>4. k \in 1 .. N /\ k - 1 \in 0 .. N /\ ~(k <= k - 1)
    BY <1>2, <1>3
  <1>5. f[k - 1] \in S
    BY <1>2, <1>3, <1>4
  <1> QED BY <1>2, <1>3, <1>4, <1>5

-----------------------------------------------------------------------------
(* Bytes.                                                                  *)
LEMMA Powers == /\ 2 ^ 0 = 1 /\ 2 ^ 1 = 2 /\ 2 ^ 2 = 4 /\ 2 ^ 3 = 8
                /\ 2 ^ 4 = 16 /\ 2 ^ 5 = 32 /\ 2 ^ 6 = 64 /\ 2 ^ 7 = 128
  OBVIOUS
(* An exclusive or of bytes is a byte.                                     *)
LEMMA XorFits ==
    ASSUME NEW a \in Byte, NEW b \in Byte PROVE Xor8(a, b) \in Byte
  <1>1. \A x, y, k : Differ(x, y, k) \in {0, 2 ^ k}
    BY DEF Differ
  <1> DEFINE d(x, y) == Differ(x, y, 0) + Differ(x, y, 1) + Differ(x, y, 2) + Differ(x, y, 3)
                          + Differ(x, y, 4) + Differ(x, y, 5) + Differ(x, y, 6) + Differ(x, y, 7)
  <1>2. d(a, b) \in Byte
    <2>1. /\ Differ(a, b, 0) \in {0, 1} /\ Differ(a, b, 1) \in {0, 2}
          /\ Differ(a, b, 2) \in {0, 4} /\ Differ(a, b, 3) \in {0, 8}
          /\ Differ(a, b, 4) \in {0, 16} /\ Differ(a, b, 5) \in {0, 32}
          /\ Differ(a, b, 6) \in {0, 64} /\ Differ(a, b, 7) \in {0, 128}
      <3>1. /\ Differ(a, b, 0) \in {0, 2 ^ 0} /\ Differ(a, b, 1) \in {0, 2 ^ 1}
            /\ Differ(a, b, 2) \in {0, 2 ^ 2} /\ Differ(a, b, 3) \in {0, 2 ^ 3}
            /\ Differ(a, b, 4) \in {0, 2 ^ 4} /\ Differ(a, b, 5) \in {0, 2 ^ 5}
            /\ Differ(a, b, 6) \in {0, 2 ^ 6} /\ Differ(a, b, 7) \in {0, 2 ^ 7}
        BY <1>1, Zenon
      <3> QED BY <3>1, Powers, Zenon
    <2> QED BY <2>1 DEF Byte
  <1>3. Xor8(a, b) = d(a, b)
    <2>1. Xor8(a, b) = [x \in Byte |-> [y \in Byte |-> d(x, y)]][a][b]
      BY DEF Xor8
    <2> HIDE DEF d
    <2> QED BY <2>1
  <1> QED BY <1>2, <1>3

(* One shift of the checksum gives a byte.                                 *)
LEMMA ShiftFits ==
    ASSUME NEW a \in Byte PROVE ShiftOnce[a] \in Byte
  <1>1. ShiftOnce[a] = IF a >= 128 THEN Xor8((2 * a) % 256, 7) ELSE 2 * a
    BY DEF ShiftOnce
  <1>2. (2 * a) % 256 \in Byte /\ 7 \in Byte /\ (~(a >= 128) => 2 * a \in Byte)
    BY DEF Byte
  <1> QED BY <1>1, <1>2, XorFits

ShiftsFrom(byte, f) ==
    f = [k \in 0 .. 8 |-> IF k = 0 THEN byte ELSE ShiftOnce[f[k - 1]]]
(* So do eight, the entry of the table.                                    *)
LEMMA ShiftedFits ==
    ASSUME NEW a \in Byte PROVE Shifted[a] \in Byte
  <1> DEFINE step == [k \in 1 .. 8 |-> [b \in Byte |-> ShiftOnce[b]]]
  <1>1. step \in [1 .. 8 -> [Byte -> Byte]]
    BY ShiftFits
  <1>2. PICK f \in [0 .. 8 -> Byte] : f[0] = a /\ \A k \in 1 .. 8 : f[k] = step[k][f[k - 1]]
    <2> HIDE DEF step
    <2>1. PICK n \in Nat : n = 8
      OBVIOUS
    <2>2. step \in [1 .. n -> [Byte -> Byte]]
      BY <1>1, <2>1
    <2>3. PICK f : Iterates(f, Byte, a, n, step)
      BY <2>2, Iterated
    <2> QED BY <2>1, <2>3 DEF Iterates
  <1>3. ShiftsFrom(a, f)
    <2>1. \A k \in 0 .. 8 : k # 0 => k \in 1 .. 8 /\ k - 1 \in 0 .. 8
      OBVIOUS
    <2> QED BY <1>2, <2>1 DEF ShiftsFrom
  <1> DEFINE g == CHOOSE g : ShiftsFrom(a, g)
  <1>4. ShiftsFrom(a, g)
    BY <1>3
  <1>5. Shifted[a] = g[8]
    BY DEF Shifted, ShiftsFrom
  <1> HIDE DEF g
  <1>6. g[0] = a /\ \A k \in 1 .. 8 : g[k] = ShiftOnce[g[k - 1]]
    BY <1>4 DEF ShiftsFrom
  <1>7. \A k \in 0 .. 8 : g[k] \in Byte
    BY <1>6, ShiftFits, StaysWithin
  <1> QED BY <1>5, <1>7

CrcsOf(data, f) ==
    f = [i \in 0 .. Len(data) |-> IF i = 0 THEN 2 ELSE Shifted[Xor8(f[i - 1], data[i])]]
(* The checksum of bytes is a byte (compute).                              *)
LEMMA CrcFits ==
    ASSUME NEW data \in Seq(Byte) PROVE Crc8(data) \in Byte
  <1> DEFINE n == Len(data)
             step == [k \in 1 .. n |-> [b \in Byte |-> Shifted[Xor8(b, data[k])]]]
  <1>1. n \in Nat /\ \A k \in 1 .. n : data[k] \in Byte
    OBVIOUS
  <1>a. \A b \in Byte, k \in 1 .. n : Shifted[Xor8(b, data[k])] \in Byte
    BY <1>1, XorFits, ShiftedFits
  <1>2. step \in [1 .. n -> [Byte -> Byte]]
    BY <1>a
  <1>3. 2 \in Byte
    BY DEF Byte
  <1>4. PICK f \in [0 .. n -> Byte] : f[0] = 2 /\ \A k \in 1 .. n : f[k] = step[k][f[k - 1]]
    <2> HIDE DEF step, n
    <2>1. PICK start \in Byte : start = 2
      BY <1>3
    <2>2. n \in Nat
      BY <1>1
    <2>3. PICK f : Iterates(f, Byte, start, n, step)
      BY <1>2, <2>2, Iterated
    <2> QED BY <2>1, <2>3 DEF Iterates
  <1>5. CrcsOf(data, f)
    <2>1. \A k \in 0 .. n : k # 0 => k \in 1 .. n /\ k - 1 \in 0 .. n
      BY <1>1
    <2> QED BY <1>4, <2>1 DEF CrcsOf
  <1> DEFINE g == CrcAfter(data)
  <1>6. CrcsOf(data, g)
    BY <1>5 DEF CrcsOf, CrcAfter
  <1> HIDE DEF g
  <1>7. g[0] = 2 /\ \A k \in 1 .. n : g[k] = Shifted[Xor8(g[k - 1], data[k])]
    BY <1>1, <1>6 DEF CrcsOf
  <1>8. g[n] \in Byte
    <2>1. \A k \in 0 .. n : g[k] \in Byte
      <3> HIDE DEF n
      <3> QED BY <1>1, <1>3, <1>7, <1>a, StaysWithin
    <2> QED BY <1>1, <2>1
  <1> QED BY <1>3, <1>8, XorFits DEF Crc8, g

-----------------------------------------------------------------------------
(* The line: frames one after the other, each between two markers.         *)

(* Two sequences one after the other. *)
Joins(all, S, a, b) ==
    /\ all \in Seq(S) /\ Len(all) = Len(a) + Len(b)
    /\ \A i \in 1 .. Len(a) : all[i] = a[i]
    /\ \A i \in 1 .. Len(b) : all[Len(a) + i] = b[i]
(* A sequence put together of two: its length and its elements.            *)
LEMMA TwoParts ==
    ASSUME NEW S, NEW a \in Seq(S), NEW b \in Seq(S)
    PROVE  Joins(a \o b, S, a, b)
  BY DEF Joins

(* A frame on the line (FrameEncoder::encode). *)
Enclosed(e, size) ==
    /\ e \in Seq(Byte) /\ Len(e) = size /\ size \in Nat /\ 6 <= size /\ size <= 257
    /\ e[1] = Marker /\ e[size] = Marker
(* A frame on the line: bytes between two markers, of the size FrameSize   *)
(* says (Frame::encode).                                                   *)
LEMMA EncodeShape ==
    ASSUME NEW i \in 1 .. Len(SentFrames)
    PROVE  Enclosed(Encode(SentFrames[i]), FrameSize[i])
  <1> DEFINE type == SentFrames[i].type
             payload == SentFrames[i].payload
             p == Len(payload)
             size == <<4 + p>>
             body == size \o type \o payload
  <1>1. type \in Seq(Byte) /\ payload \in Seq(Byte) /\ Len(type) = 2 /\ 4 + p <= 255 /\ p \in Nat
    <2>1. SentFrames[i] \in [type : Seq(Byte), payload : Seq(Byte)]
      BY LineAssumption, ElementOfSeq
    <2> QED BY <2>1, LineAssumption
  <1>2. Encode(SentFrames[i]) = <<Marker>> \o body \o <<Crc8(body)>> \o <<Marker>>
    <2>1. ~(4 + p > 255)
      BY <1>1
    <2> QED BY <2>1, Zenon DEF Encode
  <1>3. FrameSize[i] = 6 + p
    BY DEF FrameSize
  <1>4. size \in Seq(Byte) /\ Len(size) = 1
    <2> HIDE DEF p
    <2>1. 4 + p \in Byte
      BY <1>1 DEF Byte
    <2> QED BY <2>1
  <1> HIDE DEF size, type, payload, p
  <1>5. size \o type \in Seq(Byte) /\ Len(size \o type) = 3
    <2>1. Joins(size \o type, Byte, size, type)
      BY <1>1, <1>4, TwoParts
    <2> QED BY <1>1, <1>4, <2>1 DEF Joins
  <1>6. body \in Seq(Byte) /\ Len(body) = 3 + p
    <2>1. Joins(body, Byte, size \o type, payload)
      BY <1>1, <1>5, TwoParts
    <2> QED BY <1>1, <1>5, <2>1 DEF Joins, p
  <1>7. Crc8(body) \in Byte
    BY <1>6, CrcFits
  <1> HIDE DEF body
  <1> DEFINE m == <<Marker>>
             c == <<Crc8(body)>>
  <1>8. m \in Seq(Byte) /\ Len(m) = 1 /\ m[1] = Marker /\ c \in Seq(Byte) /\ Len(c) = 1
    <2>1. Marker \in Byte
      BY DEF Marker, Byte
    <2> QED BY <1>7, <2>1
  <1> HIDE DEF m, c
  <1> DEFINE s3 == m \o body
             s4 == s3 \o c
             s5 == s4 \o m
  <1>9. s3 \in Seq(Byte) /\ Len(s3) = 4 + p /\ s3[1] = Marker
    <2>1. Joins(s3, Byte, m, body)
      BY <1>6, <1>8, TwoParts
    <2> HIDE DEF s3
    <2> QED BY <1>1, <1>6, <1>8, <2>1 DEF Joins
  <1> HIDE DEF s3
  <1>10. s4 \in Seq(Byte) /\ Len(s4) = 5 + p /\ s4[1] = Marker
    <2>1. Joins(s4, Byte, s3, c)
      BY <1>8, <1>9, TwoParts
    <2> HIDE DEF s4
    <2> QED BY <1>1, <1>8, <1>9, <2>1 DEF Joins
  <1> HIDE DEF s4
  <1>11. s5 \in Seq(Byte) /\ Len(s5) = 6 + p /\ s5[1] = Marker /\ s5[6 + p] = Marker
    <2>1. Joins(s5, Byte, s4, m)
      BY <1>8, <1>10, TwoParts
    <2> HIDE DEF s5
    <2>2. 1 \in 1 .. Len(s4) /\ 1 \in 1 .. Len(m) /\ Len(s4) + 1 = 6 + p
      BY <1>1, <1>8, <1>10
    <2> QED BY <1>1, <1>8, <1>10, <2>1, <2>2 DEF Joins
  <1>12. Encode(SentFrames[i]) = s5
    BY <1>2 DEF s4, s3, m, c
  <1>13. 6 + p \in Nat /\ 6 <= 6 + p /\ 6 + p <= 257
    BY <1>1 DEF p
  <1> HIDE DEF s5
  <1> QED BY <1>3, <1>11, <1>12, <1>13 DEF Enclosed

(* Where frames end. *)
EndsFrom(f) ==
    f = [i \in 0 .. Len(SentFrames) |-> IF i = 0 THEN 0 ELSE f[i - 1] + FrameSize[i]]
(* FrameEnd is defined by its own equation, and gives numbers.             *)
LEMMA FrameEnds ==
    /\ Len(SentFrames) \in Nat \ {0} /\ FrameEnd[0] = 0
    /\ \A i \in 1 .. Len(SentFrames) : FrameEnd[i] = FrameEnd[i - 1] + FrameSize[i]
    /\ \A i \in 0 .. Len(SentFrames) : FrameEnd[i] \in Nat
    /\ \A i \in 1 .. Len(SentFrames) : FrameSize[i] \in Nat
  <1> DEFINE n == Len(SentFrames)
             step == [k \in 1 .. n |-> [b \in Nat |-> b + FrameSize[k]]]
  <1>1. n \in Nat /\ n # 0
    BY LineAssumption
  <1>2. \A i \in 1 .. n : FrameSize[i] \in Nat
    BY EncodeShape DEF Enclosed
  <1>3. step \in [1 .. n -> [Nat -> Nat]]
    BY <1>2
  <1>4. PICK f : Iterates(f, Nat, 0, n, step)
    <2> HIDE DEF step, n
    <2>1. PICK start \in Nat : start = 0
      OBVIOUS
    <2>2. n \in Nat
      BY <1>1
    <2> QED BY <1>3, <2>1, <2>2, Iterated
  <1>5. EndsFrom(f)
    <2>1. \A k \in 0 .. n : k # 0 => k \in 1 .. n /\ k - 1 \in 0 .. n
      BY <1>1
    <2> QED BY <1>4, <2>1 DEF EndsFrom, Iterates
  <1>6. EndsFrom(FrameEnd)
    BY <1>5 DEF EndsFrom, FrameEnd
  <1> DEFINE g == FrameEnd
  <1> HIDE DEF g, n
  <1>7. g[0] = 0 /\ \A k \in 1 .. n : g[k] = g[k - 1] + FrameSize[k]
    BY <1>1, <1>6 DEF EndsFrom, g, n
  <1>8. \A k \in 0 .. n : g[k] \in Nat
    <2>1. ASSUME NEW k \in 1 .. n, g[k - 1] \in Nat PROVE g[k] \in Nat
      <3>1. FrameSize[k] \in Nat
        BY <1>2 DEF n
      <3> QED BY <1>7, <2>1, <3>1
    <2>2. g[0] \in Nat /\ n \in Nat
      BY <1>1, <1>7
    <2> QED BY <2>1, <2>2, StaysWithin
  <1> QED BY <1>1, <1>2, <1>7, <1>8 DEF g, n

(* The longest frame. *)
LEMMA LongestFits ==
    Longest \in Nat /\ \A i \in 1 .. Len(SentFrames) : FrameSize[i] <= Longest
  <1> DEFINE n == Len(SentFrames)
             Short == {257 - FrameSize[i] : i \in 1 .. n}
  <1>1. \A i \in 1 .. n : FrameSize[i] \in Nat /\ 257 - FrameSize[i] \in Nat
    <2> TAKE i \in 1 .. n
    <2>1. FrameSize[i] \in Nat /\ FrameSize[i] <= 257
      BY EncodeShape DEF Enclosed
    <2> QED BY <2>1
  <1>2. Short \in SUBSET Nat /\ Short # {}
    <2>1. 1 \in 1 .. n
      BY FrameEnds
    <2>2. 257 - FrameSize[1] \in Short
      BY <2>1
    <2> QED BY <1>1, <2>2
  <1> HIDE DEF Short
  <1>3. PICK s \in Short : \A t \in Short : s <= t
    BY <1>2, LeastIsThere
  <1>4. PICK k \in 1 .. n : s = 257 - FrameSize[k]
    BY DEF Short
  <1>5. \A i \in 1 .. n : FrameSize[i] <= FrameSize[k]
    <2> TAKE i \in 1 .. n
    <2>1. 257 - FrameSize[i] \in Short
      BY DEF Short
    <2>2. 257 - FrameSize[k] <= 257 - FrameSize[i]
      BY <1>3, <1>4, <2>1
    <2> QED BY <1>1, <2>2
  <1>6. FrameSize[k] \in Range(FrameSize)
    BY DEF Range, FrameSize
  <1>7. Longest \in Range(FrameSize) /\ \A i \in 1 .. n : FrameSize[i] <= Longest
    BY <1>5, <1>6 DEF Longest
  <1>8. Longest \in Nat
    <2>1. \A v \in Range(FrameSize) : \E i \in 1 .. n : v = FrameSize[i]
      BY DEF Range, FrameSize
    <2> QED BY <1>1, <1>7, <2>1
  <1> QED BY <1>7, <1>8

(* The bytes of the line up to its k-th frame. *)
Glued(f, seqs) ==
    f = [i \in 1 .. Len(seqs) |-> IF i = 1 THEN seqs[i] ELSE f[i - 1] \o seqs[i]]
MarkedTo(bytes, k) ==
    /\ bytes \in Seq(Byte) /\ Len(bytes) = FrameEnd[k]
    /\ \A i \in 1 .. k : /\ FrameEnd[i] \in 1 .. FrameEnd[k] /\ bytes[FrameEnd[i]] = Marker
                         /\ FrameEnd[i - 1] + 1 \in 1 .. FrameEnd[k]
                         /\ bytes[FrameEnd[i - 1] + 1] = Marker
(* The bytes of the first frame begin and end with a marker.               *)
LEMMA FirstMarked ==
    ASSUME NEW e, Enclosed(e, FrameSize[1])
    PROVE  MarkedTo(e, 1)
  <1>1. 1 \in 1 .. Len(SentFrames) /\ FrameEnd[0] = 0
    BY FrameEnds
  <1>2. FrameEnd[1] = FrameEnd[1 - 1] + FrameSize[1] /\ 1 - 1 = 0
    BY <1>1, FrameEnds
  <1>3. FrameSize[1] \in Nat /\ FrameSize[1] >= 1
    BY DEF Enclosed
  <1>4. FrameEnd[1] = FrameSize[1]
    BY <1>1, <1>2, <1>3
  <1>5. \A i \in 1 .. 1 : i = 1
    OBVIOUS
  <1> QED BY <1>1, <1>2, <1>3, <1>4, <1>5 DEF Enclosed, MarkedTo
(* One more frame adds its two markers and moves none.                     *)
LEMMA NextMarked ==
    ASSUME NEW k \in 1 .. Len(SentFrames), k # 1, NEW bytes, MarkedTo(bytes, k - 1),
           NEW e, Enclosed(e, FrameSize[k])
    PROVE  MarkedTo(bytes \o e, k)
  <1> DEFINE all == bytes \o e
             a == FrameEnd[k - 1]
             b == FrameEnd[k]
             size == FrameSize[k]
  <1>1. bytes \in Seq(Byte) /\ e \in Seq(Byte) /\ Len(bytes) = a /\ Len(e) = size
    BY DEF MarkedTo, Enclosed
  <1>2. Joins(all, Byte, bytes, e)
    BY <1>1, TwoParts
  <1>3. k - 1 \in 0 .. Len(SentFrames)
    OBVIOUS
  <1>4. a \in Nat /\ b = a + size
    BY <1>3, FrameEnds
  <1>5. size \in Nat /\ size >= 6 /\ e[1] = Marker /\ e[size] = Marker
    BY DEF Enclosed
  <1> HIDE DEF all
  <1>6. all \in Seq(Byte) /\ Len(all) = b
    BY <1>1, <1>2, <1>4, <1>5 DEF Joins
  <1>7. 1 \in 1 .. size /\ size \in 1 .. size /\ a + 1 \in 1 .. b /\ b \in 1 .. b
    BY <1>4, <1>5
  <1>8. all[a + 1] = Marker /\ all[b] = Marker
    <2>1. all[Len(bytes) + 1] = e[1] /\ all[Len(bytes) + size] = e[size]
      BY <1>1, <1>2, <1>7 DEF Joins
    <2>2. Len(bytes) + 1 = a + 1 /\ Len(bytes) + size = b
      BY <1>1, <1>4
    <2> QED BY <1>5, <2>1, <2>2
  <1>9. ASSUME NEW i \in 1 .. k
        PROVE  /\ FrameEnd[i] \in 1 .. b /\ all[FrameEnd[i]] = Marker
               /\ FrameEnd[i - 1] + 1 \in 1 .. b /\ all[FrameEnd[i - 1] + 1] = Marker
    <2>1. CASE i = k
      BY <1>7, <1>8, <2>1
    <2>2. CASE i # k
      <3>1. i \in 1 .. k - 1
        BY <2>2
      <3>2. /\ FrameEnd[i] \in 1 .. a /\ bytes[FrameEnd[i]] = Marker
            /\ FrameEnd[i - 1] + 1 \in 1 .. a /\ bytes[FrameEnd[i - 1] + 1] = Marker
        BY <3>1 DEF MarkedTo
      <3>3. \A p \in 1 .. a : p \in 1 .. b /\ all[p] = bytes[p]
        BY <1>1, <1>2, <1>4, <1>5 DEF Joins
      <3> HIDE DEF a, b
      <3> QED BY <3>2, <3>3
    <2> QED BY <2>1, <2>2
  <1> QED BY <1>6, <1>9 DEF MarkedTo, all

(* The bytes of the line: every frame begins and ends with a marker, where *)
(* FrameEnd says.                                                          *)
LEMMA LineShape == MarkedTo(LineBytes, Len(SentFrames))
  <1> DEFINE n == Len(SentFrames)
             seqs == [i \in 1 .. n |-> Encode(SentFrames[i])]
             step == [k \in 1 .. n |-> [s \in Seq(Byte) |-> s \o seqs[k]]]
  <1>1. n \in Nat /\ n # 0 /\ 1 \in 1 .. n
    BY FrameEnds
  <1>2. \A i \in 1 .. n : Enclosed(seqs[i], FrameSize[i])
    BY EncodeShape
  <1>3. Len(seqs) = n /\ DOMAIN seqs = 1 .. n
    BY <1>1
  <1>4. \A i \in 1 .. n : seqs[i] \in Seq(Byte)
    BY <1>2 DEF Enclosed
  <1>5. LineBytes = FlattenSeq(seqs)
    BY DEF LineBytes, Concat
  <1> HIDE DEF seqs
  <1>6. step \in [1 .. n -> [Seq(Byte) -> Seq(Byte)]]
    <2>1. \A s \in Seq(Byte), k \in 1 .. n : s \o seqs[k] \in Seq(Byte)
      BY <1>4, TwoParts DEF Joins
    <2> QED BY <2>1
  <1>7. PICK f : Iterates(f, Seq(Byte), <<>>, n, step)
    <2> HIDE DEF step, n
    <2>1. <<>> \in Seq(Byte) /\ n \in Nat
      BY <1>1
    <2> QED BY <1>6, <2>1, Iterated
  <1> DEFINE h == [i \in 1 .. n |-> f[i]]
  <1>8. Glued(h, seqs)
    <2>1. \A k \in 1 .. n : f[k - 1] \in Seq(Byte) /\ f[k] = f[k - 1] \o seqs[k]
      <3> TAKE k \in 1 .. n
      <3>1. k - 1 \in 0 .. n
        OBVIOUS
      <3> QED BY <1>7, <3>1 DEF Iterates
    <2>2. f[1] = seqs[1]
      <3>1. f[1] = <<>> \o seqs[1]
        <4>1. f[0] = <<>> /\ 1 - 1 = 0
          BY <1>7 DEF Iterates
        <4> QED BY <1>1, <2>1, <4>1
      <3> QED BY <1>1, <1>4, <3>1
    <2>3. \A k \in 1 .. n : k # 1 => k - 1 \in 1 .. n
      OBVIOUS
    <2> HIDE DEF n
    <2>4. h = [i \in 1 .. n |-> IF i = 1 THEN seqs[i] ELSE h[i - 1] \o seqs[i]]
      BY <2>1, <2>2, <2>3
    <2> QED BY <1>3, <2>4 DEF Glued
  <1> DEFINE g == CHOOSE g : Glued(g, seqs)
  <1>9. Glued(g, seqs)
    BY <1>8
  <1>10. LineBytes = g[n]
    BY <1>1, <1>3, <1>5 DEF FlattenSeq, Glued
  <1> HIDE DEF g
  <1>11. g[1] = seqs[1] /\ \A k \in 1 .. n : k # 1 => g[k] = g[k - 1] \o seqs[k]
    BY <1>1, <1>3, <1>9 DEF Glued
  <1>12. \A k \in 1 .. n : MarkedTo(g[k], k)
    <2> DEFINE Bad == {k \in 1 .. n : ~MarkedTo(g[k], k)}
    <2>1. SUFFICES ASSUME Bad # {} PROVE FALSE
      BY DEF Bad
    <2>2. Bad \in SUBSET Nat /\ \A k : k \in Bad <=> k \in 1 .. n /\ ~MarkedTo(g[k], k)
      OBVIOUS
    <2> HIDE DEF Bad
    <2>3. PICK k \in Bad : \A j \in Bad : k <= j
      BY <2>1, <2>2, LeastIsThere
    <2>4. k \in 1 .. n /\ ~MarkedTo(g[k], k) /\ Enclosed(seqs[k], FrameSize[k])
      BY <1>2, <2>2, <2>3
    <2>5. CASE k = 1
      BY <1>11, <2>4, <2>5, FirstMarked
    <2>6. CASE k # 1
      <3>1. k - 1 \in 1 .. n /\ ~(k <= k - 1)
        BY <2>4, <2>6
      <3>2. MarkedTo(g[k - 1], k - 1)
        BY <2>2, <2>3, <3>1
      <3>3. g[k] = g[k - 1] \o seqs[k]
        BY <1>11, <2>4, <2>6
      <3> QED BY <2>4, <2>6, <3>2, <3>3, NextMarked
    <2> QED BY <2>5, <2>6
  <1> QED BY <1>1, <1>10, <1>12

(* Any stretch of the line as long as its longest frame holds two markers. *)
LEMMA TwoMarkers ==
    ASSUME NEW from \in Nat, from + Longest <= FrameEnd[Len(SentFrames)]
    PROVE  \E p, q \in from + 1 .. from + Longest :
              p # q /\ LineBytes[p] = Marker /\ LineBytes[q] = Marker
  <1> DEFINE n == Len(SentFrames)
             Later == {i \in 0 .. n : from < FrameEnd[i]}
  <1>1. /\ n \in Nat /\ n # 0 /\ FrameEnd[0] = 0
        /\ \A i \in 0 .. n : FrameEnd[i] \in Nat
        /\ \A i \in 1 .. n : FrameEnd[i] = FrameEnd[i - 1] + FrameSize[i] /\ FrameSize[i] \in Nat
    BY FrameEnds
  <1>2. \A i \in 1 .. n : FrameSize[i] >= 6 /\ FrameSize[i] <= Longest
    <2> TAKE i \in 1 .. n
    <2>1. FrameSize[i] \in Nat /\ 6 <= FrameSize[i]
      BY EncodeShape DEF Enclosed
    <2> QED BY <2>1, LongestFits
  <1>3. Longest \in Nat /\ Longest >= 6
    <2>1. 1 \in 1 .. n
      BY <1>1
    <2> QED BY <1>1, <1>2, <2>1, LongestFits
  <1>4. \A i \in 1 .. n : LineBytes[FrameEnd[i]] = Marker /\ LineBytes[FrameEnd[i - 1] + 1] = Marker
    BY LineShape DEF MarkedTo
  <1>5. Later \in SUBSET Nat /\ Later # {}
    <2>1. n \in 0 .. n /\ FrameEnd[n] \in Nat
      BY <1>1
    <2>2. from < FrameEnd[n]
      BY <1>3, <2>1
    <2> QED BY <2>1, <2>2
  <1>6. \A i : i \in Later <=> i \in 0 .. n /\ from < FrameEnd[i]
    OBVIOUS
  <1> HIDE DEF Later
  <1>7. PICK i \in Later : \A j \in Later : i <= j
    BY <1>5, LeastIsThere
  <1>8. i \in 1 .. n /\ i - 1 \in 0 .. n /\ from < FrameEnd[i]
    <2>1. i \in 0 .. n /\ from < FrameEnd[i]
      BY <1>6, <1>7
    <2>2. i # 0
      BY <1>1, <2>1
    <2> QED BY <2>1, <2>2
  <1>9. FrameEnd[i - 1] <= from
    <2>1. ~(i <= i - 1)
      BY <1>8
    <2>2. i - 1 \notin Later
      BY <1>7, <2>1
    <2>3. FrameEnd[i - 1] \in Nat
      BY <1>1, <1>8
    <2> QED BY <1>6, <1>8, <2>2, <2>3
  <1> DEFINE a == FrameEnd[i - 1]
             b == FrameEnd[i]
             size == FrameSize[i]
  <1>10. a \in Nat /\ size \in Nat /\ b = a + size /\ size >= 6 /\ size <= Longest
    BY <1>1, <1>2, <1>8
  <1>11. a <= from /\ from < b /\ LineBytes[b] = Marker /\ LineBytes[a + 1] = Marker
    BY <1>4, <1>8, <1>9
  <1>12. CASE a = from
    <2> HIDE DEF a, b, size
    <2>1. a + 1 # b /\ a + 1 \in from + 1 .. from + Longest /\ b \in from + 1 .. from + Longest
      BY <1>3, <1>10, <1>12
    <2> QED BY <1>11, <2>1
  <1>13. CASE a # from
    <2>1. i # n
      BY <1>3, <1>10, <1>11, <1>13
    <2>2. i + 1 \in 1 .. n /\ (i + 1) - 1 = i
      BY <1>8, <2>1
    <2>3. LineBytes[b + 1] = Marker
      BY <1>4, <2>2
    <2> HIDE DEF a, b, size
    <2>4. b # b + 1 /\ b \in from + 1 .. from + Longest /\ b + 1 \in from + 1 .. from + Longest
      BY <1>3, <1>10, <1>11, <1>13
    <2> QED BY <1>11, <2>3, <2>4
  <1> QED BY <1>12, <1>13

-----------------------------------------------------------------------------
(* The decoders.                                                           *)

(* A decoder by its fields. *)
Holding(b, f, e, m) == [buffer |-> b, inFrame |-> f, expected |-> e, errors |-> m]
Fits(b, f, e, m) ==
    /\ b \in Seq(Byte) /\ f \in BOOLEAN /\ e \in Nat /\ e <= 255 /\ m \in Nat
    /\ e = 0 => b = <<>>
DecoderFits(d) == \E b, f, e, m : Fits(b, f, e, m) /\ d = Holding(b, f, e, m)

(* What a decoder has collected beyond the length it was told: it waits    *)
(* for a marker.                                                           *)
Excess(d) == Len(d.buffer) - d.expected
(* The decoder that hears one more byte. *)
HeardBy(d, byte, r) ==
    /\ DecoderFits(r)
    /\ Excess(r) > 0 => byte # Marker /\ Excess(d) >= 0 /\ Excess(r) <= Excess(d) + 1

Facts(b, f, e, m) ==
    /\ Holding(b, f, e, m).buffer = b /\ Holding(b, f, e, m).inFrame = f
    /\ Holding(b, f, e, m).expected = e /\ Excess(Holding(b, f, e, m)) = Len(b) - e
    /\ \A x : [Holding(b, f, e, m) EXCEPT !.buffer = x] = Holding(x, f, e, m)
    /\ \A y : [Holding(b, f, e, m) EXCEPT !.expected = y] = Holding(b, f, y, m)
    /\ Idle(Holding(b, f, e, m)) = Holding(<<>>, FALSE, 0, m)
    /\ ResetOnError(Holding(b, f, e, m)) = Holding(<<>>, FALSE, 0, m + 1)
    /\ Started(Holding(b, f, e, m)) = Holding(<<>>, TRUE, 0, m)
(* The fields of a decoder and what the changes of the code make of it     *)
(* (reset, reset_on_error, start).                                         *)
LEMMA HoldingFields ==
    ASSUME NEW b, NEW f, NEW e, NEW m
    PROVE  Facts(b, f, e, m)
  <1>1. /\ Holding(b, f, e, m).buffer = b /\ Holding(b, f, e, m).inFrame = f
        /\ Holding(b, f, e, m).expected = e /\ Holding(b, f, e, m).errors = m
    BY DEF Holding
  <1>2. ASSUME NEW a, NEW g, NEW t, NEW n
        PROVE  /\ \A x : [Holding(a, g, t, n) EXCEPT !.buffer = x] = Holding(x, g, t, n)
               /\ \A x : [Holding(a, g, t, n) EXCEPT !.inFrame = x] = Holding(a, x, t, n)
               /\ \A x : [Holding(a, g, t, n) EXCEPT !.expected = x] = Holding(a, g, x, n)
               /\ \A x : [Holding(a, g, t, n) EXCEPT !.errors = x] = Holding(a, g, t, x)
               /\ Holding(a, g, t, n).errors = n
    BY DEF Holding
  <1>3. [Holding(b, f, e, m) EXCEPT !.buffer = <<>>] = Holding(<<>>, f, e, m)
    BY <1>2
  <1>4. \A x : [Holding(<<>>, f, e, m) EXCEPT !.inFrame = x] = Holding(<<>>, x, e, m)
    BY <1>2
  <1>5. \A x : [Holding(<<>>, x, e, m) EXCEPT !.expected = 0] = Holding(<<>>, x, 0, m)
    BY <1>2
  <1>6. Idle(Holding(b, f, e, m)) = Holding(<<>>, FALSE, 0, m)
    BY <1>3, <1>4, <1>5 DEF Idle
  <1>7. Started(Holding(b, f, e, m)) = Holding(<<>>, TRUE, 0, m)
    BY <1>3, <1>4, <1>5 DEF Started
  <1>8. ResetOnError(Holding(b, f, e, m)) = Holding(<<>>, FALSE, 0, m + 1)
    <2>1. /\ [Holding(<<>>, FALSE, 0, m) EXCEPT !.errors = m + 1] = Holding(<<>>, FALSE, 0, m + 1)
          /\ Holding(<<>>, FALSE, 0, m).errors = m
      <3>1. \A g, t, x : /\ [Holding(<<>>, g, t, m) EXCEPT !.errors = x] = Holding(<<>>, g, t, x)
                         /\ Holding(<<>>, g, t, m).errors = m
        <4> TAKE g, t, x
        <4> QED BY <1>2
      <3> QED BY <3>1
    <2>2. ResetOnError(Holding(b, f, e, m)) = [Holding(<<>>, FALSE, 0, m) EXCEPT !.errors = @ + 1]
      BY <1>6 DEF ResetOnError
    <2> QED BY <2>1, <2>2
  <1>9. Excess(Holding(b, f, e, m)) = Len(b) - e
    BY <1>1 DEF Excess
  <1>10. /\ \A x : [Holding(b, f, e, m) EXCEPT !.buffer = x] = Holding(x, f, e, m)
         /\ \A y : [Holding(b, f, e, m) EXCEPT !.expected = y] = Holding(b, f, y, m)
    BY <1>2
  <1> QED BY <1>1, <1>6, <1>7, <1>8, <1>9, <1>10 DEF Facts

(* A decoder that is empty collects nothing. *)
LEMMA EmptyFits ==
    ASSUME NEW d, NEW byte, DecoderFits(d)
    PROVE  /\ HeardBy(d, byte, Idle(d)) /\ HeardBy(d, byte, ResetOnError(d))
           /\ HeardBy(d, byte, Started(d)) /\ HeardBy(d, byte, Started(ResetOnError(d)))
  <1>1. ASSUME NEW f \in BOOLEAN, NEW m \in Nat PROVE HeardBy(d, byte, Holding(<<>>, f, 0, m))
    <2>1. <<>> \in Seq(Byte) /\ Len(<<>>) = 0
      OBVIOUS
    <2>2. Fits(<<>>, f, 0, m)
      BY <2>1 DEF Fits
    <2>3. Excess(Holding(<<>>, f, 0, m)) = 0
      <3>1. Facts(<<>>, f, 0, m)
        BY HoldingFields
      <3> QED BY <2>1, <3>1 DEF Facts
    <2>4. DecoderFits(Holding(<<>>, f, 0, m))
      BY <2>2 DEF DecoderFits
    <2> QED BY <2>3, <2>4 DEF HeardBy
  <1>2. PICK b, f, e, m : Fits(b, f, e, m) /\ d = Holding(b, f, e, m)
    BY DEF DecoderFits
  <1>3. m \in Nat /\ m + 1 \in Nat
    BY <1>2 DEF Fits
  <1>4. /\ Idle(d) = Holding(<<>>, FALSE, 0, m) /\ ResetOnError(d) = Holding(<<>>, FALSE, 0, m + 1)
        /\ Started(d) = Holding(<<>>, TRUE, 0, m)
    <2>1. Facts(b, f, e, m)
      BY HoldingFields
    <2> QED BY <1>2, <2>1 DEF Facts
  <1>5. Started(ResetOnError(d)) = Holding(<<>>, TRUE, 0, m + 1)
    <2>1. Facts(<<>>, FALSE, 0, m + 1)
      BY HoldingFields
    <2> QED BY <1>4, <2>1 DEF Facts
  <1> QED BY <1>1, <1>3, <1>4, <1>5

(* A decoder that collects a byte. *)
LEMMA LongerFits ==
    ASSUME NEW b, NEW f, NEW e, NEW m, Fits(b, f, e, m),
           NEW byte \in Byte, NEW t \in Nat, t <= 255, t # 0,
           byte # Marker \/ Len(b) < t,
           t = e \/ b = <<>>
    PROVE  HeardBy(Holding(b, f, e, m), byte, Holding(Append(b, byte), f, t, m))
  <1>1. /\ Append(b, byte) \in Seq(Byte) /\ Len(Append(b, byte)) = Len(b) + 1 /\ Len(b) \in Nat
        /\ (b = <<>> => Len(b) = 0) /\ e \in Nat
    BY DEF Fits
  <1>2. DecoderFits(Holding(Append(b, byte), f, t, m))
    BY <1>1 DEF DecoderFits, Fits
  <1>3. PICK n \in Nat : n = Len(b)
    BY <1>1
  <1>4. Excess(Holding(Append(b, byte), f, t, m)) = n + 1 - t
    <2>1. Facts(Append(b, byte), f, t, m)
      BY HoldingFields
    <2> QED BY <1>1, <1>3, <2>1 DEF Facts
  <1>5. Excess(Holding(b, f, e, m)) = n - e
    <2>1. Facts(b, f, e, m)
      BY HoldingFields
    <2> QED BY <1>3, <2>1 DEF Facts
  <1>6. n + 1 - t > 0 => byte # Marker /\ n - e >= 0 /\ n + 1 - t <= n - e + 1
    <2>1. e \in Nat /\ (t = e \/ n = 0) /\ (byte # Marker \/ n < t)
      BY <1>1, <1>3
    <2> QED BY <2>1
  <1> QED BY <1>2, <1>4, <1>5, <1>6 DEF HeardBy

(* A decoder that is left as it is. *)
LEMMA SameFits ==
    ASSUME NEW d, DecoderFits(d), NEW byte, byte # Marker \/ d.expected = 0
    PROVE  HeardBy(d, byte, d)
  <1>1. PICK b, f, e, m : Fits(b, f, e, m) /\ d = Holding(b, f, e, m)
    BY DEF DecoderFits
  <1>2. Excess(d) = Len(b) - e /\ d.expected = e
    <2>1. Facts(b, f, e, m)
      BY HoldingFields
    <2> QED BY <1>1, <2>1 DEF Facts
  <1>3. Len(b) \in Nat /\ e \in Nat /\ (e = 0 => Len(b) = 0)
    BY <1>1 DEF Fits
  <1>4. Excess(d) \in Int /\ (e = 0 => Excess(d) = 0)
    BY <1>2, <1>3
  <1> QED BY <1>2, <1>4 DEF HeardBy

(* The end of a body. *)
LEMMA EndsFit ==
    ASSUME NEW d, DecoderFits(d), NEW byte
    PROVE  HeardBy(d, byte, Ends(d).dec)
  <1>1. Ends(d).dec = ResetOnError(d) \/ Ends(d).dec = Idle(d)
    BY DEF Ends, Stays
  <1> QED BY <1>1, EmptyFits

(* A byte that is fed (FrameDecoder::feed). *)
LEMMA FeedFits ==
    ASSUME NEW d, DecoderFits(d), NEW byte \in Byte
    PROVE  HeardBy(d, byte, Feed(d, byte).dec)
  <1>0. \A r : Stays(r).dec = r
    BY DEF Stays
  <1>1. PICK b, f, e, m : Fits(b, f, e, m) /\ d = Holding(b, f, e, m)
    BY DEF DecoderFits
  <1>2. /\ d.buffer = b /\ d.inFrame = f /\ d.expected = e
        /\ \A x : [d EXCEPT !.buffer = x] = Holding(x, f, e, m)
    <2>1. Facts(b, f, e, m)
      BY HoldingFields
    <2> QED BY <1>1, <2>1 DEF Facts
  <1>3. /\ b \in Seq(Byte) /\ f \in BOOLEAN /\ e \in Nat /\ e <= 255 /\ (e = 0 => b = <<>>)
        /\ Len(b) \in Nat /\ byte \in Nat /\ byte <= 255
    BY <1>1 DEF Fits, Byte
  <1>4. \A y : [Holding(Append(b, byte), f, e, m) EXCEPT !.expected = y]
                 = Holding(Append(b, byte), f, y, m)
    <2>1. Facts(Append(b, byte), f, e, m)
      BY HoldingFields
    <2> QED BY <2>1 DEF Facts
  <1>5. CASE byte = Marker
    <2>1. Feed(d, byte) = FeedMarker(d)
      BY <1>5 DEF Feed
    <2>2. CASE f = FALSE
      <3>1. FeedMarker(d) = Stays(Started(d))
        BY <1>2, <2>2 DEF FeedMarker
      <3> QED BY <1>0, <2>1, <3>1, EmptyFits
    <2>3. CASE f = TRUE /\ e > 0 /\ Len(b) >= e
      <3>1. FeedMarker(d) = Ends(d)
        BY <1>2, <2>3 DEF FeedMarker
      <3> QED BY <2>1, <3>1, EndsFit
    <2>4. CASE f = TRUE /\ e > 0 /\ ~(Len(b) >= e)
      <3>1. FeedMarker(d).dec = Holding(Append(b, byte), f, e, m)
        <4>1. FeedMarker(d) = Stays([d EXCEPT !.buffer = Append(b, Marker)])
          BY <1>2, <2>4 DEF FeedMarker
        <4>2. FeedMarker(d).dec = [d EXCEPT !.buffer = Append(b, byte)]
          BY <1>0, <1>5, <4>1
        <4> QED BY <1>2, <4>2
      <3>2. Len(b) < e /\ e # 0
        BY <1>3, <2>4
      <3> QED BY <1>1, <1>3, <2>1, <3>1, <3>2, LongerFits
    <2>5. CASE f = TRUE /\ e = 0
      <3>1. FeedMarker(d).dec = d
        BY <1>0, <1>2, <1>3, <2>5 DEF FeedMarker
      <3> QED BY <1>2, <2>1, <2>5, <3>1, SameFits
    <2>6. (f = TRUE \/ f = FALSE) /\ (e = 0 \/ e > 0)
      BY <1>3
    <2> QED BY <2>2, <2>3, <2>4, <2>5, <2>6, Zenon
  <1>6. CASE byte # Marker
    <2>1. Feed(d, byte) = FeedByte(d, byte)
      BY <1>6 DEF Feed
    <2>2. CASE f = FALSE
      <3>1. FeedByte(d, byte).dec = d
        BY <1>0, <1>2, <2>2 DEF FeedByte
      <3> QED BY <1>6, <2>1, <3>1, SameFits
    <2>3. CASE f = TRUE /\ b = <<>> /\ BadLength(byte)
      <3>1. FeedByte(d, byte).dec = ResetOnError(d)
        BY <1>0, <1>2, <2>3 DEF FeedByte
      <3> QED BY <2>1, <3>1, EmptyFits
    <2>4. CASE f = TRUE /\ b = <<>> /\ ~BadLength(byte)
      <3>1. FeedByte(d, byte).dec = Holding(Append(b, byte), f, byte, m)
        <4>1. FeedByte(d, byte) = Stays([[d EXCEPT !.buffer = Append(b, byte)] EXCEPT !.expected = byte])
          BY <1>2, <2>4 DEF FeedByte
        <4>2. [d EXCEPT !.buffer = Append(b, byte)] = Holding(Append(b, byte), f, e, m)
          BY <1>2
        <4>3. [[d EXCEPT !.buffer = Append(b, byte)] EXCEPT !.expected = byte]
                = Holding(Append(b, byte), f, byte, m)
          BY <1>4, <4>2
        <4> QED BY <1>0, <4>1, <4>3
      <3>2. byte # 0
        BY <2>4 DEF BadLength
      <3> QED BY <1>1, <1>3, <1>6, <2>1, <2>4, <3>1, <3>2, LongerFits
    <2>5. CASE f = TRUE /\ b # <<>>
      <3>1. FeedByte(d, byte).dec = Holding(Append(b, byte), f, e, m)
        BY <1>0, <1>2, <2>5 DEF FeedByte
      <3>2. e # 0
        BY <1>3, <2>5
      <3> QED BY <1>1, <1>3, <1>6, <2>1, <3>1, <3>2, LongerFits
    <2>6. f = TRUE \/ f = FALSE
      BY <1>3
    <2> QED BY <2>2, <2>3, <2>4, <2>5, <2>6, Zenon
  <1> QED BY <1>5, <1>6

(* A byte of a slice (FrameDecoder::feed_slice). *)
LEMMA SliceFits ==
    ASSUME NEW d, DecoderFits(d), NEW byte \in Byte
    PROVE  HeardBy(d, byte, SliceStep(d, byte).dec)
  <1>0. \A r : Stays(r).dec = r
    BY DEF Stays
  <1>1. PICK b, f, e, m : Fits(b, f, e, m) /\ d = Holding(b, f, e, m)
    BY DEF DecoderFits
  <1>2. /\ d.buffer = b /\ d.inFrame = f /\ d.expected = e
        /\ \A x : [d EXCEPT !.buffer = x] = Holding(x, f, e, m)
    <2>1. Facts(b, f, e, m)
      BY HoldingFields
    <2> QED BY <1>1, <2>1 DEF Facts
  <1>3. /\ b \in Seq(Byte) /\ f \in BOOLEAN /\ e \in Nat /\ e <= 255 /\ (e = 0 => b = <<>>)
        /\ Len(b) \in Nat /\ byte \in Nat /\ byte <= 255
    BY <1>1 DEF Fits, Byte
  <1>4. CASE f = FALSE
    <2>1. SliceStep(d, byte).dec = IF byte = Marker THEN Started(d) ELSE d
      BY <1>0, <1>2, <1>4 DEF SliceStep
    <2> QED BY <2>1, EmptyFits, SameFits
  <1>5. CASE f = TRUE /\ e = 0
    <2>1. CASE byte = Marker
      <3>1. SliceStep(d, byte).dec = Started(d)
        BY <1>0, <1>2, <1>5, <2>1 DEF SliceStep
      <3> QED BY <3>1, EmptyFits
    <2>2. CASE byte # Marker /\ BadLength(byte)
      <3>1. SliceStep(d, byte).dec = ResetOnError(d)
        BY <1>0, <1>2, <1>5, <2>2 DEF SliceStep
      <3> QED BY <3>1, EmptyFits
    <2>3. CASE byte # Marker /\ ~BadLength(byte)
      <3>1. Append(b, byte) = <<byte>>
        BY <1>3, <1>5
      <3>2. SliceStep(d, byte).dec = [d EXCEPT !.buffer = <<byte>>, !.expected = byte]
        BY <1>0, <1>2, <1>5, <2>3 DEF SliceStep
      <3>3. [d EXCEPT !.buffer = <<byte>>] = Holding(<<byte>>, f, e, m)
        BY <1>2
      <3>4. [Holding(<<byte>>, f, e, m) EXCEPT !.expected = byte] = Holding(<<byte>>, f, byte, m)
        <4>1. Facts(<<byte>>, f, e, m)
          BY HoldingFields
        <4> QED BY <4>1 DEF Facts
      <3>5. SliceStep(d, byte).dec = Holding(Append(b, byte), f, byte, m)
        BY <3>1, <3>2, <3>3, <3>4
      <3>6. byte # 0 /\ b = <<>>
        BY <1>3, <1>5, <2>3 DEF BadLength
      <3> QED BY <1>1, <1>3, <2>3, <3>5, <3>6, LongerFits
    <2> QED BY <2>1, <2>2, <2>3
  <1>6. CASE f = TRUE /\ e > 0
    <2>1. CASE Len(b) < e
      <3>1. SliceStep(d, byte).dec = Holding(Append(b, byte), f, e, m)
        <4>1. SliceStep(d, byte) = Stays([d EXCEPT !.buffer = Append(b, byte)])
          <5>1. ~(e = 0) /\ d.inFrame = TRUE
            BY <1>2, <1>3, <1>6
          <5> QED BY <1>2, <1>6, <2>1, <5>1 DEF SliceStep
        <4>2. SliceStep(d, byte).dec = [d EXCEPT !.buffer = Append(b, byte)]
          BY <1>0, <4>1
        <4> QED BY <1>2, <4>2
      <3>2. e # 0
        BY <1>3, <1>6
      <3> QED BY <1>1, <1>3, <2>1, <3>1, <3>2, LongerFits
    <2>2. CASE ~(Len(b) < e)
      <3>1. SliceStep(d, byte).dec = IF byte = Marker THEN Ends(d).dec ELSE ResetOnError(d)
        BY <1>0, <1>2, <1>3, <1>6, <2>2 DEF SliceStep
      <3> QED BY <3>1, EmptyFits, EndsFit
    <2> QED BY <2>1, <2>2
  <1>7. (f = TRUE \/ f = FALSE) /\ (e = 0 \/ e > 0)
    BY <1>3
  <1> QED BY <1>4, <1>5, <1>6, <1>7, Zenon

-----------------------------------------------------------------------------
(* The line.                                                               *)

(* All markers between two places of the line were spoiled. *)
MarkersMissed(from, to, faulty, where) ==
    \A p \in Nat : from < p /\ p <= to /\ LineBytes[p] = Marker => faulty = 1 /\ p = where + 1
(* Since its body was full a decoder has collected what came, and heard no *)
(* marker.                                                                 *)
Waited(d, to, faulty, where) ==
    Excess(d) > 0 =>
        \E from \in Nat : /\ from <= to /\ MarkersMissed(from, to, faulty, where)
                          /\ Excess(d) <= (to - from) + faulty
LineInv ==
    kind \in Lines =>
        /\ DecoderFits(rx) /\ at \in Nat /\ at <= Total /\ faults \in {0, 1}
        /\ Waited(rx, at, faults, faultAt)

(* What is sent to the decoders of the device is the line.                 *)
LEMMA LineIsSent ==
    ASSUME kind \in Lines
    PROVE  Bytes = LineBytes /\ Total = Len(LineBytes)
  <1>1. kind = "feed" \/ kind = "slice"
    BY DEF Lines
  <1>2. Bytes = LineBytes
    BY <1>1 DEF Bytes, Lines
  <1> QED BY <1>2 DEF Total

(* The sizes of a decoder are numbers.                                     *)
LEMMA ExcessIsInt ==
    ASSUME NEW d, DecoderFits(d)
    PROVE  /\ Excess(d) \in Int /\ Len(d.buffer) \in Nat /\ d.expected \in Nat
           /\ d.expected <= 255 /\ Excess(d) = Len(d.buffer) - d.expected
  <1>1. PICK b, f, e, m : Fits(b, f, e, m) /\ d = Holding(b, f, e, m)
    BY DEF DecoderFits
  <1>2. d.buffer = b /\ d.expected = e
    <2>1. Facts(b, f, e, m)
      BY HoldingFields
    <2> QED BY <1>1, <2>1 DEF Facts
  <1>3. Len(b) \in Nat /\ e \in Nat /\ e <= 255
    BY <1>1 DEF Fits
  <1> QED BY <1>2, <1>3 DEF Excess

(* A byte of the line is heard as it was sent. *)
LEMMA CleanStep ==
    ASSUME NEW d, NEW r, NEW to \in Nat, NEW faulty \in {0, 1}, NEW where, NEW byte,
           DecoderFits(d), HeardBy(d, byte, r), byte = LineBytes[to + 1],
           Waited(d, to, faulty, where)
    PROVE  Waited(r, to + 1, faulty, where)
  <1> SUFFICES ASSUME Excess(r) > 0
               PROVE  \E from \in Nat : /\ from <= to + 1 /\ MarkersMissed(from, to + 1, faulty, where)
                                        /\ Excess(r) <= (to + 1 - from) + faulty
    BY DEF Waited
  <1>1. byte # Marker /\ Excess(d) >= 0 /\ Excess(r) <= Excess(d) + 1 /\ DecoderFits(r)
    BY DEF HeardBy
  <1>2. PICK x \in Int, y \in Int : x = Excess(d) /\ y = Excess(r)
    BY <1>1, ExcessIsInt
  <1>3. CASE x = 0
    <2>1. MarkersMissed(to, to + 1, faulty, where)
      <3> SUFFICES ASSUME NEW p \in Nat, to < p, p <= to + 1, LineBytes[p] = Marker PROVE FALSE
        BY DEF MarkersMissed
      <3>1. p = to + 1
        OBVIOUS
      <3> QED BY <1>1, <3>1
    <2>2. y <= (to + 1 - to) + faulty /\ to <= to + 1
      BY <1>1, <1>2, <1>3
    <2> QED BY <1>2, <2>1, <2>2
  <1>4. CASE x # 0
    <2>1. x > 0 /\ y <= x + 1
      BY <1>1, <1>2, <1>4
    <2>2. PICK from \in Nat : from <= to /\ MarkersMissed(from, to, faulty, where) /\ x <= (to - from) + faulty
      BY <1>2, <2>1 DEF Waited
    <2>3. MarkersMissed(from, to + 1, faulty, where)
      <3> SUFFICES ASSUME NEW p \in Nat, from < p, p <= to + 1, LineBytes[p] = Marker
                   PROVE  faulty = 1 /\ p = where + 1
        BY DEF MarkersMissed
      <3>1. p = to + 1 \/ p <= to
        OBVIOUS
      <3>2. p <= to
        BY <1>1, <3>1
      <3> QED BY <2>2, <3>2 DEF MarkersMissed
    <2>4. y <= (to + 1 - from) + faulty /\ from <= to + 1
      BY <2>1, <2>2
    <2> QED BY <1>2, <2>3, <2>4
  <1> QED BY <1>3, <1>4

(* The fault of the line: the next byte is lost, changed, or one is added  *)
(* before it.                                                              *)
LEMMA FaultyStep ==
    ASSUME NEW d, NEW r, NEW to \in Nat, NEW where, NEW next \in {to, to + 1},
           DecoderFits(d), Waited(d, to, 0, where),
           (\E byte : HeardBy(d, byte, r)) \/ (r = d /\ next = to + 1)
    PROVE  Waited(r, next, 1, to)
  <1> SUFFICES ASSUME Excess(r) > 0
               PROVE  \E from \in Nat : /\ from <= next /\ MarkersMissed(from, next, 1, to)
                                        /\ Excess(r) <= (next - from) + 1
    BY DEF Waited
  <1>1. Excess(d) >= 0 /\ Excess(r) <= Excess(d) + 1 /\ DecoderFits(r)
    <2>1. CASE r = d
      <3>1. Excess(d) \in Int
        BY ExcessIsInt
      <3> QED BY <2>1, <3>1
    <2>2. CASE \E byte : HeardBy(d, byte, r)
      BY <2>2 DEF HeardBy
    <2> QED BY <2>1, <2>2
  <1>2. PICK x \in Int, y \in Int : x = Excess(d) /\ y = Excess(r)
    BY <1>1, ExcessIsInt
  <1>3. CASE x = 0
    <2>1. MarkersMissed(to, next, 1, to)
      BY DEF MarkersMissed
    <2>2. y <= (next - to) + 1 /\ to <= next
      BY <1>1, <1>2, <1>3
    <2> QED BY <1>2, <2>1, <2>2
  <1>4. CASE x # 0
    <2>1. x > 0 /\ y <= x + 1
      BY <1>1, <1>2, <1>4
    <2>2. PICK from \in Nat : from <= to /\ MarkersMissed(from, to, 0, where) /\ x <= (to - from) + 0
      BY <1>2, <2>1 DEF Waited
    <2>3. MarkersMissed(from, next, 1, to)
      <3> SUFFICES ASSUME NEW p \in Nat, from < p, p <= next, LineBytes[p] = Marker
                   PROVE  p = to + 1
        BY DEF MarkersMissed
      <3>1. ~(p <= to)
        BY <2>2 DEF MarkersMissed
      <3> QED BY <3>1
    <2>4. y <= (next - from) + 1 /\ from <= next
      BY <2>1, <2>2
    <2> QED BY <1>2, <2>3, <2>4
  <1> QED BY <1>3, <1>4

(* A decoder of the line that has waited holds what BufferBounded says. *)
LEMMA WaitedIsBounded ==
    ASSUME LineInv
    PROVE  BufferBounded
  <1> SUFFICES ASSUME kind \in Lines PROVE Len(rx.buffer) <= 255 + Longest
    BY DEF BufferBounded
  <1>1. /\ DecoderFits(rx) /\ at \in Nat /\ at <= Total /\ faults \in {0, 1}
        /\ Waited(rx, at, faults, faultAt)
    BY DEF LineInv
  <1>2. PICK x \in Int, b \in Nat, e \in Nat :
           x = Excess(rx) /\ b = Len(rx.buffer) /\ e = rx.expected /\ e <= 255 /\ x = b - e
    BY <1>1, ExcessIsInt
  <1>3. Longest \in Nat
    BY FrameEnds, LongestFits
  <1>4. CASE x <= 0
    BY <1>2, <1>3, <1>4
  <1>5. CASE x > 0
    <2>1. PICK from \in Nat : /\ from <= at /\ MarkersMissed(from, at, faults, faultAt)
                              /\ x <= (at - from) + faults
      BY <1>1, <1>2, <1>5 DEF Waited
    <2>2. Total = Len(LineBytes) /\ Len(LineBytes) = FrameEnd[Len(SentFrames)]
      BY LineIsSent, LineShape DEF MarkedTo
    <2>3. ~(from + Longest <= at)
      <3>1. SUFFICES ASSUME from + Longest <= at PROVE FALSE
        OBVIOUS
      <3>2. from + Longest <= FrameEnd[Len(SentFrames)]
        BY <1>1, <1>3, <2>2, <3>1, FrameEnds
      <3>3. PICK p, q \in from + 1 .. from + Longest :
                p # q /\ LineBytes[p] = Marker /\ LineBytes[q] = Marker
        BY <3>2, TwoMarkers
      <3>4. p \in Nat /\ q \in Nat /\ from < p /\ from < q /\ p <= at /\ q <= at
        BY <1>1, <1>3, <3>1
      <3>5. p = faultAt + 1 /\ q = faultAt + 1
        BY <2>1, <3>3, <3>4 DEF MarkersMissed
      <3> QED BY <3>3, <3>5
    <2>4. x <= Longest
      BY <1>1, <1>3, <2>1, <2>3
    <2> QED BY <1>2, <1>3, <2>4
  <1> QED BY <1>2, <1>4, <1>5

(* What the line sends are bytes. *)
LEMMA HeardFits ==
    ASSUME NEW byte \in Byte, NEW consumed, Hears(byte, consumed), DecoderFits(rx)
    PROVE  HeardBy(rx, byte, rx') /\ at' = at + consumed
  <1>1. /\ rx' = (IF kind = "feed" THEN Feed(rx, byte) ELSE SliceStep(rx, byte)).dec
        /\ at' = at + consumed
    BY DEF Hears
  <1> QED BY <1>1, FeedFits, SliceFits

(* The actions of the client and of a capture are about their own kind. *)
LEMMA ClientKeepsKind ==
    ASSUME \/ ConnackReads \/ SubscribeReads \/ RecvReads \/ RecvProcesses \/ AckSent
           \/ ConnackTimesOut \/ SubscribeTimesOut \/ RecvEnds \/ AckFails \/ RecvCancelled
    PROVE  kind # "log" /\ kind \notin Lines /\ kind' = kind
  <1>1. kind = "mqtt" /\ kind' = kind
    <2>1. CASE ConnackReads \/ SubscribeReads \/ RecvReads \/ AckSent
      BY <2>1 DEF ConnackReads, SubscribeReads, RecvReads, AckSent, Client
    <2>2. CASE RecvProcesses
      BY <2>2 DEF RecvProcesses, Client
    <2>3. CASE ConnackTimesOut \/ SubscribeTimesOut \/ RecvEnds \/ AckFails \/ RecvCancelled
      BY <2>3 DEF ConnackTimesOut, SubscribeTimesOut, RecvEnds, AckFails, RecvCancelled, Client
    <2> QED BY <2>1, <2>2, <2>3
  <1> QED BY <1>1 DEF Lines
(* The actions of a capture are about a capture.                           *)
LEMMA CaptureKeepsKind ==
    ASSUME \/ CheckStart \/ UartReads \/ SniffModeEnds \/ SniffPublished \/ HostShows
           \/ SniffCommand \/ SniffPublishFails
    PROVE  kind # "log" /\ kind \notin Lines /\ kind' = kind
  BY DEF CheckStart, UartReads, SniffModeEnds, SniffPublished, HostShows, SniffCommand,
         SniffPublishFails, Capture, Lines

(* Every step keeps the invariant of the line.                             *)
LEMMA NextKeepsLine ==
    ASSUME LineInv, [Next]_vars
    PROVE  LineInv'
  <1>1. CASE UNCHANGED vars
    <2>1. kind' = kind /\ at' = at /\ rx' = rx /\ faults' = faults /\ faultAt' = faultAt /\ case' = case
      BY <1>1 DEF vars
    <2>2. Total' = Total
      BY <2>1 DEF Total, Bytes
    <2> QED BY <2>1, <2>2 DEF LineInv
  <1>2. CASE LineByte \/ ByteLost \/ ByteFlipped \/ ByteAdded
    <2>1. kind \in Lines /\ kind' = kind /\ case' = case
      BY <1>2 DEF LineByte, ByteLost, ByteFlipped, ByteAdded, LineFaulty
    <2>2. /\ DecoderFits(rx) /\ at \in Nat /\ at <= Total /\ faults \in {0, 1}
          /\ Waited(rx, at, faults, faultAt)
      BY <2>1 DEF LineInv
    <2>3. Total = Len(LineBytes) /\ Bytes = LineBytes /\ Total' = Total /\ Total \in Nat
          /\ LineBytes \in Seq(Byte)
      <3>1. Total = Len(LineBytes) /\ Bytes = LineBytes
        BY <2>1, LineIsSent
      <3>2. LineBytes \in Seq(Byte) /\ Len(LineBytes) \in Nat
        BY LineShape DEF MarkedTo
      <3>3. Bytes' = Bytes
        BY <2>1 DEF Bytes
      <3> QED BY <3>1, <3>2, <3>3 DEF Total
    <2>4. ASSUME at + 1 <= Total PROVE LineBytes[at + 1] \in Byte
      BY <2>2, <2>3, <2>4
    <2>5. CASE LineByte
      <3>1. /\ Hears(LineBytes[at + 1], 1) /\ faults' = faults /\ faultAt' = faultAt
            /\ at < Total
        BY <2>3, <2>5 DEF LineByte
      <3>2. at + 1 <= Total
        BY <2>2, <2>3, <3>1
      <3>3. HeardBy(rx, LineBytes[at + 1], rx') /\ at' = at + 1
        BY <2>2, <2>4, <3>1, <3>2, HeardFits
      <3>4. Waited(rx', at + 1, faults, faultAt)
        BY <2>2, <3>3, CleanStep
      <3>5. DecoderFits(rx')
        BY <3>3 DEF HeardBy
      <3> QED BY <2>2, <2>3, <3>1, <3>2, <3>3, <3>4, <3>5 DEF LineInv
    <2>6. ASSUME ByteLost \/ ByteFlipped \/ ByteAdded PROVE LineInv'
      <3>1. at < Total /\ faults = 0 /\ faults' = 1 /\ faultAt' = at
        BY <2>6 DEF ByteLost, ByteFlipped, ByteAdded, LineFaulty
      <3>2. Waited(rx, at, 0, faultAt)
        BY <2>2, <3>1
      <3>3. /\ DecoderFits(rx') /\ at' \in {at, at + 1} /\ at' <= Total
            /\ (\E byte : HeardBy(rx, byte, rx')) \/ (rx' = rx /\ at' = at + 1)
        <4>a. at + 1 <= Total
          BY <2>2, <2>3, <3>1
        <4>1. CASE ByteLost
          <5>1. rx' = rx /\ at' = at + 1
            BY <4>1 DEF ByteLost
          <5> QED BY <2>2, <4>a, <5>1
        <4>2. CASE ByteFlipped
          <5>1. Hears(Xor8(LineBytes[at + 1], 1), 1)
            BY <2>3, <4>2 DEF ByteFlipped
          <5>2. Xor8(LineBytes[at + 1], 1) \in Byte
            <6>1. PICK one \in Byte : one = 1
              BY DEF Byte
            <6>2. Xor8(LineBytes[at + 1], one) \in Byte
              BY <2>4, <4>a, XorFits
            <6> QED BY <6>1, <6>2
          <5>3. PICK byte \in Byte : byte = Xor8(LineBytes[at + 1], 1)
            BY <5>2
          <5>4. HeardBy(rx, byte, rx') /\ at' = at + 1
            BY <2>2, <5>1, <5>3, HeardFits
          <5>5. DecoderFits(rx')
            BY <5>4 DEF HeardBy
          <5> QED BY <2>2, <4>a, <5>4, <5>5
        <4>3. CASE ByteAdded
          <5>1. PICK noise \in {0, 5, Marker} : Hears(noise, 0)
            BY <4>3 DEF ByteAdded
          <5>2. noise \in Byte
            BY DEF Byte, Marker
          <5>3. HeardBy(rx, noise, rx') /\ at' = at + 0
            BY <2>2, <5>1, <5>2, HeardFits
          <5>4. at' = at /\ DecoderFits(rx')
            BY <2>2, <5>3 DEF HeardBy
          <5> QED BY <2>2, <5>3, <5>4
        <4> QED BY <2>6, <4>1, <4>2, <4>3
      <3>4. Waited(rx', at', 1, at)
        BY <2>2, <3>2, <3>3, FaultyStep
      <3> QED BY <2>2, <2>3, <3>1, <3>3, <3>4 DEF LineInv
    <2> QED BY <1>2, <2>5, <2>6
  <1>3. ASSUME kind \notin Lines, kind' = kind PROVE LineInv'
    BY <1>3 DEF LineInv
  <1>4. CASE \/ ConnackReads \/ SubscribeReads \/ RecvReads \/ RecvProcesses \/ AckSent
             \/ ConnackTimesOut \/ SubscribeTimesOut \/ RecvEnds \/ AckFails \/ RecvCancelled
    BY <1>3, <1>4, ClientKeepsKind
  <1>5. CASE DownloadReads \/ DownloadEnds \/ DownloadCut
    <2>1. kind = "ota" /\ kind' = kind
      BY <1>5 DEF DownloadReads, DownloadEnds, DownloadCut, Download
    <2> QED BY <1>3, <2>1 DEF Lines
  <1>6. CASE Logs \/ LogsPublished
    <2>1. kind = "log" /\ kind' = kind
      BY <1>6 DEF Logs, LogsPublished
    <2> QED BY <1>3, <2>1 DEF Lines
  <1>7. CASE \/ CheckStart \/ UartReads \/ SniffModeEnds \/ SniffPublished \/ HostShows
             \/ SniffCommand \/ SniffPublishFails
    BY <1>3, <1>7, CaptureKeepsKind
  <1> QED BY <1>1, <1>2, <1>4, <1>5, <1>6, <1>7 DEF Next, Step, Fault

-----------------------------------------------------------------------------
(* The log.                                                                *)

(* The place of the i-th oldest of n entries, and what a ring holds of the *)
(* messages captured.                                                      *)
Place(h, i, n) == IF h + i - 1 < n THEN h + i ELSE h + i - n
Holds(e, h, c) ==
    /\ c \in Seq(Int) /\ e \in Seq(Int) /\ h \in Nat /\ h < LogSize
    /\ Len(e) <= LogSize /\ Len(e) <= Len(c) /\ (Len(e) < LogSize => h = Len(e))
    /\ \A i \in 1 .. Len(e) : e[Place(h, i, Len(e))] = c[Len(c) - Len(e) + i]
LogInv ==
    kind = "log" =>
        /\ at \in 0 .. Len(LogLevels)
        /\ \E e, h : rx = [entries |-> e, head |-> h] /\ Holds(e, h, Captured[at])

(* A remainder, where the number is less than twice the divisor.           *)
LEMMA Wraps ==
    ASSUME NEW n \in Nat, NEW x \in Nat, n # 0, x < 2 * n
    PROVE  x % n = IF x < n THEN x ELSE x - n
  <1>1. CASE x < n
    BY <1>1
  <1>2. CASE n <= x
    <2>1. PICK y \in Nat : x = y + n /\ y < n
      <3>1. x - n \in Nat /\ x = (x - n) + n /\ x - n < n
        BY <1>2
      <3> QED BY <3>1
    <2>2. x % n = y
      BY <2>1
    <2> QED BY <1>2, <2>1, <2>2
  <1> QED BY <1>1, <1>2

(* The messages captured, after each of the messages logged. *)
Captures(f) ==
    f = [n \in 0 .. Len(LogLevels) |->
            IF n = 0 THEN <<>> ELSE IF Logged(n) THEN Append(f[n - 1], n) ELSE f[n - 1]]
(* Captured is defined by its own equation: a message more is captured if  *)
(* its level is (Logger::log).                                             *)
LEMMA CapturedBy ==
    /\ Captured[0] = <<>>
    /\ \A n \in 1 .. Len(LogLevels) :
          Captured[n] = IF Logged(n) THEN Append(Captured[n - 1], n) ELSE Captured[n - 1]
  <1> DEFINE N == Len(LogLevels)
             step == [k \in 1 .. N |-> [s \in Seq(Int) |-> IF Logged(k) THEN Append(s, k) ELSE s]]
  <1>1. N \in Nat
    BY LogAssumption
  <1>2. step \in [1 .. N -> [Seq(Int) -> Seq(Int)]]
    <2>1. \A k \in 1 .. N, s \in Seq(Int) : Append(s, k) \in Seq(Int)
      OBVIOUS
    <2> QED BY <2>1
  <1>3. PICK f : Iterates(f, Seq(Int), <<>>, N, step)
    <2> HIDE DEF step, N
    <2>1. <<>> \in Seq(Int)
      OBVIOUS
    <2> QED BY <1>1, <1>2, <2>1, Iterated
  <1>4. Captures(f)
    <2>1. \A k \in 0 .. N : k # 0 => k \in 1 .. N /\ k - 1 \in 0 .. N
      BY <1>1
    <2>2. f \in [0 .. N -> Seq(Int)] /\ f[0] = <<>> /\ \A k \in 1 .. N : f[k] = step[k][f[k - 1]]
      BY <1>3 DEF Iterates
    <2>3. \A k \in 1 .. N : f[k] = IF Logged(k) THEN Append(f[k - 1], k) ELSE f[k - 1]
      <3> TAKE k \in 1 .. N
      <3>1. k \in 0 .. N /\ k # 0
        OBVIOUS
      <3>2. f[k - 1] \in Seq(Int)
        BY <2>1, <2>2, <3>1
      <3> QED BY <2>2, <3>2
    <2> HIDE DEF step
    <2>4. f = [k \in 0 .. N |-> IF k = 0 THEN <<>> ELSE IF Logged(k) THEN Append(f[k - 1], k) ELSE f[k - 1]]
      BY <2>1, <2>2, <2>3
    <2> QED BY <2>4 DEF Captures
  <1>5. Captures(Captured)
    BY <1>4 DEF Captures, Captured
  <1> DEFINE g == Captured
  <1> HIDE DEF g
  <1>6. g = [n \in 0 .. N |-> IF n = 0 THEN <<>> ELSE IF Logged(n) THEN Append(g[n - 1], n) ELSE g[n - 1]]
    BY <1>5 DEF Captures, g
  <1>7. 0 \in 0 .. N /\ \A n \in 1 .. N : n \in 0 .. N /\ n # 0
    BY <1>1
  <1>8. g[0] = <<>> /\ \A n \in 1 .. N : g[n] = IF Logged(n) THEN Append(g[n - 1], n) ELSE g[n - 1]
    <2> HIDE DEF N
    <2> QED BY <1>6, <1>7
  <1> QED BY <1>8 DEF g

(* A push on a ring that is not full, and on a full one. *)
LEMMA PushHolds ==
    ASSUME NEW e, NEW h, NEW c, Holds(e, h, c), NEW x \in Int
    PROVE  \E f, k : Push([entries |-> e, head |-> h], x) = [entries |-> f, head |-> k]
                     /\ Holds(f, k, Append(c, x))
  <1> DEFINE r == [entries |-> e, head |-> h]
             d == Append(c, x)
  <1>1. /\ c \in Seq(Int) /\ e \in Seq(Int) /\ h \in Nat /\ h < LogSize /\ LogSize \in Nat
        /\ Len(e) <= LogSize /\ Len(e) <= Len(c) /\ (Len(e) < LogSize => h = Len(e))
        /\ \A i \in 1 .. Len(e) : e[Place(h, i, Len(e))] = c[Len(c) - Len(e) + i]
        /\ r.entries = e /\ r.head = h
    BY LogAssumption DEF Holds
  <1>2. PICK n \in Nat, m \in Nat : n = Len(e) /\ m = Len(c) /\ n <= LogSize /\ n <= m
    BY <1>1
  <1>3. /\ d \in Seq(Int) /\ Len(d) = m + 1 /\ d[m + 1] = x /\ \A i \in 1 .. m : d[i] = c[i]
    BY <1>1, <1>2
  <1> HIDE DEF d, r
  <1>4. CASE n < LogSize
    <2> DEFINE f == Append(e, x)
               k == IF n + 1 < LogSize THEN n + 1 ELSE 0
    <2>1. f \in Seq(Int) /\ Len(f) = n + 1 /\ f[n + 1] = x /\ \A i \in 1 .. n : f[i] = e[i]
      BY <1>1, <1>2
    <2>2. (n + 1) % LogSize = k
      <3>1. LogSize # 0 /\ n + 1 < 2 * LogSize /\ n + 1 \in Nat /\ n + 1 <= LogSize
        BY <1>1, <1>2, <1>4
      <3>2. PICK y \in Nat : y = n + 1
        BY <3>1
      <3>3. y % LogSize = IF y < LogSize THEN y ELSE y - LogSize
        BY <1>1, <3>1, <3>2, Wraps
      <3>4. (IF y < LogSize THEN y ELSE y - LogSize) = k
        BY <1>1, <3>1, <3>2
      <3> HIDE DEF k
      <3>5. y % LogSize = k
        BY <3>3, <3>4
      <3> QED BY <3>2, <3>5, Zenon
    <2>3. Push(r, x) = [entries |-> f, head |-> k]
      BY <1>1, <1>2, <1>4, <2>2 DEF Push
    <2> HIDE DEF f
    <2>4. ASSUME NEW i \in 1 .. n + 1 PROVE f[Place(k, i, n + 1)] = d[m + 1 - (n + 1) + i]
      <3>1. Place(k, i, n + 1) = i
        BY DEF Place
      <3>2. CASE i = n + 1
        BY <1>2, <1>3, <2>1, <3>1, <3>2
      <3>3. CASE i # n + 1
        <4>1. i \in 1 .. n /\ m - n + i \in 1 .. m /\ m + 1 - (n + 1) + i = m - n + i
          BY <1>2, <3>3
        <4>2. Place(h, i, n) = i
          <5>1. h = n
            BY <1>1, <1>2, <1>4
          <5> QED BY <4>1, <5>1 DEF Place
        <4>3. e[i] = c[m - n + i]
          BY <1>1, <1>2, <4>1, <4>2
        <4> QED BY <1>3, <2>1, <3>1, <4>1, <4>3
      <3> QED BY <3>2, <3>3
    <2>5. Holds(f, k, d)
      <3>1. k \in Nat /\ k < LogSize /\ n + 1 <= LogSize /\ (n + 1 < LogSize => k = n + 1) /\ n + 1 <= m + 1
        BY <1>1, <1>2, <1>4
      <3> HIDE DEF k
      <3> QED BY <1>3, <2>1, <2>4, <3>1 DEF Holds
    <2> QED BY <2>3, <2>5 DEF d, r
  <1>5. CASE n = LogSize
    <2> DEFINE f == [e EXCEPT ![h + 1] = x]
               k == IF h + 1 < n THEN h + 1 ELSE 0
    <2>1. h + 1 \in 1 .. n /\ n # 0
      BY <1>1, <1>5
    <2>2. f \in Seq(Int) /\ Len(f) = n /\ f[h + 1] = x /\ \A i \in 1 .. n : i # h + 1 => f[i] = e[i]
      BY <1>1, <1>2, <2>1
    <2>3. (h + 1) % LogSize = k
      <3>1. h + 1 \in Nat /\ h + 1 < 2 * n /\ h + 1 <= n
        BY <1>1, <2>1
      <3>2. PICK y \in Nat : y = h + 1
        BY <3>1
      <3>3. y % n = IF y < n THEN y ELSE y - n
        BY <2>1, <3>1, <3>2, Wraps
      <3>4. (IF y < n THEN y ELSE y - n) = k
        BY <3>1, <3>2
      <3> HIDE DEF k
      <3>5. y % LogSize = k
        BY <1>5, <3>3, <3>4
      <3> QED BY <3>2, <3>5, Zenon
    <2>4. Push(r, x) = [entries |-> f, head |-> k]
      <3>1. ~(Len(r.entries) < LogSize)
        BY <1>1, <1>2, <1>5
      <3> QED BY <1>1, <2>3, <3>1 DEF Push
    <2> HIDE DEF f
    <2>5. ASSUME NEW i \in 1 .. n PROVE f[Place(k, i, n)] = d[m + 1 - n + i]
      <3>1. CASE i = n
        <4>1. Place(k, i, n) = h + 1
          BY <1>1, <1>5, <2>1, <3>1 DEF Place
        <4>2. m + 1 - n + i = m + 1
          BY <3>1
        <4> QED BY <1>3, <2>2, <4>1, <4>2
      <3>2. CASE i # n
        <4>1. i + 1 \in 1 .. n /\ m - n + (i + 1) \in 1 .. m /\ m + 1 - n + i = m - n + (i + 1)
          BY <1>2, <3>2
        <4>2. /\ Place(k, i, n) = Place(h, i + 1, n)
              /\ Place(k, i, n) \in 1 .. n /\ Place(k, i, n) # h + 1
          BY <1>1, <1>5, <2>1, <3>2 DEF Place
        <4>3. e[Place(h, i + 1, n)] = c[m - n + (i + 1)]
          BY <1>1, <1>2, <4>1
        <4> QED BY <1>3, <2>2, <4>1, <4>2, <4>3
      <3> QED BY <3>1, <3>2
    <2>6. Holds(f, k, d)
      <3>1. k \in Nat /\ k < LogSize /\ n <= LogSize /\ ~(n < LogSize) /\ n <= m + 1
        BY <1>1, <1>2, <1>5, <2>1
      <3> HIDE DEF k
      <3> QED BY <1>3, <2>2, <2>5, <3>1 DEF Holds
    <2> QED BY <2>4, <2>6 DEF d, r
  <1>6. n < LogSize \/ n = LogSize
    BY <1>1, <1>2
  <1> QED BY <1>4, <1>5, <1>6

(* What a ring gives when it is drained: the newest messages, in order. *)
LEMMA HoldsNewest ==
    ASSUME NEW e, NEW h, NEW c, Holds(e, h, c)
    PROVE  Drain([entries |-> e, head |-> h]) = SubSeq(c, Len(c) - Len(e) + 1, Len(c))
  <1> DEFINE r == [entries |-> e, head |-> h]
  <1>1. /\ c \in Seq(Int) /\ e \in Seq(Int) /\ h \in Nat /\ h < LogSize /\ LogSize \in Nat
        /\ Len(e) <= LogSize /\ Len(e) <= Len(c) /\ (Len(e) < LogSize => h = Len(e))
        /\ \A i \in 1 .. Len(e) : e[Place(h, i, Len(e))] = c[Len(c) - Len(e) + i]
        /\ r.entries = e /\ r.head = h
    BY LogAssumption DEF Holds
  <1>2. PICK n \in Nat, m \in Nat : n = Len(e) /\ m = Len(c) /\ n <= LogSize /\ n <= m
    BY <1>1
  <1>3. Drain(r) = [i \in 1 .. n |-> e[((h + i - 1) % n) + 1]]
    BY <1>1, <1>2 DEF Drain
  <1> HIDE DEF r
  <1>4. ASSUME NEW i \in 1 .. n PROVE e[((h + i - 1) % n) + 1] = c[m - n + i]
    <2>1. n # 0 /\ h <= n
      BY <1>1, <1>2
    <2>2. PICK y \in Nat : y = h + i - 1 /\ y < 2 * n
      BY <1>1, <2>1
    <2>3. y % n = IF y < n THEN y ELSE y - n
      BY <2>1, <2>2, Wraps
    <2>4. (y % n) + 1 = Place(h, i, n)
      <3>1. PICK z : z = y % n
        OBVIOUS
      <3>2. z = IF y < n THEN y ELSE y - n
        BY <2>3, <3>1, Zenon
      <3>3. z + 1 = IF h + i - 1 < n THEN h + i ELSE h + i - n
        BY <1>1, <2>1, <2>2, <3>2
      <3> QED BY <3>1, <3>3 DEF Place
    <2>5. e[Place(h, i, n)] = c[m - n + i]
      BY <1>1, <1>2
    <2> QED BY <2>2, <2>4, <2>5
  <1>5. SubSeq(c, m - n + 1, m) = [i \in 1 .. n |-> c[m - n + i]]
    <2>1. m - (m - n + 1) + 1 = n
      BY <1>2
    <2>2. SubSeq(c, m - n + 1, m) = [i \in 1 .. n |-> c[(m - n + 1) + i - 1]]
      BY <1>1, <1>2, <2>1
    <2>3. \A i \in 1 .. n : (m - n + 1) + i - 1 = m - n + i
      BY <1>2
    <2> QED BY <2>2, <2>3
  <1> QED BY <1>2, <1>3, <1>4, <1>5 DEF r

(* The steps of the log. *)
LEMMA NextKeepsLog ==
    ASSUME LogInv, [Next]_vars
    PROVE  LogInv'
  <1>1. CASE UNCHANGED vars
    BY <1>1 DEF vars, LogInv
  <1>2. ASSUME kind # "log", kind' = kind PROVE LogInv'
    BY <1>2 DEF LogInv
  <1>3. CASE Logs
    <2>1. /\ kind = "log" /\ kind' = kind /\ at < Total /\ at' = at + 1
          /\ rx' = IF Logged(at + 1) THEN Push(rx, at + 1) ELSE rx
      BY <1>3 DEF Logs
    <2>2. PICK e, h : rx = [entries |-> e, head |-> h] /\ Holds(e, h, Captured[at])
      BY <2>1 DEF LogInv
    <2>3. at \in Nat /\ at + 1 \in 1 .. Len(LogLevels)
      <3>1. Total = Len(LogLevels)
        BY <2>1 DEF Total, Bytes, Lines
      <3>2. at \in 0 .. Len(LogLevels) /\ Len(LogLevels) \in Nat
        BY <2>1, LogAssumption DEF LogInv
      <3> QED BY <2>1, <3>1, <3>2
    <2>4. Captured[at + 1] = IF Logged(at + 1) THEN Append(Captured[at], at + 1) ELSE Captured[at]
      <3>1. (at + 1) - 1 = at
        BY <2>3
      <3> QED BY <2>3, <3>1, CapturedBy
    <2>5. CASE Logged(at + 1)
      <3>1. PICK x \in Int : x = at + 1
        BY <2>3
      <3>2. PICK f, k : Push(rx, x) = [entries |-> f, head |-> k] /\ Holds(f, k, Append(Captured[at], x))
        BY <2>2, PushHolds
      <3>3. rx' = [entries |-> f, head |-> k] /\ Holds(f, k, Captured[at'])
        BY <2>1, <2>4, <2>5, <3>1, <3>2
      <3> QED BY <2>1, <2>3, <3>3 DEF LogInv
    <2>6. CASE ~Logged(at + 1)
      <3>1. rx' = [entries |-> e, head |-> h] /\ Holds(e, h, Captured[at'])
        BY <2>1, <2>2, <2>4, <2>6
      <3> QED BY <2>1, <2>3, <3>1 DEF LogInv
    <2> QED BY <2>5, <2>6
  <1>4. CASE LogsPublished
    <2>1. kind = "log" /\ kind' = kind /\ at' = at /\ rx' = NewLog
      BY <1>4 DEF LogsPublished
    <2>2. PICK e, h : Holds(e, h, Captured[at])
      BY <2>1 DEF LogInv
    <2>3. Holds(<<>>, 0, Captured[at])
      <3>1. Captured[at] \in Seq(Int) /\ Len(Captured[at]) \in Nat
        BY <2>2 DEF Holds
      <3>2. <<>> \in Seq(Int) /\ Len(<<>>) = 0 /\ 1 .. 0 = {}
        OBVIOUS
      <3> QED BY <3>1, <3>2, LogAssumption DEF Holds
    <2>4. at' \in 0 .. Len(LogLevels)
      BY <2>1 DEF LogInv
    <2> QED BY <2>1, <2>3, <2>4 DEF LogInv, NewLog
  <1>5. CASE \/ LineByte \/ ByteLost \/ ByteFlipped \/ ByteAdded
    <2>1. kind \in Lines /\ kind' = kind
      BY <1>5 DEF LineByte, ByteLost, ByteFlipped, ByteAdded, LineFaulty
    <2> QED BY <1>2, <2>1 DEF Lines
  <1>6. CASE \/ ConnackReads \/ SubscribeReads \/ RecvReads \/ RecvProcesses \/ AckSent
             \/ ConnackTimesOut \/ SubscribeTimesOut \/ RecvEnds \/ AckFails \/ RecvCancelled
    BY <1>2, <1>6, ClientKeepsKind
  <1>7. CASE DownloadReads \/ DownloadEnds \/ DownloadCut
    <2>1. kind = "ota" /\ kind' = kind
      BY <1>7 DEF DownloadReads, DownloadEnds, DownloadCut, Download
    <2> QED BY <1>2, <2>1
  <1>8. CASE \/ CheckStart \/ UartReads \/ SniffModeEnds \/ SniffPublished \/ HostShows
             \/ SniffCommand \/ SniffPublishFails
    BY <1>2, <1>8, CaptureKeepsKind
  <1> QED BY <1>1, <1>3, <1>4, <1>5, <1>6, <1>7, <1>8 DEF Next, Step, Fault

(* Nothing is captured at the start. *)
LEMMA LogStarts ==
    ASSUME Init
    PROVE  LogInv
  <1> SUFFICES ASSUME kind = "log" PROVE LogInv
    BY DEF LogInv
  <1>1. at = 0 /\ rx = NewLog
    BY DEF Init, Lines
  <1>2. Holds(<<>>, 0, Captured[0])
    <2>1. <<>> \in Seq(Int) /\ Len(<<>>) = 0 /\ 1 .. 0 = {}
      OBVIOUS
    <2> QED BY <2>1, LogAssumption, CapturedBy DEF Holds
  <1>3. 0 \in 0 .. Len(LogLevels)
    BY LogAssumption
  <1> QED BY <1>1, <1>2, <1>3 DEF LogInv, NewLog

(* Nothing is collected at the start. *)
LEMMA LineStarts ==
    ASSUME Init
    PROVE  LineInv
  <1> SUFFICES ASSUME kind \in Lines PROVE LineInv
    BY DEF LineInv
  <1>1. at = 0 /\ faults = 0 /\ rx = NewDecoder
    BY DEF Init, Lines
  <1>2. Total \in Nat
    BY LineIsSent, LineShape DEF MarkedTo
  <1>3. rx = Holding(<<>>, FALSE, 0, 0)
    BY <1>1 DEF NewDecoder, Holding
  <1>4. DecoderFits(rx)
    <2>1. Fits(<<>>, FALSE, 0, 0)
      BY DEF Fits
    <2> QED BY <1>3, <2>1 DEF DecoderFits
  <1>5. Excess(rx) = 0
    BY <1>1 DEF Excess, NewDecoder
  <1> QED BY <1>1, <1>2, <1>4, <1>5 DEF LineInv, Waited

(* The decoders of the line never collect more than a length byte can      *)
(* announce and one frame, whatever the bytes and the fault, and the ring  *)
(* of the log always gives the newest messages that were captured, oldest  *)
(* first (FrameDecoder::feed and feed_slice, RemoteLogBuffer::push and     *)
(* drain).                                                                 *)
THEOREM BuffersAreHeld == Spec => []BuffersHold
  <1> DEFINE Inv == LineInv /\ LogInv
  <1>1. Init => Inv
    BY LineStarts, LogStarts
  <1>2. Inv /\ [Next]_vars => Inv'
    BY NextKeepsLine, NextKeepsLog
  <1>3. Inv => BuffersHold
    <2> SUFFICES ASSUME Inv PROVE BufferBounded /\ RingHoldsNewest
      BY DEF BuffersHold
    <2>1. BufferBounded
      BY WaitedIsBounded
    <2>2. ASSUME kind = "log"
          PROVE  Drain(rx) = SubSeq(Captured[at], Len(Captured[at]) - Len(rx.entries) + 1, Len(Captured[at]))
      <3>1. PICK e, h : rx = [entries |-> e, head |-> h] /\ Holds(e, h, Captured[at])
        BY <2>2 DEF LogInv
      <3>2. rx.entries = e
        BY <3>1
      <3> QED BY <3>1, <3>2, HoldsNewest
    <2> QED BY <2>1, <2>2 DEF RingHoldsNewest
  <1> QED BY <1>1, <1>2, <1>3, PTL DEF Spec

-----------------------------------------------------------------------------
(* Receivers that implement InOrder.                                       *)

(* The items behind the q-th, and the one handed on last.                  *)
Behind(items, q) == SubSeq(items, q + 1, Len(items))
UpTo(items, q) ==
    /\ q \in Nat /\ q <= Len(items)
    /\ q = 0 => out = <<>>
    /\ q # 0 => out # <<>> /\ out[Len(out)] = items[q]
Distinct(items) == \A i, j \in 1 .. Len(items) : items[i] = items[j] => i = j
Delivers == [Receiver!Next]_(Receiver!vars)

(* What is left to hand on follows the item handed on last. *)
LEMMA LeftToSend ==
    ASSUME NEW S, NEW items \in Seq(S), Distinct(items), NEW q, UpTo(items, q),
           Items = items, kind # "ota"
    PROVE  NotYet = Behind(items, q)
  <1>1. CASE q = 0
    <2>1. out = <<>>
      BY <1>1 DEF UpTo
    <2>2. SubSeq(items, 1, Len(items)) = items
      OBVIOUS
    <2> QED BY <1>1, <2>1, <2>2 DEF NotYet, Behind
  <1>2. CASE q # 0
    <2>1. out # <<>> /\ out[Len(out)] = items[q] /\ q \in 1 .. Len(items)
      BY <1>2 DEF UpTo
    <2>2. NumberOf(items[q], items) = q
      BY <2>1 DEF NumberOf, Distinct
    <2> QED BY <2>1, <2>2 DEF NotYet, Behind
  <1> QED BY <1>1, <1>2

(* Skipping some items and handing on those that follow is a step of       *)
(* InOrder.                                                                *)
LEMMA DeliverStep ==
    ASSUME NEW S, NEW items \in Seq(S), NEW q \in Nat, NEW p \in Nat, NEW r \in Nat,
           q <= p, p < r, r <= Len(items), out \in Seq(S),
           NotYet = Behind(items, q), NotYet' = Behind(items, r),
           out' = out \o SubSeq(items, p + 1, r), kind' = kind, kind = "ota" => p = q
    PROVE  Delivers
  <1> DEFINE L == Len(items)
             todo == Behind(items, q)
             left == Behind(items, r)
             given == SubSeq(items, p + 1, r)
  <1>1. /\ todo \in Seq(S) /\ Len(todo) = L - q /\ left \in Seq(S) /\ Len(left) = L - r
        /\ given \in Seq(S) /\ Len(given) = r - p /\ L \in Nat
    BY DEF Behind
  <1>2. left = SubSeq(todo, (r - q) + 1, Len(todo))
    BY <1>1 DEF Behind
  <1>3. given = SubSeq(todo, (p - q) + 1, r - q)
    BY <1>1 DEF Behind
  <1>4. Len(out \o given) - Len(out) = r - p
    BY <1>1
  <1> HIDE DEF todo, left, given
  <1>5. Len(todo) - Len(left) = r - q /\ (r - q) - (r - p) = p - q
    BY <1>1
  <1>6. r - q > 0 /\ p - q \in 0 .. (r - q) - 1 /\ (p - q > 0 => kind # "ota")
    OBVIOUS
  <1>7. NotYet = todo /\ NotYet' = left /\ out' = out \o given
    BY DEF todo, left, given
  <1>8. Receiver!Deliver(p - q, r - q)
    BY <1>2, <1>3, <1>6, <1>7 DEF Receiver!Deliver
  <1>9. Receiver!Next
    BY <1>4, <1>5, <1>6, <1>7, <1>8 DEF Receiver!Next
  <1> QED BY <1>9 DEF Delivers

(* A stretch of a sequence, and a stretch of a stretch.                    *)
Stretch(all, S, s, p, k) ==
    /\ all \in Seq(S) /\ Len(all) = k /\ \A i \in 1 .. k : all[i] = s[p + i]
LEMMA Cut ==
    ASSUME NEW S, NEW s \in Seq(S), NEW p \in Nat, NEW k \in Nat, p + k <= Len(s)
    PROVE  Stretch(SubSeq(s, p + 1, p + k), S, s, p, k)
  <1>1. PICK a \in Nat, b \in Nat : a = p + 1 /\ b = p + k
    OBVIOUS
  <1>2. PICK q : q = SubSeq(s, a, b)
    OBVIOUS
  <1>3. /\ q \in Seq(S) /\ Len(q) = b - a + 1
        /\ \A i \in 1 .. b - a + 1 : q[i] = s[a + i - 1]
    BY <1>1, <1>2
  <1>4. b - a + 1 = k /\ \A i \in 1 .. k : a + i - 1 = p + i
    BY <1>1
  <1>5. Stretch(q, S, s, p, k)
    BY <1>3, <1>4 DEF Stretch
  <1> QED BY <1>1, <1>2, <1>5
(* A stretch of a stretch is a stretch of the whole.                       *)
LEMMA CutAgain ==
    ASSUME NEW S, NEW s \in Seq(S), NEW p \in Nat, NEW k \in Nat, NEW q \in Nat, NEW j \in Nat,
           p + k <= Len(s), q + j <= k
    PROVE  SubSeq(SubSeq(s, p + 1, p + k), q + 1, q + j) = SubSeq(s, (p + q) + 1, (p + q) + j)
  <1>1. PICK t : t = SubSeq(s, p + 1, p + k)
    OBVIOUS
  <1>2. Stretch(t, S, s, p, k)
    BY <1>1, Cut
  <1>3. PICK u, v : u = SubSeq(t, q + 1, q + j) /\ v = SubSeq(s, (p + q) + 1, (p + q) + j)
    OBVIOUS
  <1>4. Stretch(u, S, t, q, j)
    <2>1. t \in Seq(S) /\ q + j <= Len(t)
      BY <1>2 DEF Stretch
    <2> QED BY <1>3, <2>1, Cut
  <1>5. PICK m \in Nat : m = p + q
    OBVIOUS
  <1>6. Stretch(v, S, s, m, j)
    <2>1. m + j <= Len(s)
      BY <1>5
    <2> QED BY <1>3, <1>5, <2>1, Cut
  <1>7. \A i \in 1 .. j : q + i \in 1 .. k /\ p + (q + i) = m + i
    BY <1>5
  <1>8. \A i \in 1 .. j : u[i] = v[i]
    BY <1>2, <1>4, <1>6, <1>7 DEF Stretch
  <1>9. u \in Seq(S) /\ v \in Seq(S) /\ Len(u) = j /\ Len(v) = j
    BY <1>4, <1>6 DEF Stretch
  <1>10. u = v
    BY <1>8, <1>9
  <1> QED BY <1>1, <1>3, <1>10
(* An element alone.                                                       *)
LEMMA Alone ==
    ASSUME NEW S, NEW s \in Seq(S), NEW k \in Nat, k # 0, k <= Len(s)
    PROVE  SubSeq(s, k, k) = <<s[k]>>
  <1>1. PICK p \in Nat, one \in Nat : k = p + 1 /\ k = p + one /\ one = 1
    <2>1. k - 1 \in Nat
      OBVIOUS
    <2> QED BY <2>1
  <1>2. PICK t : t = SubSeq(s, p + 1, p + one)
    OBVIOUS
  <1>3. Stretch(t, S, s, p, one)
    BY <1>1, <1>2, Cut
  <1>4. t \in Seq(S) /\ Len(t) = 1 /\ t[1] = s[k]
    BY <1>1, <1>3 DEF Stretch
  <1>5. PICK x \in S : x = s[k]
    BY <1>1
  <1>6. <<x>> \in Seq(S) /\ Len(<<x>>) = 1 /\ <<x>>[1] = x
    OBVIOUS
  <1>7. PICK u : u = <<x>>
    OBVIOUS
  <1>8. \A i \in 1 .. 1 : t[i] = u[i]
    BY <1>4, <1>5, <1>6, <1>7
  <1>9. t = u
    BY ONLY <1>4, <1>6, <1>7, <1>8, SeqEqual
  <1> QED BY <1>1, <1>2, <1>5, <1>7, <1>9
(* The same stretch of two sequences that agree.                           *)
LEMMA SameStretch ==
    ASSUME NEW S, NEW u, NEW v, NEW s, NEW t, NEW p \in Nat, NEW q \in Nat, NEW k \in Nat,
           Stretch(u, S, s, p, k), Stretch(v, S, t, q, k), \A i \in 1 .. k : s[p + i] = t[q + i]
    PROVE  u = v
  <1>1. u \in Seq(S) /\ v \in Seq(S) /\ Len(u) = k /\ Len(v) = k /\ \A i \in 1 .. k : u[i] = v[i]
    BY DEF Stretch
  <1> QED BY <1>1
(* What is handed on ends with the last item handed on.                    *)
Ended(all, item) == all \in Seq(Int) /\ all # <<>> /\ all[Len(all)] = item
LEMMA LastHanded ==
    ASSUME NEW items \in Seq(Int), NEW told \in Seq(Int), NEW p \in Nat, NEW r \in Nat,
           p < r, r <= Len(items)
    PROVE  Ended(told \o SubSeq(items, p + 1, r), items[r])
  <1>1. PICK k \in Nat : k = r - p /\ k # 0
    <2>1. r - p \in Nat /\ r - p # 0
      OBVIOUS
    <2> QED BY <2>1
  <1>2. PICK g : g = SubSeq(items, p + 1, r)
    OBVIOUS
  <1>3. p + k = r
    BY <1>1
  <1>4. Stretch(g, Int, items, p, k)
    BY <1>2, <1>3, Cut
  <1>5. g \in Seq(Int) /\ Len(g) = k /\ g[k] = items[r]
    BY <1>1, <1>3, <1>4 DEF Stretch
  <1>6. PICK all : all = told \o g
    OBVIOUS
  <1>7. Joins(all, Int, told, g)
    BY <1>5, <1>6, TwoParts
  <1>8. Len(told) \in Nat /\ Len(all) = Len(told) + k /\ k \in 1 .. Len(g)
    BY <1>1, <1>5, <1>7 DEF Joins
  <1>9. all[Len(told) + k] = items[r] /\ all \in Seq(Int)
    BY <1>5, <1>7, <1>8 DEF Joins
  <1>10. Len(all) # 0
    BY <1>1, <1>8
  <1>11. Ended(all, items[r])
    BY <1>8, <1>9, <1>10 DEF Ended
  <1> QED BY <1>2, <1>6, <1>11

(* A step that hands nothing on. *)
LEMMA SilentStep ==
    ASSUME NotYet' = NotYet, out' = out, kind' = kind
    PROVE  Delivers
  BY DEF Delivers, Receiver!vars

-----------------------------------------------------------------------------
(* The log is published in order.                                          *)

(* The messages captured among the first n, in the order of the log.       *)
Selected(c, n) ==
    /\ c \in Seq(Int) /\ \A i \in 1 .. Len(c) : c[i] <= n
    /\ Distinct(c)
Extends(longer, c) == Len(c) <= Len(longer) /\ \A i \in 1 .. Len(c) : longer[i] = c[i]

(* What is captured among the first n messages are numbers up to n, each   *)
(* once.                                                                   *)
LEMMA CapturedSelects ==
    ASSUME NEW n \in 0 .. Len(LogLevels)
    PROVE  Selected(Captured[n], n)
  <1> DEFINE N == Len(LogLevels)
             Bad == {k \in 0 .. N : ~Selected(Captured[k], k)}
  <1>1. N \in Nat
    BY LogAssumption
  <1>2. SUFFICES ASSUME Bad # {} PROVE FALSE
    BY DEF Bad
  <1>3. Bad \in SUBSET Nat /\ \A k : k \in Bad <=> k \in 0 .. N /\ ~Selected(Captured[k], k)
    OBVIOUS
  <1> HIDE DEF Bad
  <1>4. PICK k \in Bad : \A j \in Bad : k <= j
    BY <1>2, <1>3, LeastIsThere
  <1>5. k \in 0 .. N /\ ~Selected(Captured[k], k)
    BY <1>3, <1>4
  <1>6. CASE k = 0
    <2>1. <<>> \in Seq(Int) /\ Len(<<>>) = 0 /\ 1 .. 0 = {}
      OBVIOUS
    <2>2. Captured[k] = <<>>
      BY <1>6, CapturedBy
    <2> QED BY <1>5, <2>1, <2>2 DEF Selected, Distinct
  <1>7. CASE k # 0
    <2>1. k - 1 \in 0 .. N /\ ~(k <= k - 1) /\ k \in 1 .. N
      BY <1>1, <1>5, <1>7
    <2>2. Selected(Captured[k - 1], k - 1)
      BY <1>3, <1>4, <2>1
    <2>3. PICK c : c = Captured[k - 1]
      OBVIOUS
    <2>4. /\ c \in Seq(Int) /\ \A i \in 1 .. Len(c) : c[i] <= k - 1 /\ c[i] \in Int
          /\ \A i, j \in 1 .. Len(c) : c[i] = c[j] => i = j
      BY <2>2, <2>3 DEF Selected, Distinct
    <2>5. Captured[k] = IF Logged(k) THEN Append(c, k) ELSE c
      BY <2>1, <2>3, CapturedBy
    <2>6. Selected(c, k)
      <3>1. \A i \in 1 .. Len(c) : c[i] <= k
        BY <2>1, <2>4
      <3> QED BY <2>4, <3>1 DEF Selected, Distinct
    <2>7. Selected(Append(c, k), k)
      <3> DEFINE d == Append(c, k)
      <3>1. /\ d \in Seq(Int) /\ Len(d) = Len(c) + 1 /\ Len(c) \in Nat /\ d[Len(c) + 1] = k
            /\ \A i \in 1 .. Len(c) : d[i] = c[i]
        BY <2>1, <2>4
      <3> HIDE DEF d
      <3>2. \A i \in 1 .. Len(d) : i \in 1 .. Len(c) \/ i = Len(c) + 1
        BY <3>1
      <3>3. \A i \in 1 .. Len(c) : d[i] <= k /\ d[i] # k
        BY <2>1, <2>4, <3>1
      <3>4. k <= k
        BY <2>1
      <3>5. \A i \in 1 .. Len(d) : d[i] <= k
        BY <3>1, <3>2, <3>3, <3>4
      <3>6. \A i, j \in 1 .. Len(d) : d[i] = d[j] => i = j
        BY <2>4, <3>1, <3>2, <3>3
      <3> QED BY <3>1, <3>5, <3>6 DEF Selected, Distinct, d
    <2> QED BY <1>5, <2>5, <2>6, <2>7
  <1> QED BY <1>6, <1>7

(* What is captured later goes behind.                                     *)
LEMMA CapturedGrows ==
    ASSUME NEW n \in 0 .. Len(LogLevels)
    PROVE  Extends(Captured[Len(LogLevels)], Captured[n])
  <1> DEFINE N == Len(LogLevels)
             From == {k \in 0 .. N : ~Extends(Captured[k], Captured[n])}
             Bad == {k \in From : n <= k}
  <1>1. N \in Nat /\ n \in Nat /\ n <= N
    BY LogAssumption
  <1>2. SUFFICES ASSUME Bad # {} PROVE FALSE
    BY <1>1 DEF Bad
  <1>3. Bad \in SUBSET Nat
        /\ \A k : k \in Bad <=> k \in 0 .. N /\ n <= k /\ ~Extends(Captured[k], Captured[n])
    OBVIOUS
  <1> HIDE DEF Bad
  <1>4. PICK k \in Bad : \A j \in Bad : k <= j
    BY <1>2, <1>3, LeastIsThere
  <1>5. k \in 0 .. N /\ n <= k /\ ~Extends(Captured[k], Captured[n])
    BY <1>3, <1>4
  <1>6. Captured[n] \in Seq(Int)
    BY CapturedSelects DEF Selected
  <1>7. k # n
    <2>1. Extends(Captured[n], Captured[n])
      BY <1>6 DEF Extends
    <2> QED BY <1>5, <2>1
  <1>8. k - 1 \in 0 .. N /\ n <= k - 1 /\ ~(k <= k - 1) /\ k \in 1 .. N
    BY <1>1, <1>5, <1>7
  <1>9. PICK c, b : c = Captured[k - 1] /\ b = Captured[n]
    OBVIOUS
  <1>10. Extends(c, b)
    BY <1>3, <1>4, <1>8, <1>9
  <1>11. c \in Seq(Int) /\ b \in Seq(Int)
    BY <1>8, <1>9, CapturedSelects DEF Selected
  <1>12. Captured[k] = IF Logged(k) THEN Append(c, k) ELSE c
    BY <1>8, <1>9, CapturedBy
  <1>13. Extends(Append(c, k), b)
    BY <1>8, <1>10, <1>11 DEF Extends
  <1> QED BY <1>5, <1>9, <1>10, <1>12, <1>13

(* What was published ends before the messages the ring still holds. *)
LogTold ==
    kind = "log" =>
        /\ out \in Seq(Int)
        /\ \E q : /\ UpTo(Items, q)
                  /\ q <= Len(Captured[at]) - Len(rx.entries)

(* A ring grows by no more than what is pushed.                            *)
LEMMA PushGrows ==
    ASSUME NEW e \in Seq(Int), NEW h, NEW x \in Int
    PROVE  Len(Push([entries |-> e, head |-> h], x).entries) <= Len(e) + 1
  <1> DEFINE r == [entries |-> e, head |-> h]
  <1>1. r.entries = e /\ r.head = h
    OBVIOUS
  <1> HIDE DEF r
  <1>2. CASE Len(e) < LogSize
    <2>1. Push(r, x).entries = Append(e, x)
      BY <1>1, <1>2 DEF Push
    <2> QED BY <2>1 DEF r
  <1>3. CASE ~(Len(e) < LogSize)
    <2>1. Push(r, x).entries = [e EXCEPT ![h + 1] = x]
      BY <1>1, <1>3 DEF Push
    <2>2. Len([e EXCEPT ![h + 1] = x]) = Len(e) /\ Len(e) \in Nat
      OBVIOUS
    <2>3. Len(e) <= Len(e) + 1
      BY <2>2
    <2> QED BY <2>1, <2>2, <2>3, Zenon DEF r
  <1> QED BY <1>2, <1>3

(* The items of the log are the messages captured.                         *)
LEMMA LogItems ==
    ASSUME kind = "log"
    PROVE  /\ Items = Captured[Len(LogLevels)] /\ Items \in Seq(Int) /\ Distinct(Items)
           /\ Total = Len(LogLevels) /\ Len(LogLevels) \in Nat
  <1>1. Items = Captured[Len(LogLevels)] /\ Bytes = LogLevels
    BY DEF Items, Bytes, Lines
  <1>2. Len(LogLevels) \in Nat /\ Len(LogLevels) \in 0 .. Len(LogLevels)
    BY LogAssumption
  <1> QED BY <1>1, <1>2, CapturedSelects DEF Selected, Total

(* Every step of the log hands on messages behind those handed on before.  *)
LEMMA LogStep ==
    ASSUME LogInv, LogTold, kind = "log", [Next]_vars
    PROVE  LogTold' /\ Delivers
  <1>1. CASE UNCHANGED vars
    <2>1. kind' = kind /\ out' = out /\ rx' = rx /\ at' = at /\ case' = case
      BY <1>1 DEF vars
    <2>2. Items' = Items /\ NotYet' = NotYet
      BY <2>1 DEF Items, NotYet
    <2> QED BY <2>1, <2>2, SilentStep DEF LogTold, UpTo
  <1>2. PICK q : UpTo(Items, q) /\ q <= Len(Captured[at]) - Len(rx.entries)
    BY DEF LogTold
  <1>3. PICK e, h : rx = [entries |-> e, head |-> h] /\ Holds(e, h, Captured[at])
    BY DEF LogInv
  <1>4. rx.entries = e /\ out \in Seq(Int) /\ at \in 0 .. Len(LogLevels)
    BY <1>3 DEF LogTold, LogInv
  <1>5. PICK c : c = Captured[at]
    OBVIOUS
  <1>6. /\ c \in Seq(Int) /\ e \in Seq(Int) /\ Len(e) <= Len(c) /\ Len(e) \in Nat /\ Len(c) \in Nat
        /\ q \in Nat /\ q <= Len(c) - Len(e)
    BY <1>2, <1>3, <1>4, <1>5 DEF Holds, UpTo
  <1>7. /\ Items = Captured[Len(LogLevels)] /\ Items \in Seq(Int) /\ Distinct(Items)
        /\ Total = Len(LogLevels) /\ Len(LogLevels) \in Nat
    BY LogItems
  <1>8. Extends(Items, c)
    BY <1>4, <1>5, <1>7, CapturedGrows
  <1>9. CASE Logs
    <2>1. /\ at < Total /\ at' = at + 1 /\ kind' = kind /\ out' = out /\ case' = case
          /\ rx' = IF Logged(at + 1) THEN Push(rx, at + 1) ELSE rx
      BY <1>9 DEF Logs
    <2>2. Items' = Items /\ NotYet' = NotYet
      BY <2>1 DEF Items, NotYet
    <2>3. UpTo(Items, q)' = UpTo(Items, q)
      BY <2>1, <2>2 DEF UpTo
    <2>4. at + 1 \in 1 .. Len(LogLevels) /\ (at + 1) - 1 = at
      BY <1>4, <1>7, <2>1
    <2>5. Captured[at + 1] = IF Logged(at + 1) THEN Append(c, at + 1) ELSE c
      BY <1>5, <2>4, CapturedBy
    <2>6. PICK x \in Int : x = at + 1
      BY <2>4
    <2>7. Len(Append(c, x)) = Len(c) + 1
      BY <1>6
    <2>8. q <= Len(Captured[at + 1]) - Len(rx'.entries)
      <3>1. CASE Logged(at + 1)
        <4>1. PICK f, k : Push(rx, x) = [entries |-> f, head |-> k] /\ Holds(f, k, Append(c, x))
          BY <1>3, <1>5, PushHolds
        <4>2. rx'.entries = f /\ Len(f) \in Nat
          BY <2>1, <2>6, <3>1, <4>1 DEF Holds
        <4>3. Len(f) <= Len(e) + 1
          <5>1. Len(Push([entries |-> e, head |-> h], x).entries) <= Len(e) + 1
            BY <1>6, PushGrows
          <5>2. Push([entries |-> e, head |-> h], x).entries = f
            BY <1>3, <4>1
          <5> QED BY <5>1, <5>2
        <4>4. PICK m, n, o \in Nat : m = Len(c) /\ n = Len(e) /\ o = Len(f)
          BY <1>6, <4>2
        <4>5. q <= m + 1 - o
          BY <1>6, <4>3, <4>4
        <4>6. Captured[at + 1] = Append(c, x)
          BY <2>5, <2>6, <3>1
        <4> QED BY <2>7, <4>2, <4>4, <4>5, <4>6
      <3>2. CASE ~Logged(at + 1)
        BY <1>4, <1>6, <2>1, <2>5, <3>2
      <3> QED BY <3>1, <3>2
    <2>9. LogTold'
      BY <1>2, <1>4, <2>1, <2>3, <2>8 DEF LogTold
    <2> QED BY <2>1, <2>2, <2>9, SilentStep
  <1>10. CASE LogsPublished
    <2>1. kind' = kind /\ at' = at /\ case' = case /\ rx' = NewLog
      BY <1>10 DEF LogsPublished
    <2>2. PICK tried, sent :
              /\ tried \in {IF Len(rx.entries) < LogBatch THEN Len(rx.entries) ELSE LogBatch}
              /\ sent \in 0 .. tried /\ out' = out \o SubSeq(Drain(rx), 1, sent)
      BY <1>10 DEF LogsPublished
    <2>3. sent \in Nat /\ sent <= Len(e)
      <3>1. tried \in Nat /\ tried <= Len(e)
        BY <1>4, <1>6, <2>2, LogAssumption
      <3>2. sent \in 0 .. tried
        BY <2>2
      <3> QED BY <1>6, <3>1, <3>2
    <2>4. Items' = Items
      BY <2>1 DEF Items
    <2>5. PICK p \in Nat : p = Len(c) - Len(e)
      BY <1>6
    <2>6. Drain(rx) = SubSeq(c, Len(c) - Len(e) + 1, Len(c))
      BY <1>3, <1>5, HoldsNewest
    <2>7. /\ p + sent \in Nat /\ p + sent <= Len(Items) /\ q <= p /\ p + sent <= Len(c)
      <3>1. Len(c) <= Len(Items) /\ Len(Items) \in Nat
        BY <1>7, <1>8 DEF Extends
      <3> QED BY <1>6, <2>3, <2>5, <3>1
    <2>8. SubSeq(Drain(rx), 1, sent) = SubSeq(Items, p + 1, p + sent)
      <3>1. \A i \in 1 .. Len(c) : Items[i] = c[i]
        BY <1>8 DEF Extends
      <3>2. PICK items \in Seq(Int) : items = Items
        BY <1>7
      <3>3. SubSeq(Drain(rx), 1, sent) = SubSeq(c, p + 1, p + sent)
        <4>1. PICK k \in Nat : k = Len(e) /\ p + k = Len(c)
          BY <1>6, <2>5
        <4>2. Drain(rx) = SubSeq(c, p + 1, p + k)
          BY <1>6, <2>5, <2>6, <4>1
        <4>3. SubSeq(SubSeq(c, p + 1, p + k), 0 + 1, 0 + sent) = SubSeq(c, (p + 0) + 1, (p + 0) + sent)
          <5>1. PICK z \in Nat : z = 0
            OBVIOUS
          <5>2. p + k <= Len(c) /\ z + sent <= k
            BY <1>6, <2>3, <4>1, <5>1
          <5> QED BY <1>6, <2>3, <5>1, <5>2, CutAgain
        <4>4. 0 + 1 = 1 /\ 0 + sent = sent /\ p + 0 = p
          BY <2>3
        <4> QED BY <4>2, <4>3, <4>4
      <3>4. SubSeq(c, p + 1, p + sent) = SubSeq(items, p + 1, p + sent)
        <4>1. Len(items) \in Nat /\ p + sent <= Len(items)
          BY <2>7, <3>2
        <4> QED BY <1>6, <2>3, <2>7, <3>1, <3>2, <4>1
      <3> QED BY <3>2, <3>3, <3>4
    <2>9. Len(rx'.entries) = 0
      BY <2>1 DEF NewLog
    <2>10. CASE sent = 0
      <3>1. out' = out
        <4>1. SubSeq(Items, p + 1, p + sent) = <<>>
          BY <1>7, <2>10
        <4>2. out \o <<>> = out
          BY <1>4
        <4>3. out' = out \o SubSeq(Items, p + 1, p + sent)
          BY <2>2, <2>8
        <4> QED BY <4>1, <4>2, <4>3, Zenon
      <3>2. NotYet' = NotYet
        BY <2>1, <2>4, <3>1 DEF NotYet
      <3>3. UpTo(Items, q)' = UpTo(Items, q)
        BY <2>4, <3>1 DEF UpTo
      <3>4. q <= Len(Captured[at']) - Len(rx'.entries)
        BY <1>5, <1>6, <2>1, <2>9
      <3> QED BY <1>2, <1>4, <2>1, <3>1, <3>2, <3>3, <3>4, SilentStep DEF LogTold
    <2>11. CASE sent # 0
      <3>1. p < p + sent
        BY <2>3, <2>11
      <3>2. PICK items \in Seq(Int), r \in Nat : items = Items /\ r = p + sent
        BY <1>7, <2>7
      <3>3. out' = out \o SubSeq(items, p + 1, r) /\ r <= Len(items) /\ p < r
        BY <2>2, <2>7, <2>8, <3>1, <3>2
      <3>4. out' \in Seq(Int) /\ out' # <<>> /\ out'[Len(out')] = items[r]
        <4>1. PICK all, told : all = out' /\ told = out
          OBVIOUS
        <4>2. told \in Seq(Int) /\ all = told \o SubSeq(items, p + 1, r) /\ p < r /\ r <= Len(items)
          BY <1>4, <3>3, <4>1
        <4>3. Ended(told \o SubSeq(items, p + 1, r), items[r])
          BY <4>2, LastHanded
        <4>4. Ended(all, items[r])
          BY <4>2, <4>3
        <4> QED BY <4>1, <4>4 DEF Ended
      <3>5. UpTo(Items, r)'
        <4>1. r # 0
          BY <3>3
        <4> QED BY <2>4, <3>2, <3>3, <3>4, <4>1 DEF UpTo
      <3>6. NotYet = Behind(items, q)
        BY <1>2, <1>7, <3>2, LeftToSend
      <3>7. NotYet' = Behind(items, r)
        <4>1. NumberOf(items[r], items) = r
          <5>1. r \in 1 .. Len(items)
            BY <3>3
          <5> QED BY <1>7, <3>2, <5>1 DEF NumberOf, Distinct
        <4> QED BY <2>1, <2>4, <3>2, <3>4, <4>1 DEF NotYet, Behind
      <3>8. Delivers
        <4>1. q \in Nat /\ q <= p
          BY <1>6, <2>7
        <4> QED BY <1>4, <2>1, <3>3, <3>6, <3>7, <4>1, DeliverStep
      <3>9. LogTold'
        <4>1. r <= Len(Captured[at']) - Len(rx'.entries)
          BY <1>5, <1>6, <2>1, <2>7, <2>9, <3>2
        <4> QED BY <3>4, <3>5, <4>1 DEF LogTold
      <3> QED BY <3>8, <3>9
    <2> QED BY <2>10, <2>11
  <1>11. Next => Logs \/ LogsPublished
    <2>1. kind \notin Lines /\ kind # "mqtt" /\ kind # "ota" /\ kind # "sniff"
      BY DEF Lines
    <2>2. ~(LineByte \/ ByteLost \/ ByteFlipped \/ ByteAdded)
      BY <2>1 DEF LineByte, ByteLost, ByteFlipped, ByteAdded, LineFaulty
    <2>3. ~(DownloadReads \/ DownloadEnds \/ DownloadCut)
      BY <2>1 DEF DownloadReads, DownloadEnds, DownloadCut
    <2>4. ~(\/ ConnackReads \/ SubscribeReads \/ RecvReads \/ RecvProcesses \/ AckSent
            \/ ConnackTimesOut \/ SubscribeTimesOut \/ RecvEnds \/ AckFails \/ RecvCancelled)
      BY ClientKeepsKind
    <2>5. ~(\/ CheckStart \/ UartReads \/ SniffModeEnds \/ SniffPublished \/ HostShows
            \/ SniffCommand \/ SniffPublishFails)
      BY CaptureKeepsKind
    <2> QED BY <2>2, <2>3, <2>4, <2>5 DEF Next, Step, Fault
  <1> QED BY <1>1, <1>9, <1>10, <1>11

-----------------------------------------------------------------------------
(* The download is in flash in order, and leaves nothing out.              *)

(* The image in flash is the first q bytes of the body.                    *)
Flashed(w, q) ==
    /\ q \in Nat /\ q <= Len(case.body) /\ FlashedImage(w) = SubSeq(case.body, 1, q)
DownloadTold == kind = "ota" => out = FlashedImage(rx.writer)

(* The first elements of two sequences one after the other. *)
LEMMA FirstOfTwo ==
    ASSUME NEW a \in Seq(Nat), NEW b \in Seq(Nat)
    PROVE  SubSeq(a \o b, 1, Len(a)) = a /\ Len(a) <= Len(a \o b) /\ Len(a) \in Nat
  <1>1. PICK all : all = a \o b
    OBVIOUS
  <1>2. Joins(all, Nat, a, b)
    BY <1>1, TwoParts
  <1>3. /\ all \in Seq(Nat) /\ Len(a) \in Nat /\ Len(b) \in Nat /\ Len(all) = Len(a) + Len(b)
        /\ \A i \in 1 .. Len(a) : all[i] = a[i]
    BY <1>2 DEF Joins
  <1>4. Len(a) <= Len(all)
    BY <1>3
  <1>5. SubSeq(all, 1, Len(a)) = a
    <2>1. PICK n \in Nat : n = Len(a)
      BY <1>3
    <2>2. PICK t : t = SubSeq(all, 1, n)
      OBVIOUS
    <2>3. t \in Seq(Nat) /\ Len(t) = n /\ \A i \in 1 .. n : t[i] = all[i]
      BY <1>3, <1>4, <2>1, <2>2, Prefix
    <2>4. \A i \in 1 .. n : t[i] = a[i]
      BY <1>3, <2>1, <2>3
    <2>5. t = a
      BY ONLY <2>1, <2>3, <2>4, a \in Seq(Nat), SeqEqual
    <2> QED BY <2>1, <2>2, <2>5
  <1> QED BY <1>1, <1>3, <1>4, <1>5
(* A first stretch and the next one.                                       *)
LEMMA NextStretch ==
    ASSUME NEW s \in Seq(Nat), NEW q \in Nat, NEW r \in Nat, q <= r, r <= Len(s)
    PROVE  SubSeq(s, 1, q) \o SubSeq(s, q + 1, r) = SubSeq(s, 1, r)
  <1>1. 1 \in 1 .. Len(s) + 1 /\ q \in 1 - 1 .. Len(s) /\ r \in q .. Len(s)
    OBVIOUS
  <1> QED BY <1>1, ConcatAdjacentSubSeq

(* Nothing is in the flash of a new writer.                                *)
LEMMA NothingFlashed ==
    ASSUME case \in ImageCases, NEW w, w \in {NewWriter, BeginWriter}
    PROVE  Flashed(w, 0)
  <1>1. PICK z \in Nat : z = 0
    OBVIOUS
  <1>2. w.flash = <<>> /\ w.written \in Nat
    BY NewWriterFits DEF NewWriter, BeginWriter
  <1>3. FlashedImage(w) = <<>>
    BY <1>2 DEF FlashedImage
  <1>4. case.body \in Seq(Nat) /\ Len(case.body) \in Nat
    BY ResponseBytes
  <1>5. SubSeq(case.body, 1, z) = <<>>
    BY <1>1, <1>4
  <1> QED BY <1>1, <1>3, <1>4, <1>5 DEF Flashed

(* While the body comes the image in flash is its whole words.             *)
LEMMA WordsFlashed ==
    ASSUME case \in ImageCases, NEW d, NEW n, BodyFits(d, n)
    PROVE  /\ Flashed(d.writer, Len(d.writer.flash)) /\ Len(d.writer.flash) <= n
           /\ FlashedImage(d.writer) = d.writer.flash
  <1>1. case.body \in Seq(Nat) /\ Len(case.body) \in Nat
    BY ResponseBytes
  <1>2. /\ n \in Nat /\ n <= Len(case.body) /\ d.writer.crc = SubSeq(case.body, 1, n)
        /\ d.writer.flash \in Seq(Nat) /\ d.writer.pending \in Seq(Nat)
        /\ d.writer.crc = d.writer.flash \o d.writer.pending
        /\ d.writer.written = Len(d.writer.crc)
    BY <1>1 DEF BodyFits, WriterFits
  <1>a. PICK c : c = d.writer.crc
    OBVIOUS
  <1>3. PICK f \in Seq(Nat), p \in Seq(Nat), b \in Seq(Nat) :
            f = d.writer.flash /\ p = d.writer.pending /\ c = d.writer.crc /\ b = case.body
    BY <1>1, <1>2, <1>a
  <1>4. c = f \o p /\ c = SubSeq(b, 1, n) /\ n <= Len(b)
    BY <1>2, <1>3
  <1>5. SubSeq(c, 1, Len(f)) = f /\ Len(f) <= Len(c) /\ Len(f) \in Nat
    BY <1>4, FirstOfTwo
  <1>6. Len(c) = n
    BY <1>2, <1>4, Prefix
  <1>7. PICK q \in Nat : q = Len(f) /\ q <= n
    BY <1>5, <1>6
  <1>8. SubSeq(b, 1, q) = f
    <2>1. PICK one \in Nat, z \in Nat : one = 1 /\ z = 0
      OBVIOUS
    <2>2. SubSeq(SubSeq(b, z + 1, z + n), z + 1, z + q) = SubSeq(b, (z + z) + 1, (z + z) + q)
      <3>1. z + n <= Len(b) /\ z + q <= n
        BY <1>2, <1>4, <1>7, <2>1
      <3> QED BY <1>2, <3>1, CutAgain
    <2>3. z + 1 = 1 /\ z + n = n /\ z + q = q /\ (z + z) + 1 = 1 /\ (z + z) + q = q
      BY <1>2, <2>1
    <2> QED BY <1>4, <1>5, <1>7, <2>2, <2>3
  <1>9. FlashedImage(d.writer) = f
    <2>1. Len(f) <= n /\ d.writer.written = n
      BY <1>2, <1>3, <1>6, <1>7
    <2>2. SubSeq(f, 1, Len(f)) = f
      OBVIOUS
    <2>3. ~(d.writer.written < Len(f))
      BY <1>2, <1>7, <2>1
    <2> QED BY <1>3, <2>2, <2>3 DEF FlashedImage
  <1> QED BY <1>2, <1>3, <1>4, <1>7, <1>8, <1>9 DEF Flashed

(* A write only adds to the flash.                                         *)
LEMMA WriteGrows ==
    ASSUME NEW w, WriterFits(w), NEW chunk \in Seq(Nat)
    PROVE  Len(w.flash) <= Len(Write(w, chunk).flash)
  <1>1. IsWriter(w) /\ w.flash \in Seq(Nat) /\ w.pending \in Seq(Nat)
    BY DEF WriterFits
  <1>2. PICK f, words : f = w.flash \o words /\ words = Words(w.pending, chunk)
    OBVIOUS
  <1>3. Write(w, chunk).flash = f
    <2>1. PICK n, c, rest, v : /\ n = w.written + Len(chunk) /\ c = w.crc \o chunk
                               /\ rest = Rest(w.pending, chunk) /\ v = Write(w, chunk)
      OBVIOUS
    <2>2. v = [w EXCEPT !.flash = f, !.written = n, !.crc = c, !.pending = rest]
      BY <1>2, <2>1 DEF Write, Words, Rest
    <2>3. v.flash = f
      BY ONLY <1>1, <2>2 DEF IsWriter
    <2> QED BY <2>1, <2>3
  <1>4. words \in Seq(Nat)
    <2>1. PICK data \in Seq(Nat) : data = w.pending \o chunk
      BY <1>1, ConcatFits
    <2>2. WholeWords(data) \in 0 .. Len(data)
      BY WholeWordsFit
    <2> QED BY <1>2, <2>1, <2>2, CutInTwo DEF Words
  <1> QED BY <1>1, <1>2, <1>3, <1>4, FirstOfTwo

(* What the next bytes of the body add.                                    *)
LEMMA WritesFlashed ==
    ASSUME case \in ImageCases, NEW d, IsDownload(d), NEW n, NEW k \in Nat, BodyFits(d, n),
           n + k <= Len(case.body), NEW chunk, chunk = SubSeq(case.body, n + 1, n + k),
           NEW r, r = Writes(d, chunk)
    PROVE  \E q : Flashed(r.writer, q) /\ Len(d.writer.flash) <= q
  <1>1. case.body \in Seq(Nat) /\ Len(case.body) \in Nat
    BY ResponseBytes
  <1>2. n \in Nat /\ WriterFits(d.writer)
    BY <1>1 DEF BodyFits
  <1>3. chunk \in Seq(Nat)
    BY <1>1, <1>2, Slice
  <1>4. Flashed(d.writer, Len(d.writer.flash)) /\ Len(d.writer.flash) \in Nat
    <2>1. Flashed(d.writer, Len(d.writer.flash))
      BY WordsFlashed
    <2> QED BY <2>1 DEF Flashed
  <1>5. CASE r.writer = d.writer
    BY <1>4, <1>5
  <1>6. CASE r.phase = "body" /\ r.writer = Write(d.writer, chunk)
    <2>1. PICK m : m = HeaderSize + (n + k)
      OBVIOUS
    <2>2. m - HeaderSize = n + k
      BY <1>2, <2>1 DEF HeaderSize
    <2>3. Kept(r, m)
      BY <2>2, WritesKept
    <2>4. BodyFits(r, n + k)
      BY <1>6, <2>2, <2>3 DEF Kept
    <2>5. Flashed(r.writer, Len(r.writer.flash))
      BY <2>4, WordsFlashed
    <2>6. Len(d.writer.flash) <= Len(r.writer.flash)
      <3>1. PICK w : w = d.writer
        OBVIOUS
      <3>2. Len(w.flash) <= Len(Write(w, chunk).flash)
        BY <1>2, <1>3, <3>1, WriteGrows
      <3> QED BY <1>6, <3>1, <3>2
    <2> QED BY <2>5, <2>6
  <1>7. r.writer = d.writer \/ (r.phase = "body" /\ r.writer = Write(d.writer, chunk))
    <2>1. CASE chunk = <<>>
      <3>1. r = [d EXCEPT !.phase = "body"]
        BY <2>1 DEF Writes
      <3> QED BY ONLY <3>1, IsDownload(d) DEF IsDownload
    <2>2. CASE chunk # <<>> /\ WriteAccepted(d.writer, chunk)
      <3>1. r = [d EXCEPT !.phase = "body", !.writer = Write(d.writer, chunk)]
        BY <2>2 DEF Writes
      <3> QED BY ONLY <3>1, IsDownload(d) DEF IsDownload
    <2>3. CASE chunk # <<>> /\ ~WriteAccepted(d.writer, chunk)
      <3>1. r = [d EXCEPT !.phase = "failed"]
        BY <2>3 DEF Writes, Failed
      <3> QED BY ONLY <3>1, IsDownload(d) DEF IsDownload
    <2> QED BY <2>1, <2>2, <2>3
  <1> QED BY <1>5, <1>6, <1>7

(* What a piece of the header adds: nothing before the body.               *)
LEMMA HeaderFlashed ==
    ASSUME DownloadInv, kind = "ota", rx.phase = "headers", NEW n \in Nat, at + n <= Total,
           NEW d, d = HeaderGrows(Piece(n))
    PROVE  \E q : Flashed(d.writer, q)
  <1>1. case \in ImageCases /\ IsDownload(rx) /\ rx.writer = NewWriter
    BY DEF DownloadInv
  <1>2. PICK head : head = rx.head \o Piece(n)
    OBVIOUS
  <1>3. PICK read, begun : read = [rx EXCEPT !.head = head] /\ begun = [read EXCEPT !.writer = BeginWriter]
    OBVIOUS
  <1>4. /\ IsDownload(read) /\ read.writer = NewWriter
        /\ IsDownload(begun) /\ begun.writer = BeginWriter
    BY ONLY <1>1, <1>3 DEF IsDownload
  <1>5. PICK chunk : chunk = SubSeq(head, BodyStart(head), Len(head))
    OBVIOUS
  <1>6. d \in {Failed(rx), read, Failed(read), Failed(begun), Writes(begun, chunk)}
    BY <1>2, <1>3, <1>5 DEF HeaderGrows
  <1>7. ASSUME NEW e, IsDownload(e), e.writer \in {NewWriter, BeginWriter}, d = Failed(e) \/ d = e
        PROVE  \E q : Flashed(d.writer, q)
    <2>1. d.writer = e.writer
      BY ONLY <1>7 DEF Failed, IsDownload
    <2> QED BY <1>1, <1>7, <2>1, NothingFlashed
  <1>8. CASE d = Writes(begun, chunk)
    <2>1. CASE d.phase = "body"
      <3>1. Kept(d, at + n)
        BY HeaderKept
      <3>2. BodyFits(d, (at + n) - HeaderSize)
        BY <2>1, <3>1 DEF Kept
      <3> QED BY <1>1, <3>2, WordsFlashed
    <2>2. CASE d.phase # "body"
      <3>1. d = Failed(begun)
        <4>1. [begun EXCEPT !.phase = "body"].phase = "body"
          BY ONLY <1>4 DEF IsDownload
        <4>2. \A w : [begun EXCEPT !.phase = "body", !.writer = w].phase = "body"
          BY ONLY <1>4 DEF IsDownload
        <4> QED BY <1>8, <2>2, <4>1, <4>2 DEF Writes
      <3> QED BY <1>4, <1>7, <3>1
    <2> QED BY <2>1, <2>2
  <1> QED BY <1>1, <1>4, <1>6, <1>7, <1>8

(* The end of the stream: the rest of the last word.                       *)
LEMMA FinishedFlashed ==
    ASSUME case \in ImageCases, NEW n, BodyFits(rx, n), IsDownload(rx), rx.phase = "body",
           NEW d, d \in {Finished, Failed(rx)}
    PROVE  \E q : Flashed(d.writer, q) /\ Len(rx.writer.flash) <= q
  <1>1. case.body \in Seq(Nat) /\ Len(case.body) \in Nat
    BY ResponseBytes
  <1>2. PICK w : w = rx.writer
    OBVIOUS
  <1>3. /\ n \in Nat /\ n <= Len(case.body) /\ WriterFits(w) /\ w.crc = SubSeq(case.body, 1, n)
    BY <1>1, <1>2 DEF BodyFits
  <1>4. Flashed(w, Len(w.flash)) /\ Len(w.flash) <= n
    BY <1>2, WordsFlashed
  <1>5. CASE d = Failed(rx)
    <2>1. d.writer = w
      BY ONLY <1>2, <1>5, IsDownload(rx) DEF Failed, IsDownload
    <2>2. Len(w.flash) <= Len(w.flash)
      BY <1>3 DEF WriterFits
    <2> QED BY <1>2, <1>4, <2>1, <2>2
  <1>6. CASE d = [rx EXCEPT !.phase = "finalized", !.writer = Flush(@)]
    <2>1. d.writer = Flush(w)
      BY ONLY <1>2, <1>6, IsDownload(rx) DEF IsDownload
    <2>2. PICK c, v : c = w.crc /\ v = Flush(w)
      OBVIOUS
    <2>3. v.flash = Padded(c)
      BY <1>3, <2>2, FlushFits
    <2>4. v.written = w.written /\ w.written = Len(c)
      BY <1>3, <2>2 DEF Flush, WriterFits, IsWriter
    <2>5. c \in Seq(Nat) /\ Len(c) = n
      BY <1>1, <1>3, <2>2, Prefix
    <2>6. PICK k : k = (WordSize - (Len(c) % WordSize)) % WordSize
      OBVIOUS
    <2>7. PICK pads \in Seq(Nat) : pads = [i \in 1 .. k |-> Pad]
      <3>1. [i \in 1 .. k |-> Pad] \in Seq(Nat)
        <4>1. PICK m \in Nat : m = Len(c)
          BY <1>3, <2>5
        <4> QED BY <2>6, <4>1, PaddingFits
      <3> QED BY <3>1
    <2>8. v.flash = c \o pads
      BY <2>3, <2>6, <2>7 DEF Padded
    <2>9. SubSeq(v.flash, 1, Len(c)) = c /\ Len(c) <= Len(v.flash)
      BY <2>5, <2>8, FirstOfTwo
    <2>10. FlashedImage(v) = c
      <3>1. v.flash \in Seq(Nat) /\ Len(v.flash) \in Nat
        BY <2>5, <2>8, ConcatFits
      <3>2. v.written = n /\ (v.written < Len(v.flash) \/ Len(v.flash) = n)
        BY <1>3, <2>4, <2>5, <2>9, <3>1
      <3> QED BY <2>5, <2>9, <3>2 DEF FlashedImage
    <2>11. Flashed(v, n)
      BY <1>3, <2>2, <2>10 DEF Flashed
    <2> QED BY <1>2, <1>4, <2>1, <2>2, <2>11
  <1> QED BY <1>5, <1>6 DEF Finished

(* Every step of the download puts the next bytes of the body in flash.    *)
LEMMA DownloadTells ==
    ASSUME DownloadInv, DownloadTold, kind = "ota", [Next]_vars
    PROVE  DownloadTold' /\ Delivers
  <1>1. CASE UNCHANGED vars
    <2>1. kind' = kind /\ out' = out /\ rx' = rx /\ at' = at /\ case' = case
      BY <1>1 DEF vars
    <2>2. NotYet' = NotYet /\ FlashedImage(rx.writer)' = FlashedImage(rx.writer)
      BY <2>1 DEF NotYet, Items, FlashedImage
    <2> QED BY <2>1, <2>2, SilentStep DEF DownloadTold
  <1>2. CASE DownloadReads \/ DownloadEnds \/ DownloadCut
    <2>1. /\ kind' = kind /\ case' = case /\ out' = FlashedImage(rx'.writer)
          /\ rx.phase \in {"headers", "body"}
      BY <1>2 DEF DownloadReads, DownloadEnds, DownloadCut, Download
    <2>2. case \in ImageCases /\ IsDownload(rx) /\ out = FlashedImage(rx.writer)
          /\ (rx.phase = "headers" => rx.writer = NewWriter)
          /\ (rx.phase = "body" => BodyFits(rx, at - HeaderSize))
      BY DEF DownloadInv, DownloadTold
    <2>3. PICK b \in Seq(Nat) : b = case.body
      BY <2>2, ResponseBytes
    <2>4. \E q, r : Flashed(rx.writer, q) /\ Flashed(rx'.writer, r) /\ q <= r
      <3>1. CASE rx.phase = "headers"
        <4>1. Flashed(rx.writer, 0)
          BY <2>2, <3>1, NothingFlashed
        <4>2. \E r : Flashed(rx'.writer, r)
          <5>1. CASE DownloadReads
            <6>1. PICK n \in Pieces : at + n <= Total /\ rx' = HeaderGrows(Piece(n))
              BY <3>1, <5>1 DEF DownloadReads, Download
            <6>2. n \in Nat
              BY StreamsAssumption
            <6> QED BY <3>1, <6>1, <6>2, HeaderFlashed
          <5>2. CASE DownloadEnds \/ DownloadCut
            <6>1. rx' = Failed(rx)
              BY <3>1, <5>2 DEF DownloadEnds, DownloadCut, Download, Finished
            <6>2. rx'.writer = rx.writer
              BY ONLY <2>2, <6>1 DEF Failed, IsDownload
            <6> QED BY <4>1, <6>2
          <5> QED BY <1>2, <5>1, <5>2
        <4>3. \A r : Flashed(rx'.writer, r) => 0 <= r
          BY DEF Flashed
        <4> QED BY <4>1, <4>2, <4>3
      <3>2. CASE rx.phase = "body"
        <4>1. PICK n : n = at - HeaderSize
          OBVIOUS
        <4>2. BodyFits(rx, n)
          BY <2>2, <3>2, <4>1
        <4>3. Flashed(rx.writer, Len(rx.writer.flash))
          BY <2>2, <4>2, WordsFlashed
        <4>4. \E r : Flashed(rx'.writer, r) /\ Len(rx.writer.flash) <= r
          <5>1. CASE DownloadReads
            <6>1. PICK k \in Pieces : at + k <= Total /\ rx' = Writes(rx, Piece(k))
              BY <3>2, <5>1 DEF DownloadReads, Download
            <6>2. k \in Nat
              BY StreamsAssumption
            <6>3. Len(b) \in Nat /\ n \in 0 .. Len(b)
              BY <2>3, <4>2 DEF BodyFits
            <6>4. /\ Bytes = ImageBytes[case] /\ Total = Len(ImageBytes[case])
                  /\ Len(ImageBytes[case]) = HeaderSize + Len(b) /\ at \in 0 .. Total
              BY <2>2, <2>3, ResponseBytes DEF Bytes, Total, Lines, DownloadInv
            <6>5. n \in Nat /\ at = HeaderSize + n /\ n + k <= Len(b)
              BY <4>1, <6>1, <6>2, <6>3, <6>4 DEF HeaderSize
            <6>6. Piece(k) = SubSeq(b, n + 1, n + k)
              BY <2>2, <2>3, <6>2, <6>4, <6>5, BodyPiece DEF Piece
            <6> QED BY ONLY <2>2, <2>3, <4>2, <6>1, <6>2, <6>5, <6>6, WritesFlashed
          <5>2. CASE DownloadEnds \/ DownloadCut
            <6>1. rx' \in {Finished, Failed(rx)}
              BY <5>2 DEF DownloadEnds, DownloadCut, Download
            <6> QED BY <2>2, <3>2, <4>2, <6>1, FinishedFlashed
          <5> QED BY <1>2, <5>1, <5>2
        <4> QED BY <4>3, <4>4
      <3> QED BY <2>1, <3>1, <3>2
    <2>5. PICK q, r : Flashed(rx.writer, q) /\ Flashed(rx'.writer, r) /\ q <= r
      BY <2>4
    <2>6. q \in Nat /\ r \in Nat /\ r <= Len(b) /\ out = SubSeq(b, 1, q) /\ Len(b) \in Nat
      BY <2>2, <2>3, <2>5 DEF Flashed
    <2>7. out' = SubSeq(b, 1, r)
      BY <2>1, <2>3, <2>5 DEF Flashed, FlashedImage
    <2>8. out \in Seq(Nat) /\ Len(out) = q /\ Len(out') = r
      <3>1. q <= Len(b)
        BY <2>5, <2>6
      <3>2. PICK o, p : o = out /\ p = out'
        OBVIOUS
      <3>3. o \in Seq(Nat) /\ Len(o) = q /\ Len(p) = r
        BY ONLY <2>6, <2>7, <3>1, <3>2, b \in Seq(Nat), Prefix
      <3> QED BY <3>2, <3>3
    <2>9. Items = b /\ Items' = b
      BY <2>1, <2>3 DEF Items, Lines
    <2>10. NotYet = Behind(b, q) /\ NotYet' = Behind(b, r)
      BY <2>1, <2>8, <2>9 DEF NotYet, Behind
    <2>11. Delivers
      <3>1. CASE q = r
        BY <2>1, <2>6, <2>7, <2>10, <3>1, SilentStep
      <3>2. CASE q # r
        <4>1. q < r /\ q <= q
          BY <2>5, <2>6, <3>2
        <4>2. out' = out \o SubSeq(b, q + 1, r)
          BY <2>5, <2>6, <2>7, NextStretch
        <4> QED BY <2>1, <2>6, <2>8, <2>10, <4>1, <4>2, DeliverStep
      <3> QED BY <3>1, <3>2
    <2>12. DownloadTold'
      BY <2>1 DEF DownloadTold, FlashedImage
    <2> QED BY <2>11, <2>12
  <1>3. Next => DownloadReads \/ DownloadEnds \/ DownloadCut
    <2>1. Step => DownloadReads \/ DownloadEnds
      BY DEF Step, LineByte, Lines, ConnackReads, SubscribeReads, RecvReads, RecvProcesses,
             AckSent, Logs, LogsPublished, CheckStart, UartReads,
             SniffModeEnds, SniffPublished, HostShows
    <2>2. Fault => DownloadCut
      BY DEF Fault, ByteLost, ByteFlipped, ByteAdded, LineFaulty, Lines, ConnackTimesOut,
             SubscribeTimesOut, RecvEnds, AckFails, RecvCancelled, SniffCommand, SniffPublishFails
    <2> QED BY <2>1, <2>2 DEF Next
  <1> QED BY <1>1, <1>2, <1>3

-----------------------------------------------------------------------------
(* Sequences one after the other.                                          *)

(* Where each ends, and what their concatenation holds up to the n-th.     *)
IsEnds(ends, seqs) ==
    /\ ends[0] = 0 /\ \A k \in 1 .. Len(seqs) : ends[k] = ends[k - 1] + Len(seqs[k])
    /\ \A k \in 0 .. Len(seqs) : ends[k] \in Nat
Placed(all, seqs, ends, n) ==
    /\ all \in Seq(Byte) /\ Len(all) = ends[n]
    /\ \A k \in 1 .. n : /\ ends[k] <= ends[n]
                         /\ \A j \in 1 .. Len(seqs[k]) : all[ends[k - 1] + j] = seqs[k][j]

(* A sequence more. *)
LEMMA NextPlaced ==
    ASSUME NEW seqs \in Seq(Seq(Byte)), NEW ends, IsEnds(ends, seqs), NEW n \in Nat,
           n + 1 <= Len(seqs), NEW all, Placed(all, seqs, ends, n)
    PROVE  Placed(all \o seqs[n + 1], seqs, ends, n + 1)
  <1>1. n + 1 \in 1 .. Len(seqs) /\ n \in 0 .. Len(seqs) /\ n + 1 \in 0 .. Len(seqs) /\ (n + 1) - 1 = n
    OBVIOUS
  <1>2. PICK e \in Seq(Byte) : e = seqs[n + 1]
    BY <1>1
  <1>3. PICK a \in Nat, b \in Nat : a = ends[n] /\ b = ends[n + 1]
    BY <1>1 DEF IsEnds
  <1>4. b = a + Len(e) /\ Len(e) \in Nat
    BY <1>1, <1>2, <1>3 DEF IsEnds
  <1>5. all \in Seq(Byte) /\ Len(all) = a
    BY <1>3 DEF Placed
  <1>6. PICK longer : longer = all \o e
    OBVIOUS
  <1>7. Joins(longer, Byte, all, e)
    BY <1>5, <1>6, TwoParts
  <1>8. longer \in Seq(Byte) /\ Len(longer) = b
    BY <1>4, <1>5, <1>7 DEF Joins
  <1>9. ASSUME NEW k \in 1 .. n + 1
        PROVE  ends[k] <= b /\ \A j \in 1 .. Len(seqs[k]) : longer[ends[k - 1] + j] = seqs[k][j]
    <2>1. CASE k = n + 1
      <3>1. ends[k] = b /\ ends[k - 1] = a /\ seqs[k] = e
        BY <1>1, <1>2, <1>3, <2>1
      <3>2. \A j \in 1 .. Len(e) : longer[a + j] = e[j]
        BY <1>5, <1>7 DEF Joins
      <3>3. b <= b
        OBVIOUS
      <3> QED BY <3>1, <3>2, <3>3
    <2>2. CASE k # n + 1
      <3>1. k \in 1 .. n /\ k \in 1 .. Len(seqs) /\ k - 1 \in 0 .. Len(seqs) /\ k \in 0 .. Len(seqs)
        BY <2>2
      <3>2. ends[k] <= a /\ \A j \in 1 .. Len(seqs[k]) : all[ends[k - 1] + j] = seqs[k][j]
        BY <1>3, <3>1 DEF Placed
      <3>3. PICK s \in Seq(Byte) : s = seqs[k]
        BY <3>1
      <3>4. PICK c \in Nat, d \in Nat : c = ends[k - 1] /\ d = ends[k]
        BY <3>1 DEF IsEnds
      <3>5. d = c + Len(s) /\ Len(s) \in Nat /\ d <= a
        BY <3>1, <3>2, <3>3, <3>4 DEF IsEnds
      <3>6. d <= b
        BY <1>4, <3>5
      <3>7. ASSUME NEW j \in 1 .. Len(s) PROVE longer[c + j] = s[j]
        <4>1. c + j \in 1 .. Len(all)
          BY <1>5, <3>5
        <4>2. longer[c + j] = all[c + j]
          BY <1>7, <4>1 DEF Joins
        <4> QED BY <3>2, <3>3, <3>4, <4>2
      <3> QED BY <3>3, <3>4, <3>6, <3>7
    <2> QED BY <2>1, <2>2
  <1>10. Placed(longer, seqs, ends, n + 1)
    BY <1>3, <1>8, <1>9 DEF Placed
  <1> QED BY <1>2, <1>6, <1>10

(* The concatenation of sequences holds each of them where the ones before *)
(* it end (FlattenSeq, the bytes of the line and of a connection).         *)
LEMMA ConcatPlaced ==
    ASSUME NEW seqs \in Seq(Seq(Byte)), seqs # <<>>, NEW ends, IsEnds(ends, seqs)
    PROVE  Placed(FlattenSeq(seqs), seqs, ends, Len(seqs))
  <1> DEFINE n == Len(seqs)
             step == [k \in 1 .. n |-> [s \in Seq(Byte) |-> s \o seqs[k]]]
  <1>1. n \in Nat /\ n # 0 /\ 1 \in 1 .. n /\ DOMAIN seqs = 1 .. n
    OBVIOUS
  <1>4. \A i \in 1 .. n : seqs[i] \in Seq(Byte)
    OBVIOUS
  <1>6. step \in [1 .. n -> [Seq(Byte) -> Seq(Byte)]]
    <2>1. \A s \in Seq(Byte), k \in 1 .. n : s \o seqs[k] \in Seq(Byte)
      BY <1>4, TwoParts DEF Joins
    <2> QED BY <2>1
  <1>7. PICK f : Iterates(f, Seq(Byte), <<>>, n, step)
    <2> HIDE DEF step, n
    <2>1. <<>> \in Seq(Byte) /\ n \in Nat
      BY <1>1
    <2> QED BY <1>6, <2>1, Iterated
  <1> DEFINE h == [i \in 1 .. n |-> f[i]]
  <1>8. Glued(h, seqs)
    <2>1. \A k \in 1 .. n : f[k - 1] \in Seq(Byte) /\ f[k] = f[k - 1] \o seqs[k]
      <3> TAKE k \in 1 .. n
      <3>1. k - 1 \in 0 .. n
        OBVIOUS
      <3> QED BY <1>7, <3>1 DEF Iterates
    <2>2. f[1] = seqs[1]
      <3>1. f[1] = <<>> \o seqs[1]
        <4>1. f[0] = <<>> /\ 1 - 1 = 0
          BY <1>7 DEF Iterates
        <4> QED BY <1>1, <2>1, <4>1
      <3> QED BY <1>1, <1>4, <3>1
    <2>3. \A k \in 1 .. n : k # 1 => k - 1 \in 1 .. n
      OBVIOUS
    <2> HIDE DEF n
    <2>4. h = [i \in 1 .. n |-> IF i = 1 THEN seqs[i] ELSE h[i - 1] \o seqs[i]]
      BY <2>1, <2>2, <2>3
    <2> QED BY <2>4 DEF Glued, n
  <1> DEFINE g == CHOOSE g : Glued(g, seqs)
  <1>9. Glued(g, seqs)
    BY <1>8
  <1>10. FlattenSeq(seqs) = g[n]
    BY <1>1 DEF FlattenSeq, Glued
  <1> HIDE DEF g
  <1>11. g[1] = seqs[1] /\ \A k \in 1 .. n : k # 1 => g[k] = g[k - 1] \o seqs[k]
    BY <1>1, <1>9 DEF Glued
  <1>12. \A k \in 1 .. n : Placed(g[k], seqs, ends, k)
    <2> DEFINE Bad == {k \in 1 .. n : ~Placed(g[k], seqs, ends, k)}
    <2>1. SUFFICES ASSUME Bad # {} PROVE FALSE
      BY DEF Bad
    <2>2. Bad \in SUBSET Nat /\ \A k : k \in Bad <=> k \in 1 .. n /\ ~Placed(g[k], seqs, ends, k)
      OBVIOUS
    <2> HIDE DEF Bad
    <2>3. PICK k \in Bad : \A j \in Bad : k <= j
      BY <2>1, <2>2, LeastIsThere
    <2>4. k \in 1 .. n /\ ~Placed(g[k], seqs, ends, k)
      BY <2>2, <2>3
    <2>5. CASE k = 1
      <3>0. <<>> \in Seq(Byte)
        OBVIOUS
      <3>1. PICK none \in Seq(Byte), z \in Nat : none = <<>> /\ z = 0
        BY <3>0
      <3>2. Placed(none, seqs, ends, z)
        BY <3>1 DEF Placed, IsEnds
      <3>3. z + 1 = k /\ z + 1 <= Len(seqs)
        BY <2>4, <2>5, <3>1
      <3>4. Placed(none \o seqs[z + 1], seqs, ends, z + 1)
        BY <3>2, <3>3, NextPlaced
      <3>5. none \o seqs[k] = seqs[k]
        BY <1>4, <2>4, <3>1
      <3> QED BY <1>11, <2>4, <2>5, <3>3, <3>4, <3>5
    <2>6. CASE k # 1
      <3>1. k - 1 \in 1 .. n /\ ~(k <= k - 1) /\ k - 1 \in Nat /\ (k - 1) + 1 = k /\ k <= Len(seqs)
        BY <2>4, <2>6
      <3>2. Placed(g[k - 1], seqs, ends, k - 1)
        BY <2>2, <2>3, <3>1
      <3>3. g[k] = g[k - 1] \o seqs[k]
        BY <1>11, <2>4, <2>6
      <3>4. PICK m \in Nat : m = k - 1 /\ m + 1 = k
        BY <3>1
      <3>5. Placed(g[m] \o seqs[m + 1], seqs, ends, m + 1)
        BY <3>1, <3>2, <3>4, NextPlaced
      <3> QED BY <2>4, <3>3, <3>4, <3>5
    <2> QED BY <2>5, <2>6
  <1> QED BY <1>1, <1>10, <1>12

-----------------------------------------------------------------------------
(* On a line without faults every frame is decoded, and nothing else.      *)

(* No length byte equals a marker: one that does is taken for a second     *)
(* start marker, and the frame is lost.                                    *)
LengthsTold == \A i \in 1 .. Len(SentFrames) : 4 + Len(SentFrames[i].payload) # Marker

(* The bytes of a frame, a length and what parses to the frame between two *)
(* markers.                                                                *)
Sends(e, frame, size) ==
    /\ e \in Seq(Byte) /\ size \in Nat /\ 4 <= size /\ size <= 255 /\ size # Marker
    /\ Len(e) = size + 2 /\ e[1] = Marker /\ e[2] = size /\ e[size + 2] = Marker
    /\ Parse(SubSeq(e, 2, size + 1)) = frame /\ frame # FrameError
(* A decoder that was given the first o bytes of a frame.                  *)
Reading(d, e, o, m) ==
    \/ o = 0 /\ d = Holding(<<>>, FALSE, 0, m)
    \/ o = 1 /\ d = Holding(<<>>, TRUE, 0, m)
    \/ 2 <= o /\ o < Len(e) /\ d = Holding(SubSeq(e, 2, o), TRUE, e[2], m)

(* A byte alone. *)
LEMMA OneByte ==
    ASSUME NEW b \in Byte
    PROVE  <<b>> \in Seq(Byte) /\ Len(<<b>>) = 1 /\ <<b>>[1] = b
  OBVIOUS

(* What is encoded parses to the frame (Frame::encode, Frame::parse).      *)
LEMMA EncodeSends ==
    ASSUME LengthsTold, NEW i \in 1 .. Len(SentFrames)
    PROVE  Sends(Encode(SentFrames[i]), SentFrames[i], 4 + Len(SentFrames[i].payload))
  <1>1. PICK f : f = SentFrames[i]
    OBVIOUS
  <1>2. f \in [type : Seq(Byte), payload : Seq(Byte)] /\ Len(f.type) = 2 /\ 4 + Len(f.payload) <= 255
    BY <1>1, LineAssumption, ElementOfSeq
  <1>3. PICK type \in Seq(Byte), payload \in Seq(Byte), p \in Nat :
            type = f.type /\ payload = f.payload /\ p = Len(payload)
    BY <1>2
  <1>a. 4 + p \in Nat /\ 4 + p <= 255
    BY <1>2, <1>3
  <1>4. PICK size \in Nat : size = 4 + p /\ size \in Byte
    <2>1. PICK size \in Nat : size = 4 + p /\ size <= 255
      BY <1>a
    <2>2. size \in Byte
      BY <2>1 DEF Byte
    <2> QED BY <2>1, <2>2
  <1>5. 4 <= size /\ size <= 255 /\ size # Marker /\ size = 4 + Len(f.payload)
    BY <1>1, <1>2, <1>3, <1>4 DEF LengthsTold
  <1>b. <<size>> \in Seq(Byte) /\ Len(<<size>>) = 1 /\ <<size>>[1] = size
    BY <1>4, OneByte
  <1>c. <<Marker>> \in Seq(Byte) /\ Len(<<Marker>>) = 1 /\ <<Marker>>[1] = Marker
    <2>1. Marker \in Byte
      BY DEF Byte, Marker
    <2> QED BY <2>1, OneByte
  <1>d. PICK first, marker : first = <<size>> /\ marker = <<Marker>>
    OBVIOUS
  <1>6. /\ first \in Seq(Byte) /\ first = <<size>> /\ Len(first) = 1 /\ first[1] = size
        /\ marker \in Seq(Byte) /\ marker = <<Marker>> /\ Len(marker) = 1 /\ marker[1] = Marker
    BY <1>b, <1>c, <1>d
  <1>7. PICK head : head = first \o type
    OBVIOUS
  <1>8. Joins(head, Byte, first, type)
    BY <1>6, <1>7, TwoParts
  <1>9. /\ head \in Seq(Byte) /\ Len(head) = 3 /\ head[1] = size
        /\ head[2] = type[1] /\ head[3] = type[2]
    <2>1. Len(type) = 2 /\ Len(first) = 1 /\ first[1] = size
      BY <1>2, <1>3, <1>6
    <2>2. 1 \in 1 .. Len(first) /\ 1 \in 1 .. Len(type) /\ 2 \in 1 .. Len(type)
          /\ Len(first) + 1 = 2 /\ Len(first) + 2 = 3
      BY <2>1
    <2>3. /\ head \in Seq(Byte) /\ Len(head) = Len(first) + Len(type)
          /\ \A i_1 \in 1 .. Len(first) : head[i_1] = first[i_1]
          /\ \A i_1 \in 1 .. Len(type) : head[Len(first) + i_1] = type[i_1]
      BY <1>8 DEF Joins
    <2>4. Len(head) = 3
      BY <2>1, <2>3
    <2>5. head[1] = first[1] /\ head[Len(first) + 1] = type[1] /\ head[Len(first) + 2] = type[2]
      BY <2>2, <2>3
    <2> QED BY <2>1, <2>2, <2>3, <2>4, <2>5
  <1>10. PICK body : body = head \o payload
    OBVIOUS
  <1>11. Joins(body, Byte, head, payload)
    BY <1>9, <1>10, TwoParts
  <1>12. /\ body \in Seq(Byte) /\ Len(body) = 3 + p /\ body[1] = size
         /\ body[2] = type[1] /\ body[3] = type[2] /\ \A j \in 1 .. p : body[3 + j] = payload[j]
    <2>1. /\ body \in Seq(Byte) /\ Len(body) = Len(head) + Len(payload)
          /\ \A i_1 \in 1 .. Len(head) : body[i_1] = head[i_1]
          /\ \A i_1 \in 1 .. Len(payload) : body[Len(head) + i_1] = payload[i_1]
      BY <1>11 DEF Joins
    <2>2. 1 \in 1 .. Len(head) /\ 2 \in 1 .. Len(head) /\ 3 \in 1 .. Len(head)
      BY <1>9
    <2>3. body[1] = head[1] /\ body[2] = head[2] /\ body[3] = head[3]
      BY <2>1, <2>2
    <2>4. Len(body) = 3 + p /\ \A j \in 1 .. p : body[3 + j] = payload[j]
      BY <1>3, <1>9, <2>1
    <2> QED BY <1>9, <2>1, <2>3, <2>4
  <1>e. PICK sum : sum = <<Crc8(body)>>
    OBVIOUS
  <1>13. sum \in Seq(Byte) /\ sum = <<Crc8(body)>> /\ Len(sum) = 1 /\ sum[1] = Crc8(body)
    <2>1. Crc8(body) \in Byte
      BY <1>12, CrcFits
    <2>2. PICK b \in Byte : b = Crc8(body)
      BY <2>1
    <2> QED BY <1>e, <2>2, OneByte
  <1>14. PICK data : data = body \o sum
    OBVIOUS
  <1>15. Joins(data, Byte, body, sum)
    BY <1>12, <1>13, <1>14, TwoParts
  <1>16. /\ data \in Seq(Byte) /\ Len(data) = size /\ data[size] = Crc8(body)
         /\ \A j \in 1 .. 3 + p : data[j] = body[j]
    <2>1. 1 \in 1 .. Len(sum) /\ Len(body) + 1 = size
      BY <1>4, <1>12, <1>13
    <2> QED BY <1>4, <1>12, <1>13, <1>15, <2>1 DEF Joins
  <1>17. PICK z \in Nat, m \in Nat : z = 0 /\ m = size - 1 /\ m = 3 + p
    BY <1>4
  <1>18. data[1] = size
    <2>1. 1 \in 1 .. 3 + p
      BY <1>3
    <2> QED BY <1>12, <1>16, <2>1
  <1>19. SubSeq(data, 1, size - 1) = body
    <2>1. PICK t : t = SubSeq(data, z + 1, z + m)
      OBVIOUS
    <2>2. z + m <= Len(data)
      BY <1>4, <1>16, <1>17
    <2>3. Stretch(t, Byte, data, z, m)
      BY <1>16, <2>1, <2>2, Cut
    <2>4. t \in Seq(Byte) /\ Len(t) = m /\ \A j \in 1 .. m : t[j] = data[j]
      BY <1>17, <2>3 DEF Stretch
    <2>5. t = body
      <3>1. Len(body) = m /\ body \in Seq(Byte) /\ \A j \in 1 .. m : t[j] = body[j]
        BY <1>12, <1>16, <1>17, <2>4
      <3> QED BY ONLY <2>4, <3>1, SeqEqual
    <2> QED BY <1>17, <2>1, <2>5
  <1>20. SubSeq(data, 2, 3) = type
    <2>1. PICK one \in Nat, two \in Nat : one = 1 /\ two = 2
      OBVIOUS
    <2>2. PICK t : t = SubSeq(data, one + 1, one + two)
      OBVIOUS
    <2>3. one + two <= Len(data)
      BY <1>4, <1>16, <2>1
    <2>4. Stretch(t, Byte, data, one, two)
      BY <1>16, <2>2, <2>3, Cut
    <2>5. t \in Seq(Byte) /\ Len(t) = 2 /\ t[1] = data[2] /\ t[2] = data[3]
      BY <2>1, <2>4 DEF Stretch
    <2>6. data[2] = type[1] /\ data[3] = type[2]
      BY <1>12, <1>16
    <2>7. t = type
      <3>1. Len(type) = 2
        BY <1>2, <1>3
      <3>2. \A j \in 1 .. 2 : t[j] = type[j]
        <4>1. \A j \in 1 .. 2 : j = 1 \/ j = 2
          OBVIOUS
        <4> QED BY <2>5, <2>6, <4>1
      <3> QED BY ONLY <2>5, <3>1, <3>2, type \in Seq(Byte), SeqEqual
    <2> QED BY <2>1, <2>2, <2>7
  <1>21. SubSeq(data, 4, size - 1) = payload
    <2>1. PICK three \in Nat : three = 3
      OBVIOUS
    <2>2. PICK t : t = SubSeq(data, three + 1, three + p)
      OBVIOUS
    <2>3. three + p <= Len(data)
      BY <1>4, <1>16, <2>1
    <2>4. Stretch(t, Byte, data, three, p)
      BY <1>16, <2>2, <2>3, Cut
    <2>5. t \in Seq(Byte) /\ Len(t) = p /\ \A j \in 1 .. p : t[j] = data[3 + j]
      BY <2>1, <2>4 DEF Stretch
    <2>6. \A j \in 1 .. p : data[3 + j] = payload[j]
      <3>1. \A j \in 1 .. p : 3 + j \in 1 .. 3 + p
        BY <1>3
      <3> QED BY <1>12, <1>16, <3>1
    <2>7. t = payload
      <3>1. \A j \in 1 .. p : t[j] = payload[j]
        BY <2>5, <2>6
      <3>2. Len(payload) = p
        BY <1>3
      <3> QED BY ONLY <2>5, <3>1, <3>2, payload \in Seq(Byte), SeqEqual
    <2>8. three + 1 = 4 /\ three + p = size - 1
      BY <1>4, <2>1
    <2> QED BY <2>2, <2>7, <2>8
  <1>22. Frame(type, payload) = f
    BY <1>2, <1>3 DEF Frame
  <1>23. Parse(data) = f
    <2>1. ~(Len(data) < 4 \/ data[1] < 4 \/ Len(data) < data[1])
      BY <1>4, <1>5, <1>16, <1>18
    <2>2. Parse(data) = Frame(SubSeq(data, 2, 3), SubSeq(data, 4, size - 1))
      BY <1>16, <1>18, <1>19, <2>1 DEF Parse
    <2> QED BY <1>20, <1>21, <1>22, <2>2
  <1>24. f # FrameError
    <2>1. FrameError.type = <<>> /\ Len(<<>>) = 0
      BY DEF FrameError
    <2>2. Len(f.type) # Len(FrameError.type)
      BY <1>2, <2>1
    <2> QED BY <2>2
  <1>25. PICK e : e = Encode(f)
    OBVIOUS
  <1>26. e = ((marker \o body) \o sum) \o marker
    <2>1. ~(4 + Len(f.payload) > 255)
      BY <1>2, <1>3
    <2>2. Encode(f) = <<Marker>> \o (<<4 + Len(f.payload)>> \o f.type \o f.payload)
                        \o <<Crc8(<<4 + Len(f.payload)>> \o f.type \o f.payload)>> \o <<Marker>>
      BY <2>1, Zenon DEF Encode
    <2>3. <<4 + Len(f.payload)>> \o f.type \o f.payload = body
      BY <1>3, <1>4, <1>6, <1>7, <1>10
    <2> QED BY <1>6, <1>13, <1>25, <2>2, <2>3
  <1>27. PICK s1 : s1 = marker \o body
    OBVIOUS
  <1>28. Joins(s1, Byte, marker, body)
    BY <1>6, <1>12, <1>27, TwoParts
  <1>29. s1 \in Seq(Byte) /\ Len(s1) = size /\ s1[1] = Marker /\ \A j \in 1 .. m : s1[1 + j] = body[j]
    BY <1>4, <1>6, <1>12, <1>17, <1>28 DEF Joins
  <1>30. PICK s2 : s2 = s1 \o sum
    OBVIOUS
  <1>31. Joins(s2, Byte, s1, sum)
    BY <1>13, <1>29, <1>30, TwoParts
  <1>32. /\ s2 \in Seq(Byte) /\ Len(s2) = size + 1 /\ s2[1] = Marker
         /\ \A j \in 1 .. m : s2[1 + j] = body[j]
         /\ s2[size + 1] = Crc8(body)
    <2>1. 1 \in 1 .. Len(s1) /\ 1 \in 1 .. Len(sum) /\ \A j \in 1 .. m : 1 + j \in 1 .. Len(s1)
      BY <1>5, <1>13, <1>17, <1>29
    <2> QED BY <1>13, <1>29, <1>31, <2>1 DEF Joins
  <1>33. e = s2 \o marker
    BY <1>26, <1>27, <1>30
  <1>34. Joins(e, Byte, s2, marker)
    BY <1>6, <1>32, <1>33, TwoParts
  <1>35. /\ e \in Seq(Byte) /\ Len(e) = size + 2 /\ e[1] = Marker /\ e[size + 2] = Marker
         /\ \A j \in 1 .. size + 1 : e[j] = s2[j]
    <2>1. 1 \in 1 .. Len(s2) /\ 1 \in 1 .. Len(marker) /\ Len(s2) + 1 = size + 2
      BY <1>5, <1>6, <1>32
    <2>2. Len(e) = size + 2
      BY <1>4, <1>6, <1>32, <1>34 DEF Joins
    <2> QED BY <1>6, <1>32, <1>34, <2>1, <2>2 DEF Joins
  <1>36. \A j \in 1 .. size : e[1 + j] = data[j]
    <2> TAKE j \in 1 .. size
    <2>1. 1 + j \in 1 .. size + 1
      BY <1>4
    <2>2. e[1 + j] = s2[1 + j]
      BY <1>35, <2>1
    <2>3. CASE j = size
      <3>1. 1 + j = size + 1
        BY <1>4, <2>3
      <3> QED BY <1>16, <1>32, <2>2, <2>3, <3>1
    <2>4. CASE j # size
      <3>1. j \in 1 .. m /\ j \in 1 .. 3 + p
        BY <1>4, <1>17, <2>4
      <3> QED BY <1>16, <1>32, <2>2, <3>1
    <2> QED BY <2>3, <2>4
  <1>37. SubSeq(e, 2, size + 1) = data
    <2>1. PICK one \in Nat : one = 1
      OBVIOUS
    <2>2. PICK t : t = SubSeq(e, one + 1, one + size)
      OBVIOUS
    <2>3. one + size <= Len(e)
      BY <1>4, <1>35, <2>1
    <2>4. Stretch(t, Byte, e, one, size)
      BY <1>4, <1>35, <2>2, <2>3, Cut
    <2>5. t \in Seq(Byte) /\ Len(t) = size /\ \A j \in 1 .. size : t[j] = data[j]
      BY <1>36, <2>1, <2>4 DEF Stretch
    <2>6. t = data
      BY ONLY <1>16, <2>5, SeqEqual
    <2>7. one + 1 = 2 /\ one + size = size + 1
      BY <1>4, <2>1
    <2> QED BY <2>2, <2>6, <2>7
  <1>38. e[2] = size
    <2>1. 1 \in 1 .. size
      BY <1>4, <1>5
    <2>2. e[1 + 1] = data[1]
      BY <1>36, <2>1
    <2> QED BY <1>18, <2>2
  <1>39. Sends(e, f, size)
    BY <1>4, <1>5, <1>23, <1>24, <1>35, <1>37, <1>38 DEF Sends
  <1> QED BY <1>1, <1>5, <1>25, <1>39

(* The next byte of a frame makes it longer, the last one gives it.        *)
HeardNext(s, e, o, frame, m) ==
    /\ o + 1 < Len(e) => s.frames = <<>> /\ Reading(s.dec, e, o + 1, m)
    /\ o + 1 = Len(e) => s.frames = <<frame>> /\ Reading(s.dec, e, 0, m)

(* A stretch of a frame and the byte behind it. *)
LEMMA OneMore ==
    ASSUME NEW e \in Seq(Byte), NEW o \in Nat, 2 <= o, o < Len(e)
    PROVE  /\ SubSeq(e, 2, o + 1) = Append(SubSeq(e, 2, o), e[o + 1])
           /\ SubSeq(e, 2, o) \in Seq(Byte) /\ Len(SubSeq(e, 2, o)) = o - 1
  <1>1. PICK k \in Nat, one \in Nat : k = o - 1 /\ one = 1 /\ k # 0
    <2>1. o - 1 \in Nat /\ o - 1 # 0
      OBVIOUS
    <2> QED BY <2>1
  <1>2. one + k = o /\ one + (k + 1) = o + 1 /\ one + 1 = 2 /\ k + 1 \in Nat
    BY <1>1
  <1>3. PICK t, u : t = SubSeq(e, one + 1, one + k) /\ u = SubSeq(e, one + 1, one + (k + 1))
    OBVIOUS
  <1>4. Stretch(t, Byte, e, one, k)
    <2>1. one + k <= Len(e)
      BY <1>2
    <2> QED BY <1>3, <2>1, Cut
  <1>5. Stretch(u, Byte, e, one, k + 1)
    <2>1. one + (k + 1) <= Len(e)
      BY <1>2
    <2> QED BY <1>2, <1>3, <2>1, Cut
  <1>6. PICK b \in Byte : b = e[o + 1]
    <2>1. o + 1 \in 1 .. Len(e)
      OBVIOUS
    <2> QED BY <2>1
  <1>7. PICK v : v = Append(t, b)
    OBVIOUS
  <1>8. t \in Seq(Byte) /\ Len(t) = k /\ \A i \in 1 .. k : t[i] = e[one + i]
    BY <1>4 DEF Stretch
  <1>9. v \in Seq(Byte) /\ Len(v) = k + 1 /\ v[k + 1] = b /\ \A i \in 1 .. k : v[i] = t[i]
    BY <1>7, <1>8
  <1>10. u \in Seq(Byte) /\ Len(u) = k + 1 /\ \A i \in 1 .. k + 1 : u[i] = e[one + i]
    BY <1>5 DEF Stretch
  <1>11. \A i \in 1 .. k + 1 : u[i] = v[i]
    <2> TAKE i \in 1 .. k + 1
    <2>1. CASE i = k + 1
      BY <1>2, <1>6, <1>9, <1>10, <2>1
    <2>2. CASE i # k + 1
      <3>1. i \in 1 .. k
        BY <1>1, <2>2
      <3> QED BY <1>8, <1>9, <1>10, <3>1
    <2> QED BY <2>1, <2>2
  <1>12. u = v
    BY ONLY <1>9, <1>10, <1>11, SeqEqual
  <1> QED BY <1>1, <1>2, <1>3, <1>6, <1>7, <1>8, <1>12

(* The two decoders, a byte after the other (feed, feed_slice).            *)
LEMMA HearsMarker ==
    ASSUME NEW m, NEW d, d = Holding(<<>>, FALSE, 0, m)
    PROVE  /\ Feed(d, Marker) = Stays(Holding(<<>>, TRUE, 0, m))
           /\ SliceStep(d, Marker) = Stays(Holding(<<>>, TRUE, 0, m))
  <1>1. Facts(<<>>, FALSE, 0, m)
    BY HoldingFields
  <1>2. ~d.inFrame /\ Started(d) = Holding(<<>>, TRUE, 0, m)
    BY <1>1 DEF Facts
  <1>3. FeedMarker(d) = Stays(Started(d))
    BY <1>2 DEF FeedMarker
  <1>4. SliceStep(d, Marker) = Stays(Started(d))
    BY <1>2 DEF SliceStep
  <1> QED BY <1>2, <1>3, <1>4 DEF Feed
(* A length byte that is no marker starts the frame.                       *)
LEMMA HearsLength ==
    ASSUME NEW m, NEW d, d = Holding(<<>>, TRUE, 0, m), NEW size \in Nat, 4 <= size, size <= 255,
           size # Marker
    PROVE  /\ Feed(d, size) = Stays(Holding(<<size>>, TRUE, size, m))
           /\ SliceStep(d, size) = Stays(Holding(<<size>>, TRUE, size, m))
  <1>1. Facts(<<>>, TRUE, 0, m) /\ Facts(<<size>>, TRUE, 0, m)
    BY HoldingFields
  <1>2. d.inFrame = TRUE /\ d.buffer = <<>> /\ d.expected = 0
    BY <1>1 DEF Facts
  <1>3. ~BadLength(size)
    BY DEF BadLength, MaxBuffer
  <1>4. Append(<<>>, size) = <<size>>
    OBVIOUS
  <1>5. [d EXCEPT !.buffer = <<size>>] = Holding(<<size>>, TRUE, 0, m)
    BY <1>1 DEF Facts
  <1>6. [Holding(<<size>>, TRUE, 0, m) EXCEPT !.expected = size] = Holding(<<size>>, TRUE, size, m)
    BY <1>1 DEF Facts
  <1>7. FeedByte(d, size) = Stays([[d EXCEPT !.buffer = Append(@, size)] EXCEPT !.expected = size])
    BY <1>2, <1>3 DEF FeedByte
  <1>8. SliceStep(d, size) = Stays([d EXCEPT !.buffer = <<size>>, !.expected = size])
    <2>1. d.inFrame /\ ~(size = Marker)
      BY <1>2, Zenon
    <2>2. d.expected = 0 /\ ~(d.expected > 0)
      <3>1. PICK z \in Nat : z = 0 /\ ~(z > 0)
        OBVIOUS
      <3> QED BY <1>2, <3>1, Zenon
    <2> QED BY <1>3, <2>1, <2>2, Zenon DEF SliceStep
  <1>9. [d EXCEPT !.buffer = Append(@, size)] = [d EXCEPT !.buffer = <<size>>]
    BY <1>2, <1>4
  <1>10. [d EXCEPT !.buffer = <<size>>, !.expected = size]
           = [[d EXCEPT !.buffer = <<size>>] EXCEPT !.expected = size]
    OBVIOUS
  <1> QED BY <1>5, <1>6, <1>7, <1>8, <1>9, <1>10 DEF Feed
(* Every byte is collected, a marker too, while the frame is shorter than  *)
(* announced.                                                              *)
LEMMA HearsBody ==
    ASSUME NEW m, NEW t \in Seq(Byte), NEW size \in Nat, t # <<>>, Len(t) < size, NEW byte, NEW d,
           d = Holding(t, TRUE, size, m)
    PROVE  /\ Feed(d, byte) = Stays(Holding(Append(t, byte), TRUE, size, m))
           /\ SliceStep(d, byte) = Stays(Holding(Append(t, byte), TRUE, size, m))
  <1>1. Facts(t, TRUE, size, m)
    BY HoldingFields
  <1>2. d.inFrame = TRUE /\ d.buffer = t /\ d.expected = size
    BY <1>1 DEF Facts
  <1>3. Len(t) \in Nat /\ size > 0 /\ ~(Len(t) >= size) /\ size # 0
    OBVIOUS
  <1>4. [d EXCEPT !.buffer = Append(t, byte)] = Holding(Append(t, byte), TRUE, size, m)
    BY <1>1 DEF Facts
  <1>5. [d EXCEPT !.buffer = Append(@, byte)] = [d EXCEPT !.buffer = Append(t, byte)]
    BY <1>2
  <1>6. FeedByte(d, byte) = Stays([d EXCEPT !.buffer = Append(@, byte)])
    BY <1>2 DEF FeedByte
  <1>7. FeedMarker(d) = Stays([d EXCEPT !.buffer = Append(@, Marker)])
    BY <1>2, <1>3 DEF FeedMarker
  <1>8. SliceStep(d, byte) = Stays([d EXCEPT !.buffer = Append(@, byte)])
    BY <1>2, <1>3 DEF SliceStep
  <1>9. Feed(d, byte) = Stays([d EXCEPT !.buffer = Append(@, byte)])
    BY <1>6, <1>7 DEF Feed
  <1> QED BY <1>4, <1>5, <1>8, <1>9
(* The marker behind the announced length ends the frame, which is parsed. *)
LEMMA HearsEnd ==
    ASSUME NEW m, NEW t \in Seq(Byte), NEW size \in Nat, size # 0, Len(t) = size,
           Parse(t) # FrameError
    PROVE  LET d == Holding(t, TRUE, size, m)
               heard == [dec |-> Holding(<<>>, FALSE, 0, m), frames |-> <<Parse(t)>>]
           IN  Feed(d, Marker) = heard /\ SliceStep(d, Marker) = heard
  <1>a. PICK d : d = Holding(t, TRUE, size, m)
    OBVIOUS
  <1>b. PICK frame : frame = Parse(t)
    OBVIOUS
  <1>0. d = Holding(t, TRUE, size, m) /\ frame = Parse(t) /\ frame # FrameError
    BY <1>a, <1>b
  <1>1. Facts(t, TRUE, size, m)
    BY HoldingFields
  <1>2. d.inFrame = TRUE /\ d.buffer = t /\ d.expected = size /\ Idle(d) = Holding(<<>>, FALSE, 0, m)
    BY <1>0, <1>1 DEF Facts
  <1>3. size > 0 /\ Len(t) >= size /\ ~(Len(t) < size) /\ SubSeq(t, 1, size) = t
    OBVIOUS
  <1>4. Parse(SubSeq(d.buffer, 1, d.expected)) = frame
    BY <1>0, <1>2, <1>3
  <1>5. Ends(d) = [dec |-> Idle(d), frames |-> <<frame>>]
    BY <1>0, <1>4 DEF Ends
  <1>6. FeedMarker(d) = Ends(d)
    BY <1>2, <1>3 DEF FeedMarker
  <1>7. SliceStep(d, Marker) = Ends(d)
    BY <1>2, <1>3 DEF SliceStep
  <1> QED BY <1>0, <1>2, <1>5, <1>6, <1>7 DEF Feed

(* A decoder that reads a frame goes on with its next byte.                *)
LEMMA HearsNext ==
    ASSUME NEW m, NEW e, NEW frame, NEW size, Sends(e, frame, size), NEW o \in Nat, o < Len(e), NEW d,
           Reading(d, e, o, m), NEW s, s \in {Feed(d, e[o + 1]), SliceStep(d, e[o + 1])}
    PROVE  HeardNext(s, e, o, frame, m)
  <1>1. /\ e \in Seq(Byte) /\ size \in Nat /\ 4 <= size /\ size <= 255 /\ size # Marker
        /\ Len(e) = size + 2 /\ e[1] = Marker /\ e[2] = size /\ e[size + 2] = Marker
        /\ Parse(SubSeq(e, 2, size + 1)) = frame /\ frame # FrameError
    BY DEF Sends
  <1>2. \A x : Stays(x).dec = x /\ Stays(x).frames = <<>>
    BY DEF Stays
  <1>3. CASE o = 0
    <2>1. e[o + 1] = Marker /\ o + 1 = 1 /\ o + 1 < Len(e) /\ ~(o + 1 = Len(e))
      BY <1>1, <1>3
    <2>2. d = Holding(<<>>, FALSE, 0, m)
      BY <1>3 DEF Reading
    <2>3. s = Stays(Holding(<<>>, TRUE, 0, m))
      <3>1. /\ Feed(d, Marker) = Stays(Holding(<<>>, TRUE, 0, m))
            /\ SliceStep(d, Marker) = Stays(Holding(<<>>, TRUE, 0, m))
        BY <2>2, HearsMarker
      <3> QED BY <2>1, <3>1
    <2>4. Reading(s.dec, e, o + 1, m)
      BY <1>2, <2>1, <2>3 DEF Reading
    <2> QED BY <1>2, <2>1, <2>3, <2>4 DEF HeardNext
  <1>4. CASE o = 1
    <2>1. e[o + 1] = size /\ o + 1 = 2 /\ o + 1 < Len(e) /\ ~(o + 1 = Len(e))
      BY <1>1, <1>4
    <2>2. d = Holding(<<>>, TRUE, 0, m)
      BY <1>4 DEF Reading
    <2>3. s = Stays(Holding(<<size>>, TRUE, size, m))
      BY <1>1, <2>1, <2>2, HearsLength
    <2>4. SubSeq(e, 2, 2) = <<size>>
      <3>1. PICK two \in Nat : two = 2 /\ two # 0
        OBVIOUS
      <3>2. two <= Len(e)
        BY <1>1, <3>1
      <3>3. SubSeq(e, two, two) = <<e[two]>>
        BY <1>1, <3>1, <3>2, Alone
      <3> QED BY <1>1, <3>1, <3>3
    <2>5. Reading(s.dec, e, o + 1, m)
      <3>1. PICK p : p = o + 1
        OBVIOUS
      <3>2. 2 <= p /\ p < Len(e) /\ SubSeq(e, 2, p) = <<size>>
        BY <2>1, <2>4, <3>1
      <3>3. s.dec = Holding(<<size>>, TRUE, size, m)
        BY <1>2, <2>3
      <3>4. Reading(s.dec, e, p, m)
        BY <1>1, <3>2, <3>3 DEF Reading
      <3> QED BY <3>1, <3>4
    <2> QED BY <1>2, <2>1, <2>3, <2>5 DEF HeardNext
  <1>5. CASE o # 0 /\ o # 1
    <2>1. 2 <= o /\ d = Holding(SubSeq(e, 2, o), TRUE, size, m)
      BY <1>1, <1>5 DEF Reading
    <2>2. PICK t : t = SubSeq(e, 2, o)
      OBVIOUS
    <2>3. /\ SubSeq(e, 2, o + 1) = Append(t, e[o + 1]) /\ t \in Seq(Byte) /\ Len(t) = o - 1
      BY <1>1, <2>1, <2>2, OneMore
    <2>4. CASE o = size + 1
      <3>1. e[o + 1] = Marker /\ o + 1 = Len(e) /\ ~(o + 1 < Len(e)) /\ Len(t) = size /\ size # 0
        BY <1>1, <2>3, <2>4
      <3>2. Parse(t) = frame
        BY <1>1, <2>2, <2>4
      <3>3. s = [dec |-> Holding(<<>>, FALSE, 0, m), frames |-> <<frame>>]
        <4>1. d = Holding(t, TRUE, size, m)
          BY <2>1, <2>2
        <4>2. /\ Feed(d, Marker) = [dec |-> Holding(<<>>, FALSE, 0, m), frames |-> <<frame>>]
              /\ SliceStep(d, Marker) = [dec |-> Holding(<<>>, FALSE, 0, m), frames |-> <<frame>>]
          <5>1. /\ t \in Seq(Byte) /\ size \in Nat /\ size # 0 /\ Len(t) = size
                /\ Parse(t) = frame /\ frame # FrameError
            BY <1>1, <2>3, <3>1, <3>2
          <5>2. \A x : x = Holding(t, TRUE, size, m) =>
                   LET heard == [dec |-> Holding(<<>>, FALSE, 0, m), frames |-> <<Parse(t)>>]
                   IN  Feed(x, Marker) = heard /\ SliceStep(x, Marker) = heard
            BY ONLY <5>1, HearsEnd
          <5> QED BY <4>1, <5>1, <5>2
        <4> QED BY <3>1, <4>2
      <3>4. s.dec = Holding(<<>>, FALSE, 0, m) /\ s.frames = <<frame>>
        BY <3>3
      <3> QED BY <3>1, <3>4 DEF HeardNext, Reading
    <2>5. CASE o # size + 1
      <3>1. o + 1 < Len(e) /\ ~(o + 1 = Len(e)) /\ Len(t) < size /\ 2 <= o + 1 /\ Len(t) # 0
        BY <1>1, <2>1, <2>3, <2>5
      <3>2. t # <<>>
        BY <3>1
      <3>3. s = Stays(Holding(Append(t, e[o + 1]), TRUE, size, m))
        <4>1. /\ t \in Seq(Byte) /\ size \in Nat /\ t # <<>> /\ Len(t) < size
              /\ d = Holding(t, TRUE, size, m)
          BY <1>1, <2>1, <2>2, <2>3, <3>1, <3>2
        <4>2. \A byte : /\ Feed(d, byte) = Stays(Holding(Append(t, byte), TRUE, size, m))
                        /\ SliceStep(d, byte) = Stays(Holding(Append(t, byte), TRUE, size, m))
          BY ONLY <4>1, HearsBody
        <4> QED BY <4>2
      <3>4. Reading(s.dec, e, o + 1, m)
        BY <1>1, <1>2, <2>3, <3>1, <3>3 DEF Reading
      <3> QED BY <1>2, <3>1, <3>3, <3>4 DEF HeardNext
    <2> QED BY <2>4, <2>5
  <1> QED BY <1>3, <1>4, <1>5

(* The bytes of every frame, and where they end on the line. *)
SentBytes == [i \in 1 .. Len(SentFrames) |-> Encode(SentFrames[i])]
LEMMA LinePlaces ==
    /\ Len(SentFrames) \in Nat /\ Len(SentFrames) # 0 /\ Len(SentBytes) = Len(SentFrames)
    /\ IsEnds(FrameEnd, SentBytes) /\ Placed(LineBytes, SentBytes, FrameEnd, Len(SentFrames))
  <1>1. /\ Len(SentFrames) \in Nat \ {0} /\ FrameEnd[0] = 0
        /\ \A i \in 1 .. Len(SentFrames) : FrameEnd[i] = FrameEnd[i - 1] + FrameSize[i]
        /\ \A i \in 0 .. Len(SentFrames) : FrameEnd[i] \in Nat
    BY FrameEnds
  <1>2. \A i \in 1 .. Len(SentFrames) :
            Encode(SentFrames[i]) \in Seq(Byte) /\ Len(Encode(SentFrames[i])) = FrameSize[i]
    BY EncodeShape DEF Enclosed
  <1>3. SentBytes \in Seq(Seq(Byte)) /\ Len(SentBytes) = Len(SentFrames)
    BY <1>1, <1>2 DEF SentBytes
  <1>4. \A i \in 1 .. Len(SentFrames) : SentBytes[i] = Encode(SentFrames[i])
    BY DEF SentBytes
  <1>5. SentBytes # <<>>
    BY <1>1, <1>3
  <1>6. IsEnds(FrameEnd, SentBytes)
    BY <1>1, <1>2, <1>3, <1>4 DEF IsEnds
  <1>7. LineBytes = FlattenSeq(SentBytes)
    BY DEF LineBytes, Concat, SentBytes
  <1> QED BY <1>1, <1>3, <1>5, <1>6, <1>7, ConcatPlaced

(* The items of the line are numbers. *)
LEMMA LineItems ==
    ASSUME kind \in Lines
    PROVE  /\ Items = Numbered(Len(SentFrames)) /\ Items \in Seq(Int) /\ Distinct(Items)
           /\ Len(Items) = Len(SentFrames) /\ \A i \in 1 .. Len(SentFrames) : Items[i] = i
  <1>1. Items = Numbered(Len(SentFrames))
    BY DEF Items, Lines
  <1>2. PICK n \in Nat : n = Len(SentFrames)
    BY LinePlaces
  <1>3. PICK s : s = Numbered(n)
    OBVIOUS
  <1>4. s \in Seq(Int) /\ Len(s) = n /\ \A i \in 1 .. n : s[i] = i
    BY <1>3 DEF Numbered
  <1>5. Distinct(s)
    BY <1>4 DEF Distinct
  <1> QED BY <1>1, <1>2, <1>3, <1>4, <1>5

(* After k frames and o bytes of the next the decoder has given the k      *)
(* frames and reads the next.                                              *)
LineAt(k, o) ==
    /\ k \in Nat /\ k <= Len(SentFrames) /\ o \in Nat /\ at = FrameEnd[k] + o /\ UpTo(Items, k)
    /\ IF k = Len(SentFrames) THEN o = 0 /\ rx = Holding(<<>>, FALSE, 0, 0)
       ELSE o < Len(SentBytes[k + 1]) /\ Reading(rx, SentBytes[k + 1], o, 0)
LineTold == kind \in Lines => out \in Seq(Int) /\ \E k, o : LineAt(k, o)

(* A frame of the line has one number. *)
LEMMA NumberOfFrame ==
    ASSUME NEW k \in 1 .. Len(SentFrames)
    PROVE  NumberOf(SentFrames[k], SentFrames) = k
  <1>1. \A i, j \in 1 .. Len(SentFrames) : SentFrames[i] = SentFrames[j] => i = j
    <2>1. IsInjective(SentFrames) /\ DOMAIN SentFrames = 1 .. Len(SentFrames)
      BY LineAssumption
    <2> QED BY <2>1 DEF IsInjective
  <1> QED BY <1>1 DEF NumberOf

(* Every byte of the line, without a fault, gives a frame or is part of    *)
(* one.                                                                    *)
LEMMA LineByteTells ==
    ASSUME LengthsTold, LineTold, kind \in Lines, LineByte
    PROVE  LineTold' /\ Delivers
  <1>1. PICK k, o : LineAt(k, o)
    BY DEF LineTold
  <1>2. PICK n \in Nat : n = Len(SentFrames) /\ n # 0
    BY LinePlaces
  <1>3. /\ k \in Nat /\ k <= n /\ o \in Nat /\ at = FrameEnd[k] + o /\ UpTo(Items, k)
        /\ k = n => o = 0
        /\ k # n => o < Len(SentBytes[k + 1]) /\ Reading(rx, SentBytes[k + 1], o, 0)
    BY <1>1, <1>2 DEF LineAt
  <1>a. o \in Nat /\ at = FrameEnd[k] + o
    BY <1>3
  <1>4. /\ Bytes = LineBytes /\ at < Len(LineBytes) /\ Hears(LineBytes[at + 1], 1)
        /\ kind' = kind /\ case' = case
    <2>1. Bytes = LineBytes /\ Total = Len(LineBytes)
      BY LineIsSent
    <2> QED BY <2>1 DEF LineByte
  <1>5. /\ Placed(LineBytes, SentBytes, FrameEnd, n) /\ IsEnds(FrameEnd, SentBytes)
        /\ Len(SentBytes) = n
    BY <1>2, LinePlaces
  <1>6. PICK a \in Nat, b \in Nat : a = FrameEnd[k] /\ b = FrameEnd[n] /\ Len(LineBytes) = b
    <2>1. k \in 0 .. n /\ n \in 0 .. n
      BY <1>3
    <2> QED BY <1>5, <2>1 DEF IsEnds, Placed
  <1>7. k # n
    <2>1. SUFFICES ASSUME k = n PROVE FALSE
      OBVIOUS
    <2> QED BY <1>3, <1>4, <1>6, <2>1
  <1>8. k + 1 \in 1 .. n /\ k + 1 \in Nat /\ (k + 1) - 1 = k /\ k + 1 <= n
    BY <1>3, <1>7
  <1>9. PICK e, frame, size : e = SentBytes[k + 1] /\ frame = SentFrames[k + 1] /\ Sends(e, frame, size)
    <2>1. SentBytes[k + 1] = Encode(SentFrames[k + 1])
      BY <1>2, <1>8 DEF SentBytes
    <2> QED BY <1>2, <1>8, <2>1, EncodeSends
  <1>10. o < Len(e) /\ Reading(rx, e, o, 0) /\ e \in Seq(Byte) /\ Len(e) \in Nat
    BY <1>3, <1>7, <1>9 DEF Sends
  <1>b. o < Len(e) /\ Len(e) \in Nat
    BY <1>10
  <1>11. LineBytes[at + 1] = e[o + 1]
    <2>1. o + 1 \in 1 .. Len(e) /\ at + 1 = a + (o + 1)
      BY <1>6, <1>a, <1>b
    <2>2. \A j \in 1 .. Len(e) : LineBytes[a + j] = e[j]
      BY <1>5, <1>6, <1>8, <1>9 DEF Placed
    <2> QED BY <2>1, <2>2
  <1>12. PICK s : /\ s \in {Feed(rx, e[o + 1]), SliceStep(rx, e[o + 1])} /\ rx' = s.dec
                  /\ out' = out \o [i \in 1 .. Len(s.frames) |-> NumberOf(s.frames[i], SentFrames)]
                  /\ at' = at + 1
    BY <1>4, <1>11 DEF Hears
  <1>13. HeardNext(s, e, o, frame, 0)
    BY <1>3, <1>9, <1>10, <1>12, HearsNext
  <1>14. /\ Items' = Items /\ Items \in Seq(Int) /\ Distinct(Items) /\ Len(Items) = n
         /\ \A i \in 1 .. n : Items[i] = i
    <2>1. Items' = Items
      BY <1>4 DEF Items
    <2> QED BY <1>2, <2>1, LineItems
  <1>15. out \in Seq(Int) /\ kind # "ota" /\ kind' # "ota"
    BY <1>4 DEF LineTold, Lines
  <1>16. CASE o + 1 # Len(e)
    <2>1. o + 1 < Len(e) /\ o + 1 \in Nat
      BY <1>3, <1>10, <1>16
    <2>2. s.frames = <<>> /\ Reading(rx', e, o + 1, 0)
      BY <1>12, <1>13, <2>1 DEF HeardNext
    <2>3. out' = out
      <3>1. [i \in 1 .. Len(s.frames) |-> NumberOf(s.frames[i], SentFrames)] = <<>>
        BY <2>2
      <3>2. out \o <<>> = out
        BY <1>15
      <3> QED BY <1>12, <3>1, <3>2
    <2>4. NotYet' = NotYet
      BY <1>4, <1>14, <2>3 DEF NotYet
    <2>5. at' = FrameEnd[k] + (o + 1)
      BY <1>6, <1>12, <1>a
    <2>6. UpTo(Items, k)'
      BY <1>3, <1>14, <2>3 DEF UpTo
    <2>7. LineAt(k, o + 1)'
      BY <1>2, <1>3, <1>7, <1>9, <2>1, <2>2, <2>5, <2>6 DEF LineAt
    <2>8. LineTold'
      BY <1>15, <2>3, <2>7 DEF LineTold
    <2> QED BY <1>4, <2>3, <2>4, <2>8, SilentStep
  <1>17. CASE o + 1 = Len(e)
    <2>1. s.frames = <<frame>> /\ Reading(rx', e, 0, 0)
      BY <1>12, <1>13, <1>17 DEF HeardNext
    <2>2. PICK r \in Nat : r = k + 1 /\ r - 1 = k /\ k < r
      BY <1>8
    <2>3. NumberOf(frame, SentFrames) = r
      BY <1>2, <1>8, <1>9, <2>2, NumberOfFrame
    <2>4. out' = out \o <<r>>
      <3>1. [i \in 1 .. Len(s.frames) |-> NumberOf(s.frames[i], SentFrames)] = <<r>>
        BY <2>1, <2>3
      <3> QED BY <1>12, <3>1
    <2>a. PICK items : items = Items
      OBVIOUS
    <2>b. /\ items' = items /\ items \in Seq(Int) /\ Distinct(items) /\ Len(items) = n
          /\ \A i \in 1 .. n : items[i] = i
      BY <1>14, <2>a
    <2>5. SubSeq(items, k + 1, r) = <<r>>
      <3>1. items[r] = r
        BY <1>8, <2>2, <2>b
      <3>2. SubSeq(items, r, r) = <<items[r]>>
        BY <1>8, <2>2, <2>b, Alone
      <3> QED BY <2>2, <3>1, <3>2
    <2>6. out' = out \o SubSeq(items, k + 1, r) /\ k < r /\ r <= Len(items)
      BY <1>8, <2>2, <2>4, <2>5, <2>b
    <2>7. PICK told : told = out'
      OBVIOUS
    <2>8. Ended(told, items[r])
      BY <1>3, <1>15, <2>2, <2>6, <2>7, <2>b, LastHanded
    <2>9. UpTo(Items, r)'
      <3>1. told # <<>> /\ told[Len(told)] = items[r]
        BY <2>8 DEF Ended
      <3>2. r # 0
        BY <1>3, <2>2
      <3> QED BY <1>14, <2>2, <2>6, <2>7, <2>a, <3>1, <3>2 DEF UpTo
    <2>10. NotYet = Behind(items, k)
      BY <1>3, <1>15, <2>a, <2>b, LeftToSend
    <2>11. NotYet' = Behind(items, r)
      <3>1. NumberOf(items[r], items) = r
        <4>1. r \in 1 .. Len(items)
          BY <1>8, <2>2, <2>b
        <4> QED BY <2>b, <4>1 DEF NumberOf, Distinct
      <3>2. out' # <<>> /\ out'[Len(out')] = items[r]
        BY <2>7, <2>8 DEF Ended
      <3> QED BY <1>14, <1>15, <2>a, <3>1, <3>2 DEF NotYet, Behind
    <2>12. Delivers
      <3>1. k \in Nat /\ k <= k
        BY <1>3
      <3> QED BY <1>4, <1>15, <2>2, <2>6, <2>10, <2>11, <2>b, <3>1, DeliverStep
    <2>13. at' = FrameEnd[r] + 0 /\ rx' = Holding(<<>>, FALSE, 0, 0)
      <3>1. FrameEnd[r] = a + Len(e)
        BY <1>5, <1>6, <1>8, <1>9, <2>2 DEF IsEnds
      <3>2. rx' = Holding(<<>>, FALSE, 0, 0)
        BY <2>1 DEF Reading
      <3>3. at' = at + 1
        BY <1>12
      <3>4. at + 1 = (a + Len(e)) + 0
        BY <1>6, <1>17, <1>a, <1>b
      <3> QED BY <3>1, <3>2, <3>3, <3>4
    <2>14. r # n => 0 < Len(SentBytes[r + 1]) /\ Reading(rx', SentBytes[r + 1], 0, 0)
      <3>1. SUFFICES ASSUME r # n PROVE 0 < Len(SentBytes[r + 1]) /\ Reading(rx', SentBytes[r + 1], 0, 0)
        OBVIOUS
      <3>2. r + 1 \in 1 .. n
        BY <1>8, <2>2, <3>1
      <3>3. SentBytes[r + 1] = Encode(SentFrames[r + 1])
        BY <1>2, <3>2 DEF SentBytes
      <3>4. PICK f, size_1 : Sends(SentBytes[r + 1], f, size_1)
        BY <1>2, <3>2, <3>3, EncodeSends
      <3>5. 0 < Len(SentBytes[r + 1])
        BY <3>4 DEF Sends
      <3> QED BY <2>13, <3>5 DEF Reading
    <2>15. LineAt(r, 0)'
      BY <1>2, <1>8, <2>2, <2>9, <2>13, <2>14 DEF LineAt
    <2>16. LineTold'
      <3>1. told \in Seq(Int)
        BY <2>8 DEF Ended
      <3> QED BY <2>7, <2>15, <3>1 DEF LineTold
    <2> QED BY <2>12, <2>16
  <1> QED BY <1>16, <1>17

(* The steps of a line without faults.                                     *)
LEMMA LineTells ==
    ASSUME LengthsTold, LineTold, kind \in Lines, [Next]_vars, faults' = 0
    PROVE  LineTold' /\ Delivers
  <1>1. CASE UNCHANGED vars
    <2>1. kind' = kind /\ out' = out /\ rx' = rx /\ at' = at /\ case' = case
      BY <1>1 DEF vars
    <2>2. Items' = Items /\ NotYet' = NotYet
      BY <2>1 DEF Items, NotYet
    <2>3. PICK k, o : LineAt(k, o)
      BY DEF LineTold
    <2>4. LineAt(k, o)'
      BY <2>1, <2>2, <2>3 DEF LineAt, UpTo
    <2> QED BY <2>1, <2>2, <2>4, SilentStep DEF LineTold
  <1>2. CASE LineByte
    BY <1>2, LineByteTells
  <1>3. CASE ByteLost \/ ByteFlipped \/ ByteAdded
    <2>1. faults' = 1
      BY <1>3 DEF ByteLost, ByteFlipped, ByteAdded, LineFaulty
    <2> QED BY <2>1
  <1>4. CASE \/ ConnackReads \/ SubscribeReads \/ RecvReads \/ RecvProcesses \/ AckSent
             \/ ConnackTimesOut \/ SubscribeTimesOut \/ RecvEnds \/ AckFails \/ RecvCancelled
    BY <1>4, ClientKeepsKind
  <1>5. CASE DownloadReads \/ DownloadEnds \/ DownloadCut
    <2>1. kind = "ota"
      BY <1>5 DEF DownloadReads, DownloadEnds, DownloadCut, Download
    <2> QED BY <2>1 DEF Lines
  <1>6. CASE Logs \/ LogsPublished
    <2>1. kind = "log"
      BY <1>6 DEF Logs, LogsPublished
    <2> QED BY <2>1 DEF Lines
  <1>7. CASE \/ CheckStart \/ UartReads \/ SniffModeEnds \/ SniffPublished \/ HostShows
             \/ SniffCommand \/ SniffPublishFails
    BY <1>7, CaptureKeepsKind
  <1> QED BY <1>1, <1>2, <1>3, <1>4, <1>5, <1>6, <1>7 DEF Next, Step, Fault

-----------------------------------------------------------------------------
(* The client hands on what is published, in order.                        *)

(* The first length byte without the high bit, and the length it ends.     *)
ClosesAt(buf, k) == k + 1 <= Len(buf) /\ buf[k + 1] < 128
FirstCloses(buf, k) == k \in 1 .. 5 /\ ClosesAt(buf, k) /\ \A j \in 1 .. 5 : j < k => ~ClosesAt(buf, j)
Digit(buf, j, k) == IF j <= k THEN (buf[j + 1] % 128) * 128 ^ (j - 1) ELSE 0
LengthAt(buf, k) ==
    [is |-> "length", header |-> k + 1,
     value |-> Digit(buf, 1, k) + Digit(buf, 2, k) + Digit(buf, 3, k) + Digit(buf, 4, k)
                 + Digit(buf, 5, k)]
LEMMA DecodesAt ==
    ASSUME NEW buf, NEW k, FirstCloses(buf, k)
    PROVE  DecodeRemainingLength(buf) = LengthAt(buf, k)
  <1> DEFINE Closed == {i \in 1 .. 5 : i + 1 <= Len(buf) /\ buf[i + 1] < 128}
  <1>1. Closed # {} /\ k \in Closed
    BY DEF FirstCloses, ClosesAt
  <1>2. (CHOOSE i \in Closed : \A j \in Closed : i <= j) = k
    <2>1. \A j \in Closed : k <= j
      BY DEF FirstCloses, ClosesAt
    <2>2. \A i \in Closed : (\A j \in Closed : i <= j) => i = k
      <3>1. \A i \in Closed : i \in Nat
        OBVIOUS
      <3> HIDE DEF Closed
      <3> QED BY <1>1, <2>1, <3>1
    <2> HIDE DEF Closed
    <2> QED BY <1>1, <2>1, <2>2
  <1>3. DecodeRemainingLength(buf) =
          IF Closed = {} THEN Incomplete
          ELSE LengthAt(buf, CHOOSE i \in Closed : \A j \in Closed : i <= j)
    BY Zenon DEF DecodeRemainingLength, LengthAt, Digit
  <1> HIDE DEF Closed
  <1> QED BY <1>1, <1>2, <1>3
(* Without such a byte the length is not complete.                         *)
LEMMA DecodesNothing ==
    ASSUME NEW buf, \A j \in 1 .. 5 : ~ClosesAt(buf, j)
    PROVE  DecodeRemainingLength(buf) = Incomplete
  BY DEF DecodeRemainingLength, ClosesAt
(* A complete length has such a byte.                                      *)
LEMMA SomeCloses ==
    ASSUME NEW buf, DecodeRemainingLength(buf) # Incomplete
    PROVE  \E k : FirstCloses(buf, k)
  <1> DEFINE I == {j \in 1 .. 5 : ClosesAt(buf, j)}
  <1>1. I \in SUBSET Nat /\ I # {} /\ \A j : j \in I <=> j \in 1 .. 5 /\ ClosesAt(buf, j)
    BY DecodesNothing
  <1> HIDE DEF I
  <1>2. PICK k \in I : \A j \in I : k <= j
    BY <1>1, LeastIsThere
  <1>3. \A j \in 1 .. 5 : j < k => ~(k <= j)
    BY <1>1
  <1> QED BY <1>1, <1>2, <1>3 DEF FirstCloses

(* The start of a buffer is a packet, or the start of one.                 *)
StartsWith(b, p) ==
    /\ b \in Seq(Byte) /\ p \in Seq(Byte) /\ IsPacket(p)
    /\ \A i \in 1 .. Len(p) : i <= Len(b) => b[i] = p[i]
Extracts(b, p) ==
    /\ p # <<>>
    /\ Len(b) >= Len(p) => /\ TryExtractPacket(b).packet = p
                           /\ TryExtractPacket(b).left = SubSeq(b, Len(p) + 1, Len(b))
    /\ Len(b) < Len(p) => TryExtractPacket(b).packet = <<>> /\ TryExtractPacket(b).left = b
(* A whole packet is taken from the buffer, part of one is left there      *)
(* (try_extract_packet).                                                   *)
LEMMA PacketExtracted ==
    ASSUME NEW b, NEW p, StartsWith(b, p)
    PROVE  Extracts(b, p)
  <1>1. /\ b \in Seq(Byte) /\ p \in Seq(Byte) /\ Len(b) \in Nat /\ Len(p) \in Nat
        /\ \A i \in 1 .. Len(p) : i <= Len(b) => b[i] = p[i]
        /\ DecodeRemainingLength(p) # Incomplete
        /\ Len(p) = DecodeRemainingLength(p).header + DecodeRemainingLength(p).value
    BY DEF StartsWith, IsPacket
  <1>2. PICK k : FirstCloses(p, k)
    BY <1>1, SomeCloses
  <1>3. /\ k \in 1 .. 5 /\ k + 1 <= Len(p) /\ p[k + 1] < 128
        /\ \A j \in 1 .. 5 : j < k => ~(j + 1 <= Len(p) /\ p[j + 1] < 128)
    BY <1>2 DEF FirstCloses, ClosesAt
  <1>4. p # <<>>
    BY <1>1, <1>3
  <1>5. \A j \in 1 .. 5 : j <= k /\ j + 1 <= Len(b) => b[j + 1] = p[j + 1] /\ j + 1 <= Len(p)
    <2> TAKE j \in 1 .. 5
    <2>1. j <= k => j + 1 \in 1 .. Len(p)
      BY <1>1, <1>3
    <2> QED BY <1>1, <2>1
  <1>6. CASE k + 1 <= Len(b)
    <2>1. FirstCloses(b, k)
      <3>1. ClosesAt(b, k)
        BY <1>3, <1>5, <1>6 DEF ClosesAt
      <3>2. \A j \in 1 .. 5 : j < k => ~ClosesAt(b, j)
        BY <1>3, <1>5 DEF ClosesAt
      <3> QED BY <1>3, <3>1, <3>2 DEF FirstCloses
    <2>2. LengthAt(b, k) = LengthAt(p, k)
      <3>1. \A j \in 1 .. 5 : Digit(b, j, k) = Digit(p, j, k)
        <4> TAKE j \in 1 .. 5
        <4>1. CASE j <= k
          <5>1. j + 1 <= Len(b)
            BY <1>1, <1>3, <1>6, <4>1
          <5>2. b[j + 1] = p[j + 1]
            BY <1>5, <4>1, <5>1
          <5> QED BY <5>2 DEF Digit
        <4>2. CASE ~(j <= k)
          BY <4>2 DEF Digit
        <4> QED BY <4>1, <4>2
      <3>2. 1 \in 1 .. 5 /\ 2 \in 1 .. 5 /\ 3 \in 1 .. 5 /\ 4 \in 1 .. 5 /\ 5 \in 1 .. 5
        OBVIOUS
      <3>3. /\ Digit(b, 1, k) = Digit(p, 1, k) /\ Digit(b, 2, k) = Digit(p, 2, k)
            /\ Digit(b, 3, k) = Digit(p, 3, k) /\ Digit(b, 4, k) = Digit(p, 4, k)
            /\ Digit(b, 5, k) = Digit(p, 5, k)
        BY <3>1, <3>2
      <3> QED BY <3>3 DEF LengthAt
    <2>3. PICK size : size = DecodeRemainingLength(p)
      OBVIOUS
    <2>4. DecodeRemainingLength(b) = size /\ size # Incomplete
      BY <1>1, <1>2, <2>1, <2>2, <2>3, DecodesAt
    <2>5. size.header + size.value = Len(p)
      BY <1>1, <2>3
    <2>6. TryExtractPacket(b) =
            IF Len(b) >= Len(p)
            THEN [packet |-> SubSeq(b, 1, Len(p)), left |-> SubSeq(b, Len(p) + 1, Len(b))]
            ELSE [packet |-> <<>>, left |-> b]
      BY <2>4, <2>5, Zenon DEF TryExtractPacket
    <2>7. CASE Len(b) >= Len(p)
      <3>1. SubSeq(b, 1, Len(p)) = p
        <4>1. PICK z \in Nat, m \in Nat : z = 0 /\ m = Len(p) /\ z + 1 = 1 /\ z + m = m
          BY <1>1
        <4>2. PICK t : t = SubSeq(b, z + 1, z + m)
          OBVIOUS
        <4>3. Stretch(t, Byte, b, z, m)
          BY <1>1, <2>7, <4>1, <4>2, Cut
        <4>4. t \in Seq(Byte) /\ Len(t) = Len(p) /\ \A i \in 1 .. Len(p) : t[i] = b[i]
          BY <4>1, <4>3 DEF Stretch
        <4>5. \A i \in 1 .. Len(p) : t[i] = p[i]
          BY <1>1, <2>7, <4>4
        <4>6. p \in Seq(Byte)
          BY <1>1
        <4>7. t = p
          BY ONLY <4>4, <4>5, <4>6, SeqEqual
        <4> QED BY <4>1, <4>2, <4>7
      <3>2. ~(Len(b) < Len(p))
        BY <1>1, <2>7
      <3> QED BY <1>4, <2>6, <2>7, <3>1, <3>2 DEF Extracts
    <2>8. CASE ~(Len(b) >= Len(p))
      BY <1>4, <2>6, <2>8 DEF Extracts
    <2> QED BY <2>7, <2>8
  <1>7. CASE ~(k + 1 <= Len(b))
    <2>1. \A j \in 1 .. 5 : ~ClosesAt(b, j)
      <3> TAKE j \in 1 .. 5
      <3>1. SUFFICES ASSUME ClosesAt(b, j) PROVE FALSE
        OBVIOUS
      <3>2. j + 1 <= Len(b) /\ b[j + 1] < 128
        BY <3>1 DEF ClosesAt
      <3>3. j < k
        BY <1>1, <1>3, <1>7, <3>2
      <3> QED BY <1>3, <1>5, <3>2, <3>3
    <2>2. DecodeRemainingLength(b) = Incomplete
      BY <2>1, DecodesNothing
    <2>3. TryExtractPacket(b) = [packet |-> <<>>, left |-> b]
      BY <2>2 DEF TryExtractPacket
    <2>4. ~(Len(b) >= Len(p))
      BY <1>1, <1>3, <1>7
    <2> QED BY <1>4, <2>3, <2>4 DEF Extracts
  <1> QED BY <1>6, <1>7
(* An empty buffer holds no packet.                                        *)
LEMMA NothingExtracted == TryExtractPacket(<<>>).packet = <<>>
  <1>1. \A j \in 1 .. 5 : ~ClosesAt(<<>>, j)
    BY DEF ClosesAt
  <1>2. DecodeRemainingLength(<<>>) = Incomplete
    BY <1>1, DecodesNothing
  <1> QED BY <1>2 DEF TryExtractPacket

(* Where the packets of a connection end. *)
PacketEnds(c) == CHOOSE ends : IsEnds(ends, c)
LEMMA PacketPlaces ==
    ASSUME NEW c \in PacketCases
    PROVE  /\ c \in Seq(Seq(Byte)) /\ Len(c) \in Nat /\ Len(c) # 0 /\ IsEnds(PacketEnds(c), c)
           /\ Placed(PacketBytes[c], c, PacketEnds(c), Len(c)) /\ PacketEnds(c)[1] = 4
           /\ \A k \in 1 .. Len(c) : c[k] \in Seq(Byte) /\ IsPacket(c[k])
  <1>1. c \in Seq(Seq(Byte)) /\ c # <<>> /\ Len(c[1]) = 4 /\ \A i \in 1 .. Len(c) : IsPacket(c[i])
    BY PacketAssumption
  <1>2. PICK n \in Nat : n = Len(c) /\ n # 0 /\ \A k \in 1 .. n : c[k] \in Seq(Byte)
    <2>1. Len(c) \in Nat /\ Len(c) # 0 /\ \A k \in 1 .. Len(c) : c[k] \in Seq(Byte)
      BY <1>1
    <2> QED BY <2>1
  <1> DEFINE step == [k \in 1 .. n |-> [b \in Nat |-> b + Len(c[k])]]
  <1>3. step \in [1 .. n -> [Nat -> Nat]]
    <2>1. \A k \in 1 .. n, b \in Nat : b + Len(c[k]) \in Nat
      BY <1>2
    <2> QED BY <2>1
  <1>4. PICK f : Iterates(f, Nat, 0, n, step)
    <2> HIDE DEF step
    <2>1. 0 \in Nat
      OBVIOUS
    <2> QED BY <1>3, <2>1, Iterated
  <1>5. IsEnds(f, c)
    <2>1. \A k \in 1 .. n : f[k] = f[k - 1] + Len(c[k])
      <3> TAKE k \in 1 .. n
      <3>1. f[k - 1] \in Nat
        BY <1>4 DEF Iterates
      <3> QED BY <1>4, <3>1 DEF Iterates
    <2> QED BY <1>2, <1>4, <2>1 DEF IsEnds, Iterates
  <1>6. IsEnds(PacketEnds(c), c)
    BY <1>5 DEF PacketEnds
  <1>7. PacketBytes[c] = FlattenSeq(c)
    BY DEF PacketBytes, Concat
  <1>8. Placed(PacketBytes[c], c, PacketEnds(c), n)
    BY <1>1, <1>2, <1>6, <1>7, ConcatPlaced
  <1>9. PacketEnds(c)[1] = 4
    <2>1. 1 \in 1 .. Len(c) /\ 1 - 1 = 0
      BY <1>2
    <2>2. PacketEnds(c)[1] = PacketEnds(c)[0] + Len(c[1]) /\ PacketEnds(c)[0] = 0
      BY <1>6, <2>1 DEF IsEnds
    <2> QED BY <1>1, <2>2
  <1> QED BY <1>1, <1>2, <1>6, <1>8, <1>9

(* What was published before the k-th packet, and with it.                 *)
PublishSteps(f, c) ==
    f = [n \in 0 .. Len(c) |->
            IF n = 0 THEN <<>>
            ELSE IF ProcessPacket(c[n]).is = "publish" THEN Append(f[n - 1], ProcessPacket(c[n]))
            ELSE f[n - 1]]
Made(c) == {ProcessPacket(c[i]) : i \in 1 .. Len(c)}
LEMMA PublishedSteps ==
    ASSUME NEW c \in PacketCases
    PROVE  /\ PublishedBy(c)[0] = <<>> /\ \A k \in 0 .. Len(c) : PublishedBy(c)[k] \in Seq(Made(c))
           /\ \A k \in 1 .. Len(c) :
                PublishedBy(c)[k] = IF ProcessPacket(c[k]).is = "publish"
                                    THEN Append(PublishedBy(c)[k - 1], ProcessPacket(c[k]))
                                    ELSE PublishedBy(c)[k - 1]
  <1>1. PICK n \in Nat : n = Len(c)
    BY PacketPlaces
  <1> DEFINE S == Seq(Made(c))
             step == [k \in 1 .. n |-> [s \in S |->
                        IF ProcessPacket(c[k]).is = "publish" THEN Append(s, ProcessPacket(c[k])) ELSE s]]
  <1>2. step \in [1 .. n -> [S -> S]]
    <2>1. ASSUME NEW k \in 1 .. n, NEW s \in S PROVE Append(s, ProcessPacket(c[k])) \in S
      <3>1. ProcessPacket(c[k]) \in Made(c)
        BY <1>1 DEF Made
      <3> QED BY <3>1
    <2> HIDE DEF S
    <2> QED BY <2>1
  <1>3. PICK f : Iterates(f, S, <<>>, n, step)
    <2>1. <<>> \in S
      OBVIOUS
    <2> HIDE DEF step, S
    <2> QED BY <1>2, <2>1, Iterated
  <1> HIDE DEF S
  <1>4. PublishSteps(f, c)
    <2>1. \A k \in 0 .. n : k # 0 => k \in 1 .. n /\ k - 1 \in 0 .. n
      OBVIOUS
    <2>2. f \in [0 .. n -> S] /\ f[0] = <<>> /\ \A k \in 1 .. n : f[k] = step[k][f[k - 1]]
      BY <1>3 DEF Iterates
    <2>3. \A k \in 1 .. n : f[k] = IF ProcessPacket(c[k]).is = "publish"
                                   THEN Append(f[k - 1], ProcessPacket(c[k])) ELSE f[k - 1]
      <3> TAKE k \in 1 .. n
      <3>1. k \in 0 .. n /\ k # 0
        OBVIOUS
      <3>2. f[k - 1] \in S
        BY <2>1, <2>2, <3>1
      <3> QED BY <2>2, <3>2
    <2> HIDE DEF step
    <2>4. f = [k \in 0 .. n |-> IF k = 0 THEN <<>>
                                ELSE IF ProcessPacket(c[k]).is = "publish"
                                THEN Append(f[k - 1], ProcessPacket(c[k])) ELSE f[k - 1]]
      BY <2>1, <2>2, <2>3
    <2> QED BY <1>1, <2>4 DEF PublishSteps
  <1> DEFINE g == CHOOSE g : PublishSteps(g, c)
  <1>5. PublishSteps(g, c)
    BY <1>4
  <1>6. PublishedBy(c) = g
    BY DEF PublishedBy, PublishSteps
  <1> HIDE DEF g
  <1>7. 0 \in 0 .. n /\ \A k \in 1 .. n : k \in 0 .. n /\ k # 0
    OBVIOUS
  <1>8. g[0] = <<>> /\ \A k \in 1 .. n : g[k] = IF ProcessPacket(c[k]).is = "publish"
                                                THEN Append(g[k - 1], ProcessPacket(c[k])) ELSE g[k - 1]
    <2>1. g = [k \in 0 .. n |-> IF k = 0 THEN <<>>
                                ELSE IF ProcessPacket(c[k]).is = "publish"
                                THEN Append(g[k - 1], ProcessPacket(c[k])) ELSE g[k - 1]]
      BY <1>1, <1>5 DEF PublishSteps
    <2> QED BY <1>7, <2>1
  <1>9. \A k \in 0 .. n : g[k] \in S
    <2>1. g[0] \in S
      <3>1. <<>> \in S
        BY DEF S
      <3> QED BY <1>8, <3>1
    <2>2. \A k \in 1 .. n : g[k - 1] \in S => g[k] \in S
      <3> TAKE k \in 1 .. n
      <3>1. ProcessPacket(c[k]) \in Made(c)
        BY <1>1 DEF Made
      <3>2. \A s \in S : Append(s, ProcessPacket(c[k])) \in S
        BY <3>1 DEF S
      <3> QED BY <1>8, <3>2
    <2> QED BY <2>1, <2>2, StaysWithin
  <1> QED BY <1>1, <1>6, <1>8, <1>9 DEF S

(* Sequences that only grow. *)
LEMMA Grows ==
    ASSUME NEW S, NEW N \in Nat, NEW f, \A k \in 0 .. N : f[k] \in Seq(S),
           \A k \in 1 .. N : Extends(f[k], f[k - 1]), NEW n \in 0 .. N
    PROVE  Extends(f[N], f[n])
  <1> DEFINE Bad == {k \in 0 .. N : n <= k /\ ~Extends(f[k], f[n])}
  <1>1. SUFFICES ASSUME Bad # {} PROVE FALSE
    <2>1. N \in 0 .. N /\ n <= N
      OBVIOUS
    <2> QED BY <2>1 DEF Bad
  <1>2. Bad \in SUBSET Nat /\ \A k : k \in Bad <=> k \in 0 .. N /\ n <= k /\ ~Extends(f[k], f[n])
    OBVIOUS
  <1> HIDE DEF Bad
  <1>3. PICK k \in Bad : \A j \in Bad : k <= j
    BY <1>1, <1>2, LeastIsThere
  <1>4. k \in 0 .. N /\ n <= k /\ ~Extends(f[k], f[n])
    BY <1>2, <1>3
  <1>5. k # n
    <2>1. Extends(f[n], f[n])
      <3>1. f[n] \in Seq(S)
        OBVIOUS
      <3> QED BY <3>1 DEF Extends
    <2> QED BY <1>4, <2>1
  <1>6. k - 1 \in 0 .. N /\ n <= k - 1 /\ ~(k <= k - 1) /\ k \in 1 .. N
    BY <1>4, <1>5
  <1>7. Extends(f[k - 1], f[n]) /\ Extends(f[k], f[k - 1])
    BY <1>2, <1>3, <1>6
  <1>8. PICK x \in Seq(S), y \in Seq(S), z \in Seq(S) : x = f[n] /\ y = f[k - 1] /\ z = f[k]
    BY <1>4, <1>6
  <1>9. Extends(z, x)
    <2>1. Extends(y, x) /\ Extends(z, y) /\ Len(x) \in Nat /\ Len(y) \in Nat /\ Len(z) \in Nat
      BY <1>7, <1>8
    <2> QED BY <2>1 DEF Extends
  <1> QED BY <1>4, <1>8, <1>9

(* A message that is published has a number behind those before it.        *)
PublishedTo(c, k) == Len(PublishedBy(c)[k])
LEMMA PublishedCounts ==
    ASSUME NEW c \in PacketCases
    PROVE  /\ \A k \in 0 .. Len(c) : PublishedTo(c, k) \in Nat
                                     /\ PublishedTo(c, k) <= Len(Publishes[c])
           /\ Len(Publishes[c]) \in Nat
           /\ \A k \in 0 .. Len(c) : Extends(Publishes[c], PublishedBy(c)[k])
           /\ \A k \in 1 .. Len(c) : PublishedTo(c, k - 1) <= PublishedTo(c, k)
  <1>1. PICK n \in Nat : n = Len(c)
    BY PacketPlaces
  <1>2. PICK f, S : f = PublishedBy(c) /\ S = Made(c)
    OBVIOUS
  <1>3. \A k \in 0 .. n : f[k] \in Seq(S)
    BY <1>1, <1>2, PublishedSteps
  <1>4. \A k \in 1 .. n : Extends(f[k], f[k - 1])
    <2> TAKE k \in 1 .. n
    <2>1. PICK x : x = ProcessPacket(c[k])
      OBVIOUS
    <2>2. x \in S
      BY <1>1, <1>2, <2>1 DEF Made
    <2>3. k - 1 \in 0 .. n
      OBVIOUS
    <2>4. PICK g \in Seq(S) : g = f[k - 1]
      BY <1>3, <2>3
    <2>5. f[k] \in {g, Append(g, x)}
      BY <1>1, <1>2, <2>1, <2>4, PublishedSteps
    <2>6. Extends(g, g) /\ Extends(Append(g, x), g)
      BY <2>2 DEF Extends
    <2> QED BY <2>4, <2>5, <2>6
  <1>5. \A k \in 0 .. n : Extends(f[n], f[k])
    BY <1>3, <1>4, Grows
  <1>6. Publishes[c] = f[n]
    BY <1>1, <1>2 DEF Publishes
  <1>7. \A k \in 0 .. n : Len(f[k]) \in Nat /\ Len(f[k]) <= Len(f[n])
    <2> TAKE k \in 0 .. n
    <2>1. f[k] \in Seq(S) /\ Extends(f[n], f[k])
      BY <1>3, <1>5
    <2> QED BY <2>1 DEF Extends
  <1>8. n \in 0 .. n
    OBVIOUS
  <1>9. \A k \in 1 .. n : Len(f[k - 1]) <= Len(f[k])
    BY <1>4 DEF Extends
  <1> QED BY <1>1, <1>2, <1>5, <1>6, <1>7, <1>8, <1>9 DEF PublishedTo
(* The number of a message counts those published with it.                 *)
LEMMA PublishNumbered ==
    ASSUME NEW c \in PacketCases, NEW k \in 1 .. Len(c), ProcessPacket(c[k]).is = "publish"
    PROVE  /\ NumberOf(ProcessPacket(c[k]), Publishes[c]) = PublishedTo(c, k)
           /\ PublishedTo(c, k) = PublishedTo(c, k - 1) + 1
  <1>1. PICK n \in Nat : n = Len(c)
    BY PacketPlaces
  <1>2. PICK m : m = ProcessPacket(c[k])
    OBVIOUS
  <1>3. k \in 0 .. n /\ k - 1 \in 0 .. n
    BY <1>1
  <1>4. PICK g \in Seq(Made(c)), h \in Seq(Made(c)) : g = PublishedBy(c)[k - 1] /\ h = PublishedBy(c)[k]
    BY <1>1, <1>3, PublishedSteps
  <1>5. h = Append(g, m)
    BY <1>2, <1>4, PublishedSteps
  <1>6. m \in Made(c)
    BY <1>2 DEF Made
  <1>7. PICK r \in Nat : r = Len(g) + 1 /\ Len(h) = r /\ h[r] = m /\ r # 0
    <2>1. Len(g) + 1 \in Nat /\ Len(h) = Len(g) + 1 /\ h[Len(g) + 1] = m /\ Len(g) + 1 # 0
      BY <1>5, <1>6
    <2> QED BY <2>1
  <1>8. PICK all : all = Publishes[c]
    OBVIOUS
  <1>9. Extends(all, h) /\ Len(all) \in Nat
    BY <1>1, <1>3, <1>4, <1>8, PublishedCounts
  <1>10. r \in 1 .. Len(all) /\ all[r] = m
    BY <1>7, <1>9 DEF Extends
  <1>11. \A i, j \in 1 .. Len(all) : all[i] = all[j] => i = j
    <2>1. IsInjective(all) /\ all \in Seq(Made(c))
      <3>1. n \in 0 .. n
        OBVIOUS
      <3>2. all = PublishedBy(c)[n]
        BY <1>1, <1>8 DEF Publishes
      <3>3. all \in Seq(Made(c))
        BY <1>1, <3>1, <3>2, PublishedSteps
      <3> QED BY <1>8, <3>3, PacketAssumption
    <2>2. DOMAIN all = 1 .. Len(all)
      BY <2>1
    <2> QED BY <2>1, <2>2 DEF IsInjective
  <1>12. NumberOf(m, all) = r
    BY <1>10, <1>11 DEF NumberOf
  <1> QED BY <1>2, <1>4, <1>7, <1>8, <1>12 DEF PublishedTo

(* What a packet is to the client (process_packets).                       *)
LEMMA ProcessKinds ==
    ASSUME NEW packet
    PROVE  LET made == ProcessPacket(packet)
           IN  made = Fatal \/ made = Handled \/ made.is = "publish"
  <1>1. \A topic, payload, id : Publish(topic, payload, id).is = "publish"
    BY DEF Publish
  <1>2. ParsePublish(packet) = Fatal
        \/ \E topic, payload, id : ParsePublish(packet) = Publish(topic, payload, id)
    BY Zenon DEF ParsePublish
  <1>3. ParsePublish(packet) = Fatal \/ ParsePublish(packet).is = "publish"
    BY <1>1, <1>2, Zenon
  <1>4. ProcessPacket(packet) \in {ParsePublish(packet), Fatal, Handled}
    BY DEF ProcessPacket
  <1> QED BY <1>3, <1>4, Zenon

(* What a buffer holds that starts with the packet behind the k-th.        *)
From(c, k, a) == SubSeq(PacketBytes[c], PacketEnds(c)[k] + 1, a)
Between(c, k, a) ==
    /\ k \in Nat /\ k <= Len(c) /\ a \in Nat /\ PacketEnds(c)[k] <= a /\ a <= Len(PacketBytes[c])
BufferSize(c, k, a) ==
    /\ From(c, k, a) \in Seq(Byte) /\ Len(From(c, k, a)) = a - PacketEnds(c)[k]
    /\ PacketEnds(c)[k] \in Nat /\ PacketBytes[c] \in Seq(Byte)
LEMMA BufferFits ==
    ASSUME NEW c \in PacketCases, NEW k, NEW a, Between(c, k, a)
    PROVE  BufferSize(c, k, a)
  <1>1. /\ PacketBytes[c] \in Seq(Byte) /\ IsEnds(PacketEnds(c), c)
    BY PacketPlaces DEF Placed
  <1>2. PICK e \in Nat, s \in Seq(Byte) : e = PacketEnds(c)[k] /\ s = PacketBytes[c]
    <2>1. k \in 0 .. Len(c)
      BY PacketPlaces DEF Between
    <2> QED BY <1>1, <2>1 DEF IsEnds
  <1>3. PICK m \in Nat : m = a - e /\ e + m = a
    <2>1. a - e \in Nat /\ e + (a - e) = a
      BY <1>2 DEF Between
    <2> QED BY <2>1
  <1>4. PICK t : t = SubSeq(s, e + 1, e + m)
    OBVIOUS
  <1>5. Stretch(t, Byte, s, e, m)
    BY <1>2, <1>3, <1>4, Cut DEF Between
  <1> QED BY <1>2, <1>3, <1>4, <1>5 DEF Stretch, BufferSize, From
(* It starts with the next packet, as far as it reaches.                   *)
LEMMA BufferStarts ==
    ASSUME NEW c \in PacketCases, NEW k, NEW a, Between(c, k, a), k < Len(c)
    PROVE  StartsWith(From(c, k, a), c[k + 1])
  <1>1. PICK n \in Nat : n = Len(c)
    BY PacketPlaces
  <1>2. k + 1 \in 1 .. n /\ (k + 1) - 1 = k /\ k \in 0 .. n /\ k \in Nat
    BY <1>1 DEF Between
  <1>3. PICK e \in Nat, s \in Seq(Byte), p \in Seq(Byte) :
            e = PacketEnds(c)[k] /\ s = PacketBytes[c] /\ p = c[k + 1]
    BY <1>1, <1>2, BufferFits, PacketPlaces DEF BufferSize
  <1>4. IsPacket(p) /\ \A j \in 1 .. Len(p) : s[e + j] = p[j]
    BY <1>1, <1>2, <1>3, PacketPlaces DEF Placed
  <1>5. PICK m \in Nat : m = a - e /\ e + m = a /\ e + m <= Len(s)
    <2>1. a - e \in Nat /\ e + (a - e) = a /\ a <= Len(s)
      BY <1>3 DEF Between
    <2> QED BY <2>1
  <1>6. PICK t : t = SubSeq(s, e + 1, e + m)
    OBVIOUS
  <1>7. Stretch(t, Byte, s, e, m)
    BY <1>5, <1>6, Cut
  <1>8. \A i \in 1 .. Len(p) : i <= Len(t) => t[i] = p[i]
    BY <1>4, <1>7 DEF Stretch
  <1>9. t \in Seq(Byte)
    BY <1>7 DEF Stretch
  <1>10. t = From(c, k, a)
    BY <1>3, <1>5, <1>6 DEF From
  <1>11. StartsWith(t, p)
    BY <1>4, <1>8, <1>9 DEF StartsWith
  <1> QED BY <1>3, <1>10, <1>11
(* A packet taken off leaves what follows it.                              *)
LEMMA BufferLeft ==
    ASSUME NEW c \in PacketCases, NEW k, NEW a, Between(c, k, a), k < Len(c),
           Len(From(c, k, a)) >= Len(c[k + 1])
    PROVE  /\ Between(c, k + 1, a)
           /\ SubSeq(From(c, k, a), Len(c[k + 1]) + 1, Len(From(c, k, a))) = From(c, k + 1, a)
  <1>1. PICK n \in Nat : n = Len(c)
    BY PacketPlaces
  <1>2. k + 1 \in 1 .. n /\ (k + 1) - 1 = k /\ k \in 0 .. n /\ k \in Nat
    BY <1>1 DEF Between
  <1>3. PICK e \in Nat, s \in Seq(Byte), p \in Seq(Byte) :
            e = PacketEnds(c)[k] /\ s = PacketBytes[c] /\ p = c[k + 1]
    BY <1>1, <1>2, BufferFits, PacketPlaces DEF BufferSize
  <1>4. PacketEnds(c)[k + 1] = e + Len(p)
    BY <1>1, <1>2, <1>3, PacketPlaces DEF IsEnds
  <1>5. PICK m \in Nat, q \in Nat : m = Len(From(c, k, a)) /\ q = Len(p) /\ e + m = a /\ e + m <= Len(s)
    <2>0. Len(From(c, k, a)) = a - e
      BY <1>3, BufferFits DEF BufferSize
    <2>1. Len(From(c, k, a)) = a - e /\ a - e \in Nat /\ a <= Len(s) /\ Len(p) \in Nat
      BY <1>3, <2>0 DEF Between
    <2>2. e + (a - e) = a
      BY <1>3 DEF Between
    <2> QED BY <2>1, <2>2
  <1>6. PICK j \in Nat : q + j = m
    <2>1. m - q \in Nat /\ q + (m - q) = m
      BY <1>3, <1>5
    <2> QED BY <2>1
  <1>7. SubSeq(SubSeq(s, e + 1, e + m), q + 1, q + j) = SubSeq(s, (e + q) + 1, (e + q) + j)
    BY <1>5, <1>6, CutAgain
  <1>8. (e + q) + j = a
    BY <1>5, <1>6
  <1>9. From(c, k, a) = SubSeq(s, e + 1, e + m) /\ From(c, k + 1, a) = SubSeq(s, (e + q) + 1, a)
    BY <1>3, <1>4, <1>5 DEF From
  <1>10. Between(c, k + 1, a)
    <2>1. e + q <= a
      BY <1>8
    <2> QED BY <1>1, <1>2, <1>3, <1>4, <1>5, <2>1 DEF Between
  <1> QED BY <1>3, <1>5, <1>6, <1>7, <1>8, <1>9, <1>10
(* The next bytes go behind those in the buffer.                           *)
LEMMA BufferGrows ==
    ASSUME NEW c \in PacketCases, NEW k, NEW a, Between(c, k, a), NEW b \in Nat, a <= b,
           b <= Len(PacketBytes[c])
    PROVE  /\ Between(c, k, b)
           /\ From(c, k, a) \o SubSeq(PacketBytes[c], a + 1, b) = From(c, k, b)
  <1>1. PICK e \in Nat, s \in Seq(Byte) : e = PacketEnds(c)[k] /\ s = PacketBytes[c]
    BY BufferFits DEF BufferSize
  <1>2. e + 1 \in 1 .. Len(s) + 1 /\ a \in (e + 1) - 1 .. Len(s) /\ b \in a .. Len(s)
    BY <1>1 DEF Between
  <1>3. SubSeq(s, e + 1, a) \o SubSeq(s, a + 1, b) = SubSeq(s, e + 1, b)
    BY <1>2, ConcatAdjacentSubSeq
  <1>4. Between(c, k, b)
    BY <1>1 DEF Between
  <1> QED BY <1>1, <1>3, <1>4 DEF From

(* Where the client is: c the packets, r its state, a the bytes that came, *)
(* q the message handed on last and k the packets taken.                   *)
Receives(c, r, a, q, k) ==
    /\ IsClient(r) /\ q \in Nat
    /\ r.phase \in {"connack", "suback", "recv", "misaligned", "closed"}
    /\ r.phase # "recv" => r.acking = 0 /\ (r.phase = "connack" => r.buffer = <<>>)
    /\ r.phase = "connack" => a \in Nat /\ a < 4 /\ q = 0
    /\ r.phase = "suback" => Between(c, k, a) /\ a = PacketEnds(c)[k] /\ q = 0 /\ r.buffer = <<>>
    /\ r.phase = "recv" =>
          /\ Between(c, k, a) /\ r.buffer = From(c, k, a) /\ q <= PublishedTo(c, k)
          /\ r.acking \in Nat
          /\ r.acking # 0 => q < r.acking /\ r.acking <= PublishedTo(c, k)
ClientTold ==
    kind = "mqtt" =>
        /\ case \in PacketCases /\ out \in Seq(Int)
        /\ \E q, k : UpTo(Items, q) /\ Receives(case, rx, at, q, k)

(* A client that is out of step or closed hands nothing on any more.       *)
LEMMA ClientStops ==
    ASSUME NEW c, NEW r, IsClient(r), r.acking = 0, NEW q \in Nat, NEW k,
           NEW where, where \in {"misaligned", "closed"}, NEW b, NEW left
    PROVE  /\ Receives(c, [r EXCEPT !.phase = where], b, q, k)
           /\ Receives(c, [r EXCEPT !.phase = where, !.buffer = left], b, q, k)
  <1>2. ASSUME NEW s, s \in {[r EXCEPT !.phase = where], [r EXCEPT !.phase = where, !.buffer = left]}
        PROVE  Receives(c, s, b, q, k)
    <2>1. IsClient(s) /\ s.phase = where /\ s.acking = 0
      BY <1>2 DEF IsClient
    <2> QED BY <2>1 DEF Receives
  <1> QED BY <1>2
(* The CONNACK (send_connect). *)
LEMMA ConnackKeeps ==
    ASSUME NEW c \in PacketCases, NEW r, NEW a, NEW q, NEW k, Receives(c, r, a, q, k),
           r.phase = "connack", NEW n \in Nat, a + n <= 4, NEW ok \in BOOLEAN, NEW s,
           s = IF a + n < 4 THEN r ELSE [r EXCEPT !.phase = IF ok THEN "suback" ELSE "closed"]
    PROVE  \E j : Receives(c, s, a + n, q, j)
  <1>1. IsClient(r) /\ q = 0 /\ a \in Nat /\ r.acking = 0 /\ r.buffer = <<>>
    BY DEF Receives
  <1>2. CASE a + n < 4
    <2>1. Receives(c, r, a + n, q, k)
      BY <1>1, <1>2 DEF Receives
    <2> QED BY <1>2, <2>1
  <1>3. CASE ~(a + n < 4) /\ ok
    <2>1. PICK one \in Nat : one = 1
      OBVIOUS
    <2>2. PacketEnds(c)[one] = 4 /\ a + n = 4 /\ one <= Len(c) /\ one \in 1 .. Len(c)
      BY <1>1, <1>3, <2>1, PacketPlaces
    <2>3. Between(c, one, 4)
      <3>1. Placed(PacketBytes[c], c, PacketEnds(c), Len(c))
        BY PacketPlaces
      <3>2. 4 <= Len(PacketBytes[c])
        BY <2>2, <3>1 DEF Placed
      <3> QED BY <2>2, <3>2 DEF Between
    <2>4. IsClient(s) /\ s.phase = "suback" /\ s.acking = 0 /\ s.buffer = <<>>
      BY <1>1, <1>3 DEF IsClient
    <2>5. Receives(c, s, 4, q, one)
      BY <1>1, <2>2, <2>3, <2>4 DEF Receives
    <2> QED BY <2>2, <2>5
  <1>4. CASE ~(a + n < 4) /\ ~ok
    <2>1. PICK where, b : where = "closed" /\ b = a + n
      OBVIOUS
    <2>2. s = [r EXCEPT !.phase = where]
      BY <1>4, <2>1
    <2>3. q \in Nat /\ where \in {"misaligned", "closed"}
      BY <1>1, <2>1
    <2>4. Receives(c, [r EXCEPT !.phase = where], b, q, k)
      BY <1>1, <2>3, ClientStops
    <2> QED BY <2>1, <2>2, <2>4
  <1> QED BY <1>2, <1>3, <1>4
(* recv goes on at the end of a packet. *)
LEMMA SubscribeDone ==
    ASSUME NEW c \in PacketCases, NEW r, NEW q, NEW j, NEW b, IsClient(r), q = 0, r.acking = 0,
           r.buffer = <<>>, r.phase \in {"suback", "recv"}, Between(c, j, b), b = PacketEnds(c)[j]
    PROVE  Receives(c, r, b, q, j)
  <1>1. CASE r.phase = "suback"
    BY <1>1 DEF Receives
  <1>2. CASE r.phase = "recv"
    <2>1. From(c, j, b) \in Seq(Byte) /\ Len(From(c, j, b)) = b - b /\ b \in Nat
      BY BufferFits DEF BufferSize, Between
    <2>2. From(c, j, b) = <<>>
      BY <2>1
    <2>3. PublishedTo(c, j) \in Nat
      <3>1. j \in 0 .. Len(c)
        BY PacketPlaces DEF Between
      <3> QED BY <3>1, PublishedCounts
    <2>4. q <= PublishedTo(c, j)
      BY <2>3
    <2> QED BY <1>2, <2>2, <2>4 DEF Receives
  <1> QED BY <1>1, <1>2

(* The packet subscribe reads is the next one. *)
LEMMA NextIsRead ==
    ASSUME NEW c \in PacketCases, NEW k, NEW a, Between(c, k, a), a = PacketEnds(c)[k],
           a < Len(PacketBytes[c])
    PROVE  /\ TryExtractPacket(SubSeq(PacketBytes[c], a + 1, Len(PacketBytes[c]))).packet = c[k + 1]
           /\ k + 1 \in 1 .. Len(c) /\ Between(c, k + 1, a + Len(c[k + 1]))
           /\ PacketEnds(c)[k + 1] = a + Len(c[k + 1])
  <1>1. PICK n \in Nat : n = Len(c)
    BY PacketPlaces
  <1>2. /\ IsEnds(PacketEnds(c), c) /\ Placed(PacketBytes[c], c, PacketEnds(c), n)
        /\ PacketBytes[c] \in Seq(Byte)
    BY <1>1, PacketPlaces DEF Placed
  <1>3. k # n
    <2>1. SUFFICES ASSUME k = n PROVE FALSE
      OBVIOUS
    <2>2. Len(PacketBytes[c]) = a /\ a \in Nat
      BY <1>2, <2>1 DEF Placed, Between
    <2> QED BY <2>2
  <1>4. k + 1 \in 1 .. n /\ (k + 1) - 1 = k /\ k \in Nat /\ k < n /\ a \in Nat
    BY <1>1, <1>3 DEF Between
  <1>5. PICK p \in Seq(Byte) : p = c[k + 1]
    BY <1>1, <1>4, PacketPlaces
  <1>6. PICK T \in Nat : T = Len(PacketBytes[c]) /\ a <= T
    BY <1>2, <1>4
  <1>7. PacketEnds(c)[k + 1] = a + Len(p) /\ a + Len(p) <= T /\ Len(p) \in Nat
    BY <1>1, <1>2, <1>4, <1>5, <1>6 DEF IsEnds, Placed
  <1>8. Between(c, k, T) /\ Between(c, k + 1, a + Len(p))
    BY <1>1, <1>4, <1>6, <1>7 DEF Between
  <1>9. PICK b : b = From(c, k, T)
    OBVIOUS
  <1>10. Extracts(b, p)
    BY <1>1, <1>4, <1>5, <1>8, <1>9, BufferStarts, PacketExtracted
  <1>11. Len(b) = T - a
    BY <1>8, <1>9, BufferFits DEF BufferSize
  <1>12. TryExtractPacket(b).packet = p
    BY <1>4, <1>6, <1>7, <1>10, <1>11 DEF Extracts
  <1>13. b = SubSeq(PacketBytes[c], a + 1, T)
    BY <1>9 DEF From
  <1> QED BY <1>1, <1>4, <1>5, <1>6, <1>7, <1>8, <1>12, <1>13

(* The items of a connection are the numbers of its messages. *)
LEMMA ClientItems ==
    ASSUME kind = "mqtt", case \in PacketCases
    PROVE  /\ Items \in Seq(Int) /\ Distinct(Items) /\ Len(Items) = Len(Publishes[case])
           /\ \A i \in 1 .. Len(Items) : Items[i] = i
           /\ Bytes = PacketBytes[case] /\ Total = Len(PacketBytes[case])
  <1>1. Items = Numbered(Len(Publishes[case])) /\ Bytes = PacketBytes[case]
    BY DEF Items, Bytes, Lines
  <1>2. PICK n \in Nat : n = Len(Publishes[case])
    BY PublishedCounts
  <1>3. PICK s : s = Numbered(n)
    OBVIOUS
  <1>4. s \in Seq(Int) /\ Len(s) = n /\ \A i \in 1 .. n : s[i] = i
    BY <1>3 DEF Numbered
  <1>5. Distinct(s)
    BY <1>4 DEF Distinct
  <1> QED BY <1>1, <1>2, <1>3, <1>4, <1>5 DEF Total

(* Steps that hand nothing on, and those that hand on a message.           *)
LEMMA ClientSilent ==
    ASSUME kind = "mqtt", kind' = kind, case' = case, out' = out, case \in PacketCases,
           out \in Seq(Int), NEW q, UpTo(Items, q), NEW s, NEW b, NEW k, rx' = s, at' = b,
           Receives(case, s, b, q, k)
    PROVE  ClientTold' /\ Delivers
  <1>1. Items' = Items
    BY DEF Items
  <1>2. NotYet' = NotYet
    BY <1>1 DEF NotYet
  <1>3. UpTo(Items, q)'
    BY <1>1 DEF UpTo
  <1>4. ClientTold'
    BY <1>3 DEF ClientTold
  <1> QED BY <1>2, <1>4, SilentStep
(* A message that is handed on follows the one before it.                  *)
LEMMA ClientHandsOn ==
    ASSUME kind = "mqtt", kind' = kind, case' = case, case \in PacketCases, out \in Seq(Int),
           NEW q \in Nat, UpTo(Items, q), NEW r \in Nat, q < r, r <= Len(Publishes[case]),
           out' = Append(out, r), NEW s, NEW b, NEW k, rx' = s, at' = b,
           Receives(case, s, b, r, k)
    PROVE  ClientTold' /\ Delivers
  <1>1. PICK items : items = Items
    OBVIOUS
  <1>2. Items' = items
    BY <1>1 DEF Items
  <1>3. /\ items \in Seq(Int) /\ Distinct(items) /\ r <= Len(items) /\ r \in 1 .. Len(items)
        /\ items[r] = r
    <2>1. r # 0
      OBVIOUS
    <2>2. r \in 1 .. Len(Publishes[case])
      BY <2>1, PublishedCounts
    <2> QED BY <1>1, <2>2, ClientItems
  <1>4. out' \in Seq(Int) /\ out' # <<>> /\ out'[Len(out')] = items[r]
    BY <1>3
  <1>5. UpTo(Items, r)'
    BY <1>2, <1>3, <1>4 DEF UpTo
  <1>6. NotYet = Behind(items, q)
    BY <1>1, <1>3, LeftToSend
  <1>7. NotYet' = Behind(items, r)
    <2>1. NumberOf(items[r], items) = r
      BY <1>3 DEF NumberOf, Distinct
    <2> QED BY <1>2, <1>4, <2>1 DEF NotYet, Behind
  <1>8. PICK p \in Nat : r = p + 1 /\ q <= p /\ p < r
    <2>1. r - 1 \in Nat /\ q <= r - 1 /\ r - 1 < r
      OBVIOUS
    <2> QED BY <2>1
  <1>9. out' = out \o SubSeq(items, p + 1, r)
    <2>1. r # 0
      OBVIOUS
    <2>2. SubSeq(items, r, r) = <<r>>
      BY <1>3, <2>1, Alone
    <2>3. out' = out \o <<r>>
      OBVIOUS
    <2> QED BY <1>8, <2>2, <2>3
  <1>10. Delivers
    BY <1>3, <1>6, <1>7, <1>8, <1>9, DeliverStep
  <1>11. ClientTold'
    BY <1>4, <1>5 DEF ClientTold
  <1> QED BY <1>10, <1>11

(* recv takes the packets of the buffer (process_packets).                 *)
LEMMA ProcessTells ==
    ASSUME ClientTold, RecvProcesses
    PROVE  ClientTold' /\ Delivers
  <1>1. PICK c, r, a : c = case /\ r = rx /\ a = at
    OBVIOUS
  <1>2. /\ kind = "mqtt" /\ r.phase = "recv" /\ r.acking = 0
        /\ TryExtractPacket(r.buffer).packet # <<>> /\ at' = a
    BY <1>1 DEF RecvProcesses, HasPacket
  <1>3. PICK x : /\ x = TryExtractPacket(r.buffer)
                 /\ LET made == ProcessPacket(x.packet)
                        number == NumberOf(made, Publishes[c])
                        taken == [r EXCEPT !.buffer = x.left]
                    IN  CASE made = Fatal -> Client([taken EXCEPT !.phase = "closed"]) /\ out' = out
                          [] made = Handled -> Client(taken) /\ out' = out
                          [] OTHER ->
                                IF made.id = NoId THEN Client(taken) /\ out' = Append(out, number)
                                ELSE Client([taken EXCEPT !.acking = number]) /\ out' = out
    BY <1>1 DEF RecvProcesses
  <1>4. PICK q, k : UpTo(Items, q) /\ Receives(c, r, a, q, k)
    BY <1>1, <1>2 DEF ClientTold
  <1>5. c \in PacketCases /\ out \in Seq(Int)
    BY <1>1, <1>2 DEF ClientTold
  <1>6. /\ IsClient(r) /\ q \in Nat /\ Between(c, k, a) /\ r.buffer = From(c, k, a)
        /\ q <= PublishedTo(c, k)
    BY <1>2, <1>4 DEF Receives
  <1>7. PICK n \in Nat : n = Len(c)
    BY <1>5, PacketPlaces
  <1>8. From(c, k, a) \in Seq(Byte) /\ Len(From(c, k, a)) = a - PacketEnds(c)[k] /\ PacketEnds(c)[k] \in Nat
    BY <1>5, <1>6, BufferFits DEF BufferSize
  <1>9. k # n
    <2>1. SUFFICES ASSUME k = n PROVE FALSE
      OBVIOUS
    <2>2. Len(PacketBytes[c]) = PacketEnds(c)[k]
      BY <1>5, <1>7, <2>1, PacketPlaces DEF Placed
    <2>3. Len(From(c, k, a)) = 0
      BY <1>6, <1>8, <2>2 DEF Between
    <2>4. From(c, k, a) = <<>>
      BY <1>8, <2>3
    <2> QED BY <1>2, <1>6, <2>4, NothingExtracted
  <1>10. k < n /\ k + 1 \in 1 .. n /\ (k + 1) - 1 = k /\ k \in 0 .. n /\ k + 1 \in 0 .. n
    BY <1>6, <1>7, <1>9 DEF Between
  <1>11. PICK p \in Seq(Byte), f \in Seq(Byte) : p = c[k + 1] /\ f = From(c, k, a)
    BY <1>5, <1>7, <1>8, <1>10, PacketPlaces
  <1>12. Extracts(f, p)
    <2>1. StartsWith(f, p)
      BY <1>5, <1>6, <1>7, <1>10, <1>11, BufferStarts
    <2> QED BY <2>1, PacketExtracted
  <1>13. Len(f) >= Len(p) /\ x.packet = p /\ x.left = SubSeq(f, Len(p) + 1, Len(f))
    <2>1. Len(f) \in Nat /\ Len(p) \in Nat
      BY <1>11
    <2>2. ~(Len(f) < Len(p))
      BY <1>2, <1>6, <1>11, <1>12 DEF Extracts
    <2>3. Len(f) >= Len(p)
      BY <2>1, <2>2
    <2> QED BY <1>3, <1>6, <1>11, <1>12, <2>3 DEF Extracts
  <1>14. Between(c, k + 1, a) /\ x.left = From(c, k + 1, a)
    BY <1>5, <1>6, <1>7, <1>10, <1>11, <1>13, BufferLeft
  <1>15. PICK made, number, taken : /\ made = ProcessPacket(p) /\ number = NumberOf(made, Publishes[c])
                                    /\ taken = [r EXCEPT !.buffer = From(c, k + 1, a)]
    OBVIOUS
  <1>16. /\ IsClient(taken) /\ taken.phase = "recv" /\ taken.acking = 0
         /\ taken.buffer = From(c, k + 1, a)
    BY <1>2, <1>6, <1>15 DEF IsClient
  <1>17. (CASE made = Fatal -> Client([taken EXCEPT !.phase = "closed"]) /\ out' = out
            [] made = Handled -> Client(taken) /\ out' = out
            [] OTHER ->
                  IF made.id = NoId THEN Client(taken) /\ out' = Append(out, number)
                  ELSE Client([taken EXCEPT !.acking = number]) /\ out' = out)
    BY <1>3, <1>13, <1>14, <1>15
  <1>18. /\ PublishedTo(c, k) \in Nat /\ PublishedTo(c, k + 1) \in Nat
         /\ PublishedTo(c, k) <= PublishedTo(c, k + 1)
         /\ PublishedTo(c, k + 1) <= Len(Publishes[c])
    BY <1>5, <1>7, <1>10, PublishedCounts
  <1>19. ASSUME NEW m \in Nat, m <= PublishedTo(c, k + 1) PROVE Receives(c, taken, a, m, k + 1)
    BY <1>14, <1>16, <1>19 DEF Receives
  <1>20. q <= PublishedTo(c, k + 1)
    BY <1>6, <1>18
  <1>21. kind' = kind /\ case' = case /\ case \in PacketCases
    BY <1>1, <1>5, <1>17 DEF Client
  <1>22. CASE made = Fatal
    <2>1. PICK s, where : s = [taken EXCEPT !.phase = where] /\ where = "closed"
      OBVIOUS
    <2>2. rx' = s /\ out' = out
      <3>1. made # Handled
        BY <1>22 DEF Fatal, Handled
      <3>2. Client([taken EXCEPT !.phase = "closed"]) /\ out' = out
        BY <1>17, <1>22, <3>1
      <3> QED BY <2>1, <3>2 DEF Client
    <2>3. where \in {"misaligned", "closed"}
      BY <2>1
    <2>4. Receives(c, s, a, q, k)
      BY <1>6, <1>16, <2>1, <2>3, ClientStops
    <2> QED BY <1>1, <1>2, <1>4, <1>5, <1>21, <2>2, <2>4, ClientSilent
  <1>23. CASE made # Fatal /\ made = Handled
    <2>1. rx' = taken /\ out' = out
      BY <1>17, <1>23 DEF Client
    <2>2. Receives(c, taken, a, q, k + 1)
      BY <1>6, <1>19, <1>20
    <2> QED BY <1>1, <1>2, <1>4, <1>5, <1>21, <2>1, <2>2, ClientSilent
  <1>24. CASE made # Fatal /\ made # Handled
    <2>1. made.is = "publish"
      BY <1>15, <1>24, ProcessKinds
    <2>2. number = PublishedTo(c, k + 1) /\ PublishedTo(c, k + 1) = PublishedTo(c, k) + 1
      BY <1>5, <1>7, <1>10, <1>11, <1>15, <2>1, PublishNumbered
    <2>3. number \in Nat /\ q < number /\ number <= Len(Publishes[c]) /\ number # 0
      BY <1>6, <1>18, <2>2
    <2>4. CASE made.id = NoId
      <3>1. rx' = taken /\ out' = Append(out, number)
        BY <1>17, <1>24, <2>4 DEF Client
      <3>2. Receives(c, taken, a, number, k + 1)
        BY <1>19, <2>2, <2>3
      <3> QED BY <1>1, <1>2, <1>4, <1>5, <1>6, <1>21, <2>3, <3>1, <3>2, ClientHandsOn
    <2>5. CASE made.id # NoId
      <3>1. PICK s : s = [taken EXCEPT !.acking = number]
        OBVIOUS
      <3>2. rx' = s /\ out' = out
        BY <1>17, <1>24, <2>5, <3>1 DEF Client
      <3>3. IsClient(s) /\ s.phase = "recv" /\ s.acking = number /\ s.buffer = From(c, k + 1, a)
        BY <1>16, <3>1 DEF IsClient
      <3>4. number <= PublishedTo(c, k + 1)
        BY <2>2, <2>3
      <3>5. Receives(c, s, a, q, k + 1)
        BY <1>6, <1>14, <1>20, <2>3, <3>3, <3>4 DEF Receives
      <3> QED BY <1>1, <1>2, <1>4, <1>5, <1>21, <3>2, <3>5, ClientSilent
    <2> QED BY <2>4, <2>5
  <1> QED BY <1>22, <1>23, <1>24

(* The steps that read, and those that acknowledge.                        *)
LEMMA ConnackTells ==
    ASSUME ClientTold, ConnackReads \/ ConnackTimesOut
    PROVE  ClientTold' /\ Delivers
  <1>1. PICK c, r, a : c = case /\ r = rx /\ a = at
    OBVIOUS
  <1>2. kind = "mqtt" /\ kind' = kind /\ case' = case /\ r.phase = "connack" /\ out' = out
    <2>1. CASE ConnackReads
      BY <1>1, <2>1 DEF ConnackReads, Client
    <2>2. CASE ConnackTimesOut
      BY <1>1, <2>2 DEF ConnackTimesOut, Client
    <2> QED BY <2>1, <2>2
  <1>3. PICK q, k : UpTo(Items, q) /\ Receives(c, r, a, q, k)
    BY <1>1, <1>2 DEF ClientTold
  <1>4. c \in PacketCases /\ out \in Seq(Int) /\ IsClient(r) /\ q \in Nat /\ r.acking = 0
    BY <1>1, <1>2, <1>3 DEF ClientTold, Receives
  <1>5. CASE ConnackReads
    <2>1. PICK n \in Pieces, ok \in BOOLEAN :
            /\ a + n <= 4 /\ at' = a + n
            /\ rx' = IF a + n < 4 THEN r
                     ELSE [r EXCEPT !.phase = IF ok THEN "suback" ELSE "closed"]
      <3>1. PICK n \in Pieces :
              /\ a + n <= 4 /\ at' = a + n
              /\ Client(IF a + n < 4 THEN r
                        ELSE [r EXCEPT !.phase = IF ParseConnack(SubSeq(Bytes, 1, 4)) THEN "suback" ELSE "closed"])
        BY <1>1, <1>5 DEF ConnackReads
      <3>2. PICK ok \in BOOLEAN : ok <=> ParseConnack(SubSeq(Bytes, 1, 4))
        OBVIOUS
      <3>3. (IF ParseConnack(SubSeq(Bytes, 1, 4)) THEN "suback" ELSE "closed") = (IF ok THEN "suback" ELSE "closed")
        BY <3>2
      <3> QED BY <3>1, <3>3 DEF Client
    <2>2. n \in Nat
      BY StreamsAssumption
    <2>3. PICK s, b : s = rx' /\ b = a + n
      OBVIOUS
    <2>4. PICK j : Receives(c, s, b, q, j)
      BY <1>2, <1>3, <1>4, <2>1, <2>2, <2>3, ConnackKeeps
    <2> QED BY <1>1, <1>2, <1>3, <1>4, <2>1, <2>3, <2>4, ClientSilent
  <1>6. CASE ConnackTimesOut
    <2>1. PICK s, where : s = [r EXCEPT !.phase = where] /\ where = "closed"
      OBVIOUS
    <2>2. rx' = s /\ at' = a
      BY <1>1, <1>6, <2>1 DEF ConnackTimesOut, Client
    <2>3. Receives(c, s, a, q, k)
      BY <1>4, <2>1, ClientStops
    <2> QED BY <1>1, <1>2, <1>3, <1>4, <2>2, <2>3, ClientSilent
  <1> QED BY <1>5, <1>6

(* What subscribe makes of a packet: it waits on, or recv takes over.      *)
LEMMA SubackLeads ==
    ASSUME IsClient(rx), rx.phase = "suback", NEW packet
    PROVE  LET s == AfterSuback(packet)
           IN  /\ IsClient(s) /\ s.phase \in {"suback", "recv"} /\ s.acking = rx.acking
               /\ s.buffer = rx.buffer
  BY DEF AfterSuback, IsClient
(* While it waits for the SUBACK the client hands on nothing.              *)
LEMMA SubscribeTells ==
    ASSUME ClientTold, SubscribeReads \/ SubscribeTimesOut
    PROVE  ClientTold' /\ Delivers
  <1>1. PICK c, r, a : c = case /\ r = rx /\ a = at
    OBVIOUS
  <1>2. kind = "mqtt" /\ kind' = kind /\ case' = case /\ r.phase = "suback" /\ out' = out
    <2>1. CASE SubscribeReads
      BY <1>1, <2>1 DEF SubscribeReads, Client
    <2>2. CASE SubscribeTimesOut
      BY <1>1, <2>2 DEF SubscribeTimesOut, Client
    <2> QED BY <2>1, <2>2
  <1>3. PICK q, k : UpTo(Items, q) /\ Receives(c, r, a, q, k)
    BY <1>1, <1>2 DEF ClientTold
  <1>4. /\ c \in PacketCases /\ out \in Seq(Int) /\ IsClient(r) /\ q = 0 /\ q \in Nat
        /\ r.acking = 0 /\ r.buffer = <<>> /\ Between(c, k, a) /\ a = PacketEnds(c)[k]
    BY <1>1, <1>2, <1>3 DEF ClientTold, Receives
  <1>5. CASE SubscribeReads
    <2>1. a < Len(PacketBytes[c]) /\ NextPacket = TryExtractPacket(SubSeq(PacketBytes[c], a + 1, Len(PacketBytes[c]))).packet
      <3>1. Bytes = PacketBytes[c] /\ Total = Len(PacketBytes[c])
        BY <1>1, <1>2, <1>4, ClientItems
      <3> QED BY <1>1, <1>5, <3>1 DEF SubscribeReads, NextPacket
    <2>2. /\ NextPacket = c[k + 1] /\ k + 1 \in 1 .. Len(c) /\ Between(c, k + 1, a + Len(c[k + 1]))
          /\ PacketEnds(c)[k + 1] = a + Len(c[k + 1])
      BY <1>4, <2>1, NextIsRead
    <2>3. PICK packet, s, b : packet = NextPacket /\ s = rx' /\ b = at'
      OBVIOUS
    <2>4. \/ s = [r EXCEPT !.phase = "misaligned"]
          \/ s = AfterSuback(packet) /\ b = a + Len(packet)
      BY <1>1, <1>5, <2>3 DEF SubscribeReads, Client
    <2>5. CASE s = [r EXCEPT !.phase = "misaligned"]
      <3>1. PICK where : where = "misaligned"
        OBVIOUS
      <3>2. Receives(c, [r EXCEPT !.phase = where], b, q, k)
        BY <1>4, <3>1, ClientStops
      <3>3. Receives(c, s, b, q, k)
        BY <2>5, <3>1, <3>2
      <3> QED BY <1>1, <1>2, <1>3, <1>4, <2>3, <3>3, ClientSilent
    <2>6. CASE s = AfterSuback(packet) /\ b = a + Len(packet)
      <3>1. IsClient(s) /\ s.phase \in {"suback", "recv"} /\ s.acking = 0 /\ s.buffer = <<>>
        <4>1. /\ IsClient(AfterSuback(packet)) /\ AfterSuback(packet).phase \in {"suback", "recv"}
              /\ AfterSuback(packet).acking = rx.acking /\ AfterSuback(packet).buffer = rx.buffer
          BY <1>1, <1>2, <1>4, SubackLeads
        <4> QED BY <1>1, <1>4, <2>6, <4>1
      <3>2. PICK j : j = k + 1
        OBVIOUS
      <3>3. Between(c, j, b) /\ b = PacketEnds(c)[j]
        BY <2>2, <2>3, <2>6, <3>2
      <3>4. Receives(c, s, b, q, j)
        BY <1>4, <3>1, <3>3, SubscribeDone
      <3> QED BY <1>1, <1>2, <1>3, <1>4, <2>3, <3>4, ClientSilent
    <2> QED BY <2>4, <2>5, <2>6
  <1>6. CASE SubscribeTimesOut
    <2>1. PICK where \in {"recv", "misaligned"} : rx' = [r EXCEPT !.phase = where] /\ at' = a
      BY <1>1, <1>6 DEF SubscribeTimesOut, Client
    <2>2. PICK s : s = rx'
      OBVIOUS
    <2>3. CASE where = "recv"
      <3>1. IsClient(s) /\ s.phase \in {"suback", "recv"} /\ s.acking = 0 /\ s.buffer = <<>>
        BY <1>4, <2>1, <2>2, <2>3 DEF IsClient
      <3>2. Receives(c, s, a, q, k)
        BY <1>4, <3>1, SubscribeDone
      <3> QED BY <1>1, <1>2, <1>3, <1>4, <2>1, <2>2, <3>2, ClientSilent
    <2>4. CASE where = "misaligned"
      <3>1. Receives(c, [r EXCEPT !.phase = where], a, q, k)
        BY <1>4, <2>4, ClientStops
      <3>2. Receives(c, s, a, q, k)
        BY <2>1, <2>2, <3>1
      <3> QED BY <1>1, <1>2, <1>3, <1>4, <2>1, <2>2, <3>2, ClientSilent
    <2> QED BY <2>3, <2>4
  <1> QED BY <1>5, <1>6

(* recv reads, or ends with the connection. *)
LEMMA RecvTells ==
    ASSUME ClientTold, RecvReads \/ RecvEnds
    PROVE  ClientTold' /\ Delivers
  <1>1. PICK c, r, a, s, b : c = case /\ r = rx /\ a = at /\ s = rx' /\ b = at'
    OBVIOUS
  <1>2. /\ kind = "mqtt" /\ kind' = kind /\ case' = case /\ r.phase = "recv" /\ r.acking = 0
        /\ out' = out
    <2>1. CASE RecvReads
      BY <1>1, <2>1 DEF RecvReads, Client
    <2>2. CASE RecvEnds
      BY <1>1, <2>2 DEF RecvEnds, Client
    <2> QED BY <2>1, <2>2
  <1>3. PICK q, k : UpTo(Items, q) /\ Receives(c, r, a, q, k)
    BY <1>1, <1>2 DEF ClientTold
  <1>4. /\ c \in PacketCases /\ out \in Seq(Int) /\ IsClient(r) /\ q \in Nat
        /\ Between(c, k, a) /\ r.buffer = From(c, k, a) /\ q <= PublishedTo(c, k)
    BY <1>1, <1>2, <1>3 DEF ClientTold, Receives
  <1>5. Bytes = PacketBytes[c] /\ Total = Len(PacketBytes[c])
    BY <1>1, <1>2, <1>4, ClientItems
  <1>6. \/ s = [r EXCEPT !.phase = "closed"]
        \/ s = [r EXCEPT !.phase = "closed", !.buffer = <<>>]
        \/ \E n \in Pieces : /\ a + n <= Total /\ b = a + n
                             /\ s = [r EXCEPT !.buffer = @ \o SubSeq(PacketBytes[c], a + 1, a + n)]
    <2>1. CASE RecvReads
      <3>1. PICK n \in Pieces :
              /\ a + n <= Total /\ b = a + n
              /\ s = IF Len(r.buffer) + n > RxMax
                     THEN [r EXCEPT !.phase = "closed", !.buffer = <<>>]
                     ELSE [r EXCEPT !.buffer = @ \o SubSeq(PacketBytes[c], a + 1, a + n)]
        BY <1>1, <1>5, <2>1 DEF RecvReads, Client, Piece
      <3> QED BY <3>1
    <2>2. CASE RecvEnds
      BY <1>1, <2>2 DEF RecvEnds, Client
    <2> QED BY <2>1, <2>2
  <1>7. \E j : Receives(c, s, b, q, j)
    <2>1. CASE s = [r EXCEPT !.phase = "closed"] \/ s = [r EXCEPT !.phase = "closed", !.buffer = <<>>]
      <3>1. PICK where, left : where = "closed" /\ left = <<>>
        OBVIOUS
      <3>2. /\ Receives(c, [r EXCEPT !.phase = where], b, q, k)
            /\ Receives(c, [r EXCEPT !.phase = where, !.buffer = left], b, q, k)
        BY <1>2, <1>4, <3>1, ClientStops
      <3> QED BY <2>1, <3>1, <3>2
    <2>2. ASSUME NEW n \in Pieces, a + n <= Total, b = a + n,
                 s = [r EXCEPT !.buffer = @ \o SubSeq(PacketBytes[c], a + 1, a + n)]
          PROVE  Receives(c, s, b, q, k)
      <3>1. n \in Nat /\ a \in Nat
        BY <1>4, StreamsAssumption DEF Between
      <3>2. b \in Nat /\ a <= b /\ b <= Len(PacketBytes[c])
        BY <1>5, <2>2, <3>1
      <3>3. Between(c, k, b) /\ From(c, k, a) \o SubSeq(PacketBytes[c], a + 1, b) = From(c, k, b)
        BY <1>4, <3>2, BufferGrows
      <3>4. IsClient(s) /\ s.phase = "recv" /\ s.acking = 0 /\ s.buffer = From(c, k, b)
        BY <1>2, <1>4, <2>2, <3>3 DEF IsClient
      <3> QED BY <1>4, <3>3, <3>4 DEF Receives
    <2> QED BY <1>6, <2>1, <2>2
  <1> QED BY <1>1, <1>2, <1>3, <1>4, <1>7, ClientSilent

(* A PUBACK is written, or cannot be, or is given up with recv.            *)
LEMMA AckTells ==
    ASSUME ClientTold, AckSent \/ AckFails \/ RecvCancelled
    PROVE  ClientTold' /\ Delivers
  <1>1. PICK c, r, a, s : c = case /\ r = rx /\ a = at /\ s = rx'
    OBVIOUS
  <1>2. /\ kind = "mqtt" /\ kind' = kind /\ case' = case /\ r.acking # 0 /\ at' = a
        /\ \/ out' = Append(out, r.acking)
           \/ out' = out
        /\ \/ s = [r EXCEPT !.acking = 0, !.acked = @ \cup {r.acking}]
           \/ s = [r EXCEPT !.acking = 0]
    <2>1. CASE AckSent
      BY <1>1, <2>1 DEF AckSent, Client
    <2>2. CASE AckFails
      BY <1>1, <2>2 DEF AckFails, Client
    <2>3. CASE RecvCancelled
      BY <1>1, <2>3 DEF RecvCancelled, Client
    <2> QED BY <2>1, <2>2, <2>3
  <1>3. PICK q, k : UpTo(Items, q) /\ Receives(c, r, a, q, k)
    BY <1>1, <1>2 DEF ClientTold
  <1>4. /\ c \in PacketCases /\ out \in Seq(Int) /\ IsClient(r) /\ q \in Nat
        /\ r.phase = "recv" /\ Between(c, k, a) /\ r.buffer = From(c, k, a)
        /\ q <= PublishedTo(c, k) /\ r.acking \in Nat
        /\ q < r.acking /\ r.acking <= PublishedTo(c, k)
    BY <1>1, <1>2, <1>3 DEF ClientTold, Receives
  <1>5. IsClient(s) /\ s.phase = "recv" /\ s.acking = 0 /\ s.buffer = From(c, k, a)
    <2>1. CASE s = [r EXCEPT !.acking = 0, !.acked = @ \cup {r.acking}]
      BY <1>4, <2>1 DEF IsClient
    <2>2. CASE s = [r EXCEPT !.acking = 0]
      BY <1>4, <2>2 DEF IsClient
    <2> QED BY <1>2, <2>1, <2>2
  <1>6. ASSUME NEW m \in Nat, m <= PublishedTo(c, k) PROVE Receives(c, s, a, m, k)
    BY <1>4, <1>5, <1>6 DEF Receives
  <1>7. CASE out' = out
    <2>1. Receives(c, s, a, q, k)
      BY <1>4, <1>6
    <2> QED BY <1>1, <1>2, <1>3, <1>4, <1>7, <2>1, ClientSilent
  <1>8. CASE out' = Append(out, r.acking)
    <2>1. PICK m \in Nat : m = r.acking
      BY <1>4
    <2>2. Receives(c, s, a, m, k)
      BY <1>4, <1>6, <2>1
    <2>3. q < m /\ m <= Len(Publishes[c])
      <3>1. k \in 0 .. Len(c)
        BY <1>4, PacketPlaces DEF Between
      <3>2. /\ PublishedTo(c, k) <= Len(Publishes[c]) /\ PublishedTo(c, k) \in Nat
            /\ Len(Publishes[c]) \in Nat
        BY <1>4, <3>1, PublishedCounts
      <3> QED BY <1>4, <2>1, <3>2
    <2> QED BY <1>1, <1>2, <1>3, <1>4, <1>8, <2>1, <2>2, <2>3, ClientHandsOn
  <1> QED BY <1>2, <1>7, <1>8

(* Every step of the client. *)
LEMMA ClientTells ==
    ASSUME ClientTold, kind = "mqtt", [Next]_vars
    PROVE  ClientTold' /\ Delivers
  <1>1. CASE UNCHANGED vars
    <2>1. kind' = kind /\ out' = out /\ rx' = rx /\ at' = at /\ case' = case
      BY <1>1 DEF vars
    <2>2. PICK s, b : s = rx /\ b = at
      OBVIOUS
    <2>3. /\ case \in PacketCases /\ out \in Seq(Int)
          /\ \E q, k : UpTo(Items, q) /\ Receives(case, s, b, q, k)
      BY <2>2 DEF ClientTold
    <2>4. rx' = s /\ at' = b
      BY <2>1, <2>2
    <2> QED BY <2>1, <2>3, <2>4, ClientSilent
  <1>2. CASE ConnackReads \/ ConnackTimesOut
    BY <1>2, ConnackTells
  <1>3. CASE SubscribeReads \/ SubscribeTimesOut
    BY <1>3, SubscribeTells
  <1>4. CASE RecvReads \/ RecvEnds
    BY <1>4, RecvTells
  <1>5. CASE RecvProcesses
    BY <1>5, ProcessTells
  <1>6. CASE AckSent \/ AckFails \/ RecvCancelled
    BY <1>6, AckTells
  <1>7. ~OtherStep
    BY OthersKeepKind
  <1> QED BY <1>1, <1>2, <1>3, <1>4, <1>5, <1>6, <1>7 DEF Next, Step, Fault, OtherStep

-----------------------------------------------------------------------------
(* Every receiver implements InOrder.                                      *)

(* A line without faults, or another stream that is not a capture. *)
Undisturbed == kind # "sniff" /\ (kind \in Lines => faults = 0)
Told ==
    /\ kind \in Lines \cup {"log", "ota", "mqtt", "sniff"}
    /\ LogInv /\ DownloadInv
    /\ LogTold /\ DownloadTold /\ LineTold /\ ClientTold

(* A behaviour is about one receiver. *)
LEMMA KindStays ==
    ASSUME [Next]_vars
    PROVE  kind' = kind
  <1>1. CASE UNCHANGED vars
    BY <1>1 DEF vars
  <1>2. CASE OtherStep
    BY <1>2, OthersKeepKind
  <1>3. CASE Next /\ ~OtherStep
    BY <1>3, ClientKeepsKind DEF Next, Step, Fault, OtherStep
  <1> QED BY <1>1, <1>2, <1>3

(* At the start nothing is handed on. *)
LEMMA ToldAtStart ==
    ASSUME Init
    PROVE  Told /\ Receiver!Init
  <1>1. /\ out = <<>> /\ at = 0 /\ faults = 0 /\ kind \in Lines \cup {"log", "ota", "mqtt", "sniff"}
        /\ kind \in Lines => rx = NewDecoder
        /\ kind = "mqtt" => case \in PacketCases /\ rx = NewClient
        /\ kind = "ota" => case \in ImageCases /\ rx = NewDownload
        /\ kind = "log" => rx = NewLog
    BY DEF Init, Lines
  <1>3. <<>> \in Seq(Int)
    OBVIOUS
  <1>4. ASSUME kind = "log" PROVE LogTold /\ Items \in AllItems /\ NotYet = Items
    <2>1. /\ Items = Captured[Len(LogLevels)] /\ Items \in Seq(Int)
      BY <1>4, LogItems
    <2>2. UpTo(Items, 0)
      BY <1>1, <2>1 DEF UpTo
    <2>3. rx.entries = <<>> /\ Captured[at] = <<>>
      BY <1>1, <1>4, CapturedBy DEF NewLog
    <2>4. 0 <= Len(Captured[at]) - Len(rx.entries)
      BY <2>3
    <2> QED BY <1>1, <1>3, <1>4, <2>1, <2>2, <2>4 DEF LogTold, AllItems, NotYet
  <1>5. ASSUME kind = "ota" PROVE DownloadTold /\ Items \in AllItems /\ NotYet = Items
    <2>1. Items = case.body /\ case.body \in Seq(Nat) /\ case \in ImageCases
      <3>1. kind \notin Lines \cup {"sniff"} /\ kind # "log" /\ kind # "mqtt"
        BY <1>5 DEF Lines
      <3> QED BY <1>1, <1>5, <3>1, ResponseBytes DEF Items
    <2>2. rx.writer = NewWriter
      BY <1>1, <1>5 DEF NewDownload
    <2>3. FlashedImage(rx.writer) = <<>>
      <3>1. Flashed(rx.writer, 0)
        BY <2>1, <2>2, NothingFlashed
      <3> QED BY <3>1 DEF Flashed
    <2>4. Len(out) = 0
      BY <1>1
    <2>5. SubSeq(Items, 1, Len(Items)) = Items
      BY <2>1
    <2> QED BY <1>1, <1>5, <2>1, <2>3, <2>4, <2>5 DEF DownloadTold, AllItems, NotYet
  <1>6. ASSUME kind \in Lines PROVE LineTold /\ Items \in AllItems /\ NotYet = Items
    <2>1. Items = Numbered(Len(SentFrames)) /\ Items \in Seq(Int)
      BY <1>6, LineItems
    <2>2. UpTo(Items, 0)
      BY <1>1, <2>1 DEF UpTo
    <2>3. rx = Holding(<<>>, FALSE, 0, 0)
      BY <1>1, <1>6 DEF NewDecoder, Holding
    <2>4. PICK z \in Nat : z = 0
      OBVIOUS
    <2>5. LineAt(z, z)
      <3>1. z # Len(SentFrames) /\ z + 1 \in 1 .. Len(SentFrames) /\ z <= Len(SentFrames)
        BY <2>4, LinePlaces
      <3>2. 0 < Len(SentBytes[z + 1])
        <4>1. SentBytes[z + 1] = Encode(SentFrames[z + 1])
          BY <3>1 DEF SentBytes
        <4> QED BY <3>1, <4>1, EncodeShape DEF Enclosed
      <3>3. at = FrameEnd[z] + z
        BY <1>1, <2>4, FrameEnds
      <3> QED BY <2>2, <2>3, <2>4, <3>1, <3>2, <3>3 DEF LineAt, Reading
    <2>6. kind # "ota"
      BY <1>6 DEF Lines
    <2> QED BY <1>1, <1>3, <2>1, <2>5, <2>6 DEF LineTold, AllItems, NotYet
  <1>7. ASSUME kind = "mqtt" PROVE ClientTold /\ Items \in AllItems /\ NotYet = Items
    <2>1. Items = Numbered(Len(Publishes[case])) /\ Items \in Seq(Int) /\ case \in PacketCases
      <3>1. kind \notin Lines \cup {"sniff"} /\ kind # "log"
        BY <1>7 DEF Lines
      <3> QED BY <1>1, <1>7, <3>1, ClientItems DEF Items
    <2>2. UpTo(Items, 0)
      BY <1>1, <2>1 DEF UpTo
    <2>3. /\ IsClient(NewClient) /\ NewClient.phase = "connack" /\ NewClient.acking = 0
          /\ NewClient.buffer = <<>>
      BY DEF IsClient, NewClient
    <2>4. Receives(case, rx, at, 0, 0)
      <3>1. IsClient(rx) /\ rx.phase = "connack" /\ rx.acking = 0 /\ rx.buffer = <<>>
        BY <1>1, <1>7, <2>3
      <3> QED BY <1>1, <3>1 DEF Receives
    <2> QED BY <1>1, <1>3, <1>7, <2>1, <2>2, <2>4 DEF ClientTold, AllItems, NotYet
  <1>8. ASSUME kind = "sniff" PROVE Items \in AllItems /\ NotYet = Items
    BY <1>1, <1>8 DEF Items, AllItems, NotYet
  <1>9. Told
    <2>1. LogInv /\ DownloadInv
      BY LogStarts, DownloadStarts
    <2>2. /\ kind # "log" => LogTold
          /\ kind # "ota" => DownloadTold
          /\ kind \notin Lines => LineTold
          /\ kind # "mqtt" => ClientTold
      BY DEF LogTold, DownloadTold, LineTold, ClientTold
    <2> QED BY <1>1, <1>4, <1>5, <1>6, <1>7, <2>1, <2>2 DEF Told
  <1>10. NotYet \in AllItems
    BY <1>1, <1>4, <1>5, <1>6, <1>7, <1>8
  <1>11. Receiver!Init
    BY <1>1, <1>10 DEF Receiver!Init
  <1> QED BY <1>9, <1>11

(* A step keeps what is told of every receiver, and delivers or stutters.  *)
LEMMA ToldStep ==
    ASSUME LengthsTold, Told, Undisturbed, Undisturbed', [Next]_vars
    PROVE  Told' /\ Delivers
  <1>1. kind' = kind /\ kind # "sniff" /\ kind \in Lines \cup {"log", "ota", "mqtt", "sniff"}
    BY KindStays DEF Told, Undisturbed
  <1>2. LogInv' /\ DownloadInv'
    BY NextKeepsLog, NextKeepsDownload DEF Told
  <1>3. CASE kind = "log"
    <2>1. LogTold' /\ Delivers
      BY <1>3, LogStep DEF Told
    <2>2. DownloadTold' /\ LineTold' /\ ClientTold'
      BY <1>1, <1>3 DEF DownloadTold, LineTold, ClientTold, Lines
    <2> QED BY <1>1, <1>2, <2>1, <2>2 DEF Told
  <1>4. CASE kind = "ota"
    <2>1. DownloadTold' /\ Delivers
      BY <1>4, DownloadTells DEF Told
    <2>2. LogTold' /\ LineTold' /\ ClientTold'
      BY <1>1, <1>4 DEF LogTold, LineTold, ClientTold, Lines
    <2> QED BY <1>1, <1>2, <2>1, <2>2 DEF Told
  <1>5. CASE kind = "mqtt"
    <2>1. ClientTold' /\ Delivers
      BY <1>5, ClientTells DEF Told
    <2>2. LogTold' /\ DownloadTold' /\ LineTold'
      BY <1>1, <1>5 DEF LogTold, DownloadTold, LineTold, Lines
    <2> QED BY <1>1, <1>2, <2>1, <2>2 DEF Told
  <1>6. CASE kind \in Lines
    <2>0. faults' = 0
      BY <1>1, <1>6 DEF Undisturbed
    <2>1. LineTold' /\ Delivers
      BY <1>6, <2>0, LineTells DEF Told
    <2>2. LogTold' /\ DownloadTold' /\ ClientTold'
      BY <1>1, <1>6 DEF LogTold, DownloadTold, ClientTold, Lines
    <2> QED BY <1>1, <1>2, <2>1, <2>2 DEF Told
  <1> QED BY <1>1, <1>3, <1>4, <1>5, <1>6

(* Every receiver hands on what was sent, in order and at most once: the   *)
(* frame decoders on a line that spoils nothing, where no length byte is a *)
(* marker; the client, the download and the log whatever the pieces, the   *)
(* breaks and the losses (feed, feed_slice, process_packets,               *)
(* perform_ota_update, drain).                                             *)
THEOREM StreamsDeliverInOrder == LengthsTold => (Spec /\ []Undisturbed => DeliversInOrder)
  <1> SUFFICES ASSUME LengthsTold PROVE Spec /\ []Undisturbed => DeliversInOrder
    OBVIOUS
  <1>1. Init => Told /\ Receiver!Init
    BY ToldAtStart
  <1>2. Told /\ Undisturbed /\ Undisturbed' /\ [Next]_vars => Told' /\ [Receiver!Next]_(Receiver!vars)
    BY ToldStep DEF Delivers
  <1> QED BY <1>1, <1>2, PTL DEF Spec, DeliversInOrder, Receiver!Spec

-----------------------------------------------------------------------------
(* A decoder that lost its place finds it again.                           *)

(* A frame without a marker among its bytes but the two around it.         *)
Unmarked(e) == \A p \in 2 .. Len(e) - 1 : e[p] # Marker
(* Behind the fault, if there was one, no frame holds a marker as data.    *)
ComesClean == faults = 0 \/ \A i \in 1 .. Len(SentFrames) : FrameEnd[i] > faultAt => Unmarked(SentBytes[i])

(* Frames do not end together. *)
LEMMA EndsGrow ==
    ASSUME NEW i \in 0 .. Len(SentFrames), NEW j \in 0 .. Len(SentFrames), i < j
    PROVE  FrameEnd[i] < FrameEnd[j]
  <1> DEFINE n == Len(SentFrames)
             f == [k \in 0 .. n |-> i < k => FrameEnd[i] < FrameEnd[k]]
  <1>1. n \in Nat /\ \A k \in 1 .. n : FrameEnd[k] = FrameEnd[k - 1] + FrameSize[k]
    BY FrameEnds
  <1>2. \A k \in 0 .. n : FrameEnd[k] \in Nat
    BY FrameEnds
  <1>3. ASSUME NEW k \in 1 .. n, f[k - 1] \in {TRUE} PROVE f[k] \in {TRUE}
    <2>1. k \in 0 .. n /\ k - 1 \in 0 .. n
      BY <1>1
    <2>2. i < k - 1 => FrameEnd[i] < FrameEnd[k - 1]
      BY <1>3, <2>1
    <2>3. FrameSize[k] \in Nat /\ 6 <= FrameSize[k]
      BY EncodeShape DEF Enclosed
    <2>4. PICK a \in Nat, b \in Nat, c \in Nat, z \in Nat :
              a = FrameEnd[i] /\ b = FrameEnd[k - 1] /\ c = FrameEnd[k] /\ z = FrameSize[k]
      BY <1>2, <2>1, <2>3
    <2>5. c = b + z /\ 6 <= z
      BY <1>1, <2>3, <2>4
    <2>6. i < k => a < c
      <3> SUFFICES ASSUME i < k PROVE a < c
        OBVIOUS
      <3>1. i < k - 1 \/ i = k - 1
        OBVIOUS
      <3>2. CASE i < k - 1
        BY <2>2, <2>4, <2>5, <3>2
      <3>3. CASE i = k - 1
        BY <2>4, <2>5, <3>3
      <3> QED BY <3>1, <3>2, <3>3
    <2> QED BY <2>1, <2>4, <2>6
  <1>4. f[0] \in {TRUE}
    <2>1. 0 \in 0 .. n /\ ~(i < 0)
      BY <1>1
    <2>2. (i < 0 => FrameEnd[i] < FrameEnd[0]) = TRUE
      BY <2>1
    <2> QED BY <2>1, <2>2
  <1>5. \A k \in 0 .. n : f[k] \in {TRUE}
    <2> HIDE DEF f, n
    <2>1. PICK S : S = {TRUE}
      OBVIOUS
    <2>2. n \in Nat /\ f[0] \in S /\ \A k \in 1 .. n : f[k - 1] \in S => f[k] \in S
      BY <1>1, <1>3, <1>4, <2>1
    <2>3. \A k \in 0 .. n : f[k] \in S
      BY ONLY <2>2, StaysWithin
    <2> QED BY <2>1, <2>3
  <1>6. f[j] \in {TRUE}
    BY <1>5
  <1> QED BY <1>6 DEF f

(* A place of the line: k frames and o bytes of the next have come.        *)
PlacedAt(a, k, o) ==
    /\ k \in Nat /\ k <= Len(SentFrames) /\ o \in Nat /\ a = FrameEnd[k] + o
    /\ k = Len(SentFrames) => o = 0
    /\ k # Len(SentFrames) => o < FrameSize[k + 1]

(* The frame that a place lies in, in numbers. *)
Around(a, k, o, g, z) ==
    /\ g \in Nat /\ z \in Nat /\ 6 <= z /\ z <= Longest /\ Longest \in Nat /\ a \in Nat /\ a = g + o
    /\ FrameEnd[k] = g /\ FrameEnd[k + 1] = g + z /\ FrameSize[k + 1] = z /\ o < z /\ o \in Nat
    /\ Len(SentBytes[k + 1]) = z
(* Every place that is not the end of the line lies in a frame. *)
LEMMA AroundPlace ==
    ASSUME NEW a, NEW k, NEW o, PlacedAt(a, k, o), k # Len(SentFrames)
    PROVE  \E g, z : Around(a, k, o, g, z)
  <1>1. k \in Nat /\ k <= Len(SentFrames) /\ o \in Nat /\ a = FrameEnd[k] + o /\ o < FrameSize[k + 1]
    BY DEF PlacedAt
  <1>2. Len(SentFrames) \in Nat
    BY FrameEnds
  <1>3. k \in 0 .. Len(SentFrames) /\ k + 1 \in 1 .. Len(SentFrames) /\ (k + 1) - 1 = k
    BY <1>1, <1>2
  <1>4. FrameSize[k + 1] \in Nat /\ 6 <= FrameSize[k + 1] /\ Len(Encode(SentFrames[k + 1])) = FrameSize[k + 1]
    BY <1>3, EncodeShape DEF Enclosed
  <1>5. FrameEnd[k] \in Nat /\ FrameEnd[k + 1] = FrameEnd[k] + FrameSize[k + 1]
    BY <1>3, FrameEnds
  <1>6. Longest \in Nat /\ FrameSize[k + 1] <= Longest
    BY <1>3, LongestFits
  <1>7. Len(SentBytes[k + 1]) = FrameSize[k + 1]
    BY <1>3, <1>4 DEF SentBytes
  <1>8. PICK g \in Nat, z \in Nat : g = FrameEnd[k] /\ z = FrameSize[k + 1]
    BY <1>4, <1>5
  <1>9. a = g + o /\ a \in Nat
    BY <1>1, <1>8
  <1>10. Around(a, k, o, g, z)
    BY <1>1, <1>4, <1>5, <1>6, <1>7, <1>8, <1>9 DEF Around
  <1> QED BY <1>10

(* The place one byte further. *)
LEMMA NextPlace ==
    ASSUME NEW a, NEW k, NEW o, PlacedAt(a, k, o), k # Len(SentFrames), NEW g, NEW z, Around(a, k, o, g, z)
    PROVE  /\ o + 1 # z => PlacedAt(a + 1, k, o + 1)
           /\ o + 1 = z => PlacedAt(a + 1, k + 1, 0)
  <1>1. k \in Nat /\ k <= Len(SentFrames) /\ Len(SentFrames) \in Nat
    BY FrameEnds DEF PlacedAt
  <1>2. /\ g \in Nat /\ z \in Nat /\ o \in Nat /\ o < z /\ a = g + o
        /\ FrameEnd[k] = g /\ FrameEnd[k + 1] = g + z /\ FrameSize[k + 1] = z
    BY DEF Around
  <1>3. ASSUME o + 1 # z PROVE PlacedAt(a + 1, k, o + 1)
    <2>1. o + 1 \in Nat /\ o + 1 < z /\ a + 1 = g + (o + 1)
      BY <1>2, <1>3
    <2> QED BY <1>1, <1>2, <2>1 DEF PlacedAt
  <1>4. ASSUME o + 1 = z PROVE PlacedAt(a + 1, k + 1, 0)
    <2>1. a + 1 = (g + z) + 0 /\ k + 1 \in Nat /\ k + 1 <= Len(SentFrames)
      BY <1>1, <1>2, <1>4
    <2>2. k + 1 # Len(SentFrames) => 0 < FrameSize[(k + 1) + 1]
      <3> SUFFICES ASSUME k + 1 # Len(SentFrames) PROVE 0 < FrameSize[(k + 1) + 1]
        OBVIOUS
      <3>1. PICK i \in 1 .. Len(SentFrames) : i = (k + 1) + 1
        BY <1>1, <2>1
      <3>2. FrameSize[i] \in Nat /\ 6 <= FrameSize[i]
        BY EncodeShape DEF Enclosed
      <3>3. 0 < FrameSize[i]
        BY <3>2
      <3> QED BY <3>1, <3>3
    <2> QED BY <1>2, <2>1, <2>2 DEF PlacedAt
  <1> QED BY <1>3, <1>4

(* Where a frame ends there is one place. *)
LEMMA OnePlace ==
    ASSUME NEW a, NEW k, NEW o, PlacedAt(a, k, o), NEW i \in 0 .. Len(SentFrames), FrameEnd[i] = a
    PROVE  i = k /\ o = 0
  <1>1. k \in Nat /\ k <= Len(SentFrames) /\ o \in Nat /\ a = FrameEnd[k] + o /\ Len(SentFrames) \in Nat
    BY FrameEnds DEF PlacedAt
  <1>2. k \in 0 .. Len(SentFrames) /\ FrameEnd[k] \in Nat /\ FrameEnd[i] \in Nat
    BY <1>1, FrameEnds
  <1>3. ~(i < k)
    <2> SUFFICES ASSUME i < k PROVE FALSE
      OBVIOUS
    <2>1. FrameEnd[i] < FrameEnd[k]
      BY <1>2, EndsGrow
    <2> QED BY <1>1, <1>2, <2>1
  <1>4. ~(k < i)
    <2> SUFFICES ASSUME k < i PROVE FALSE
      OBVIOUS
    <2>1. k # Len(SentFrames)
      BY <1>1
    <2>2. PICK g, z : Around(a, k, o, g, z)
      BY <2>1, AroundPlace
    <2>3. g \in Nat /\ z \in Nat /\ o < z /\ a = g + o /\ FrameEnd[k + 1] = g + z
      BY <2>2 DEF Around
    <2>4. k + 1 \in 0 .. Len(SentFrames) /\ (k + 1 = i \/ k + 1 < i)
      BY <1>1
    <2>5. FrameEnd[k + 1] <= FrameEnd[i]
      <3>1. CASE k + 1 = i
        BY <1>2, <3>1
      <3>2. CASE k + 1 < i
        <4>1. FrameEnd[k + 1] < FrameEnd[i]
          BY <2>4, <3>2, EndsGrow
        <4> QED BY <1>2, <2>3, <4>1
      <3> QED BY <2>4, <3>1, <3>2
    <2> QED BY <1>1, <2>3, <2>5
  <1>5. i = k
    BY <1>1, <1>3, <1>4
  <1> QED BY <1>1, <1>2, <1>5

(* What a decoder is about: nothing, a length to come, a body to collect.  *)
IsIdle(d) == \E m : d = Holding(<<>>, FALSE, 0, m)
Awaits(d) == \E m : d = Holding(<<>>, TRUE, 0, m)
Collects(d, b, x) ==
    /\ b \in Seq(Byte) /\ b # <<>> /\ x \in Nat /\ x # 0 /\ x <= 255
    /\ \E m : d = Holding(b, TRUE, x, m)

(* An idle decoder waits for a marker.                                     *)
LEMMA IdleHears ==
    ASSUME NEW d, IsIdle(d), NEW c, NEW s \in {Feed(d, c), SliceStep(d, c)}
    PROVE  (c = Marker => Awaits(s.dec)) /\ (c # Marker => IsIdle(s.dec))
  <1>1. PICK m : d = Holding(<<>>, FALSE, 0, m)
    BY DEF IsIdle
  <1>2. \A x : Stays(x).dec = x
    BY DEF Stays
  <1>3. CASE c = Marker
    <2>1. s = Stays(Holding(<<>>, TRUE, 0, m))
      BY <1>1, <1>3, HearsMarker
    <2> QED BY <1>2, <1>3, <2>1 DEF Awaits
  <1>4. CASE c # Marker
    <2>1. Facts(<<>>, FALSE, 0, m)
      BY HoldingFields
    <2>2. ~d.inFrame
      BY <1>1, <2>1 DEF Facts
    <2>3. Feed(d, c) = Stays(d)
      BY <1>4, <2>2 DEF Feed, FeedByte
    <2>4. SliceStep(d, c) = Stays(d)
      BY <1>4, <2>2 DEF SliceStep
    <2>5. s.dec = d
      BY <1>2, <2>3, <2>4
    <2> QED BY <1>4, <2>5
  <1> QED BY <1>3, <1>4

(* A decoder that saw a marker waits for a length.                         *)
LEMMA AwaitsHears ==
    ASSUME NEW d, Awaits(d), NEW c \in Byte, NEW s \in {Feed(d, c), SliceStep(d, c)}
    PROVE  /\ c = Marker => Awaits(s.dec)
           /\ c # Marker => IsIdle(s.dec) \/ (Collects(s.dec, <<c>>, c) /\ s.frames = <<>>)
  <1>1. PICK m : d = Holding(<<>>, TRUE, 0, m)
    BY DEF Awaits
  <1>2. \A x : Stays(x).dec = x /\ Stays(x).frames = <<>>
    BY DEF Stays
  <1>3. Facts(<<>>, TRUE, 0, m)
    BY HoldingFields
  <1>4. /\ d.inFrame = TRUE /\ d.buffer = <<>> /\ d.expected = 0 /\ Started(d) = d
        /\ ResetOnError(d) = Holding(<<>>, FALSE, 0, m + 1)
    BY <1>1, <1>3 DEF Facts
  <1>5. d.expected = 0 /\ ~(d.expected > 0)
    <2>1. PICK z \in Nat : z = 0 /\ ~(z > 0)
      OBVIOUS
    <2> QED BY <1>4, <2>1, Zenon
  <1>6. CASE c = Marker
    <2>1. FeedMarker(d) = Stays(d)
      BY <1>4, <1>5, Zenon DEF FeedMarker
    <2>2. SliceStep(d, c) = Stays(d)
      <3>1. SliceStep(d, c) = Stays(Started(d))
        BY <1>4, <1>5, <1>6, Zenon DEF SliceStep
      <3> QED BY <1>4, <3>1
    <2>3. s.dec = d
      BY <1>2, <1>6, <2>1, <2>2 DEF Feed
    <2> QED BY <1>6, <2>3
  <1>7. CASE c # Marker /\ BadLength(c)
    <2>1. FeedByte(d, c) = Stays(ResetOnError(d))
      BY <1>4, <1>7 DEF FeedByte
    <2>2. SliceStep(d, c) = Stays(ResetOnError(d))
      BY <1>4, <1>5, <1>7, Zenon DEF SliceStep
    <2>3. s.dec = Holding(<<>>, FALSE, 0, m + 1)
      BY <1>2, <1>4, <1>7, <2>1, <2>2 DEF Feed
    <2> QED BY <1>7, <2>3 DEF IsIdle
  <1>8. CASE c # Marker /\ ~BadLength(c)
    <2>1. c \in Nat /\ 4 <= c /\ c <= 255
      BY <1>8 DEF BadLength, Byte
    <2>2. s = Stays(Holding(<<c>>, TRUE, c, m))
      BY <1>1, <1>8, <2>1, HearsLength
    <2>3. <<c>> \in Seq(Byte) /\ <<c>> # <<>> /\ c # 0
      BY <2>1
    <2>4. Collects(s.dec, <<c>>, c)
      BY <1>2, <2>1, <2>2, <2>3 DEF Collects
    <2> QED BY <1>2, <1>8, <2>2, <2>4
  <1> QED BY <1>6, <1>7, <1>8

(* A decoder in a body collects every byte of it; behind it a marker makes *)
(* it idle, another byte too or is collected.                              *)
LEMMA BodyHears ==
    ASSUME NEW d, NEW b, NEW x, Collects(d, b, x), NEW c \in Byte, NEW s \in {Feed(d, c), SliceStep(d, c)}
    PROVE  /\ Len(b) < x => Collects(s.dec, Append(b, c), x)
           /\ ~(Len(b) < x) /\ c = Marker => IsIdle(s.dec)
           /\ ~(Len(b) < x) /\ c # Marker => IsIdle(s.dec) \/ Collects(s.dec, Append(b, c), x)
  <1>1. PICK m : d = Holding(b, TRUE, x, m)
    BY DEF Collects
  <1>2. b \in Seq(Byte) /\ b # <<>> /\ x \in Nat /\ x # 0 /\ x <= 255
    BY DEF Collects
  <1>3. \A y : Stays(y).dec = y
    BY DEF Stays
  <1>4. Facts(b, TRUE, x, m)
    BY HoldingFields
  <1>5. /\ d.inFrame = TRUE /\ d.buffer = b /\ d.expected = x
        /\ Idle(d) = Holding(<<>>, FALSE, 0, m) /\ ResetOnError(d) = Holding(<<>>, FALSE, 0, m + 1)
    BY <1>1, <1>4 DEF Facts
  <1>6. Append(b, c) \in Seq(Byte) /\ Append(b, c) # <<>>
    <2>1. Len(Append(b, c)) = Len(b) + 1
      BY <1>2
    <2> QED BY <1>2, <2>1
  <1>7. [d EXCEPT !.buffer = Append(@, c)] = Holding(Append(b, c), TRUE, x, m)
    <2>1. [d EXCEPT !.buffer = Append(b, c)] = Holding(Append(b, c), TRUE, x, m)
      BY <1>1, <1>4 DEF Facts
    <2>2. [d EXCEPT !.buffer = Append(@, c)] = [d EXCEPT !.buffer = Append(b, c)]
      BY <1>5
    <2> QED BY <2>1, <2>2
  <1>8. x > 0 /\ ~(x = 0) /\ Len(b) \in Nat
    BY <1>2
  <1>9. CASE Len(b) < x
    <2>1. s = Stays(Holding(Append(b, c), TRUE, x, m))
      <3>1. \A y : /\ Feed(d, y) = Stays(Holding(Append(b, y), TRUE, x, m))
                   /\ SliceStep(d, y) = Stays(Holding(Append(b, y), TRUE, x, m))
        BY ONLY <1>1, <1>2, <1>9, HearsBody
      <3> QED BY <3>1
    <2> QED BY <1>2, <1>3, <1>6, <1>9, <2>1 DEF Collects
  <1>10. CASE ~(Len(b) < x) /\ c = Marker
    <2>1. Len(b) >= x
      BY <1>2, <1>8, <1>10
    <2>2. FeedMarker(d) = Ends(d)
      BY <1>5, <1>8, <2>1 DEF FeedMarker
    <2>3. SliceStep(d, c) = Ends(d)
      BY <1>5, <1>8, <1>10 DEF SliceStep
    <2>4. s.dec = Idle(d) \/ s.dec = ResetOnError(d)
      BY <1>3, <1>10, <2>2, <2>3 DEF Feed, Ends
    <2> QED BY <1>5, <1>10, <2>4 DEF IsIdle
  <1>11. CASE ~(Len(b) < x) /\ c # Marker
    <2>1. FeedByte(d, c) = Stays([d EXCEPT !.buffer = Append(@, c)])
      BY <1>2, <1>5, <1>11 DEF FeedByte
    <2>2. SliceStep(d, c) = Stays(ResetOnError(d))
      BY <1>5, <1>8, <1>11 DEF SliceStep
    <2>3. s.dec = Holding(Append(b, c), TRUE, x, m) \/ s.dec = ResetOnError(d)
      BY <1>3, <1>7, <1>11, <2>1, <2>2 DEF Feed
    <2>4. CASE s.dec = ResetOnError(d)
      BY <1>5, <1>11, <2>4 DEF IsIdle
    <2>5. CASE s.dec = Holding(Append(b, c), TRUE, x, m)
      BY <1>2, <1>6, <1>11, <2>5 DEF Collects
    <2> QED BY <2>3, <2>4, <2>5
  <1> QED BY <1>9, <1>10, <1>11

(* The place after one more byte, in numbers. *)
Moved(a, k, o, z, l, p) ==
    /\ PlacedAt(a + 1, l, p)
    /\ o + 1 # z => l = k /\ p = o + 1
    /\ o + 1 = z => l = k + 1 /\ p = 0
(* Every byte leads to a next place. *)
LEMMA MovesOn ==
    ASSUME NEW a, NEW k, NEW o, PlacedAt(a, k, o), k # Len(SentFrames), NEW g, NEW z, Around(a, k, o, g, z)
    PROVE  \E l, p : Moved(a, k, o, z, l, p)
  <1>1. CASE o + 1 = z
    <2>1. Moved(a, k, o, z, k + 1, 0)
      BY <1>1, NextPlace DEF Moved
    <2> QED BY <2>1
  <1>2. CASE o + 1 # z
    <2>1. Moved(a, k, o, z, k, o + 1)
      BY <1>2, NextPlace DEF Moved
    <2> QED BY <2>1
  <1> QED BY <1>1, <1>2

(* Where every decoder has found its way back: a length byte that was not  *)
(* one is used up, and the frame it ended in, and one more frame.          *)
Limit(from) == from + 255 + 2 * Longest
(* In step with the line, and it has told of the frames since the limit.   *)
InPlace(d, told, a, from, k, o) ==
    /\ IF k = Len(SentFrames) THEN IsIdle(d) ELSE \E m : Reading(d, SentBytes[k + 1], o, m)
    /\ Limit(from) <= a /\ o = 0 => told # <<>> /\ told[Len(told)] = k
(* It took an end marker for a start, and the start marker will be next.   *)
AtEnd(d, a, from, o) == o = 0 /\ a < Limit(from) /\ Awaits(d)
(* It is idle inside a frame, and will take its end for a start.           *)
Skips(d, from, k, o) == o # 0 /\ FrameEnd[k + 1] < Limit(from) /\ IsIdle(d)
(* It waits for a length inside a frame.                                   *)
Mistook(d, a, from, o) == o # 0 /\ a <= from + 1 /\ Awaits(d)
(* It collects a body, or more than the body while no marker comes.        *)
Strays(d, a, from, k, o) ==
    \E b, x : /\ Collects(d, b, x)
              /\ Len(b) <= x => a <= from + 1 + Len(b)
              /\ ~(Len(b) <= x) => a <= from + 1 \/ (1 < o /\ FrameEnd[k + 1] < Limit(from))
Finding(d, told, a, from, k, o) ==
    /\ PlacedAt(a, k, o) /\ from \in Nat /\ from <= a
    /\ \/ InPlace(d, told, a, from, k, o) \/ AtEnd(d, a, from, o) \/ Skips(d, from, k, o)
       \/ Mistook(d, a, from, o) \/ Strays(d, a, from, k, o)

(* An idle decoder between frames is in step. *)
LEMMA IdleInPlace ==
    ASSUME NEW d, IsIdle(d), NEW told, NEW a, NEW from, NEW k,
           Limit(from) <= a => told # <<>> /\ told[Len(told)] = k
    PROVE  InPlace(d, told, a, from, k, 0)
  <1>1. \E m : Reading(d, SentBytes[k + 1], 0, m)
    BY DEF IsIdle, Reading
  <1> QED BY <1>1 DEF InPlace

(* The bytes of a frame: markers around what is none. *)
LEMMA PlaceByte ==
    ASSUME LengthsTold, NEW a, NEW k, NEW o, PlacedAt(a, k, o), k # Len(SentFrames),
           NEW g, NEW z, Around(a, k, o, g, z), Unmarked(SentBytes[k + 1])
    PROVE  /\ SentBytes[k + 1][o + 1] \in Byte
           /\ SentBytes[k + 1][o + 1] = Marker <=> o = 0 \/ o + 1 = z
  <1>1. k \in Nat /\ k <= Len(SentFrames) /\ Len(SentFrames) \in Nat
    BY FrameEnds DEF PlacedAt
  <1>2. k + 1 \in 1 .. Len(SentFrames)
    BY <1>1
  <1>3. PICK e, size : e = SentBytes[k + 1] /\ Sends(e, SentFrames[k + 1], size)
    <2>1. SentBytes[k + 1] = Encode(SentFrames[k + 1])
      BY <1>2 DEF SentBytes
    <2> QED BY <1>2, <2>1, EncodeSends
  <1>4. z \in Nat /\ o \in Nat /\ o < z /\ Len(e) = z
    BY <1>3 DEF Around
  <1>5. e \in Seq(Byte) /\ size \in Nat /\ Len(e) = size + 2 /\ e[1] = Marker /\ e[size + 2] = Marker
    BY <1>3 DEF Sends
  <1>6. o + 1 \in 1 .. Len(e) /\ z = size + 2
    BY <1>4, <1>5
  <1>7. e[o + 1] \in Byte
    BY <1>5, <1>6
  <1>8. o = 0 \/ o + 1 = z => e[o + 1] = Marker
    BY <1>4, <1>5, <1>6
  <1>9. ~(o = 0 \/ o + 1 = z) => e[o + 1] # Marker
    <2> SUFFICES ASSUME o # 0, o + 1 # z PROVE e[o + 1] # Marker
      OBVIOUS
    <2>1. o + 1 \in 2 .. Len(e) - 1
      BY <1>4
    <2> QED BY <1>3, <2>1 DEF Unmarked
  <1> QED BY <1>3, <1>7, <1>8, <1>9

(* A decoder that has read nothing of a frame is idle. *)
LEMMA NothingRead ==
    ASSUME NEW d, NEW e, NEW m, Reading(d, e, 0, m)
    PROVE  IsIdle(d)
  <1>1. PICK z \in Nat : z = 0 /\ ~(2 <= z) /\ z # 1
    OBVIOUS
  <1>2. Reading(d, e, z, m)
    BY <1>1
  <1>3. d = Holding(<<>>, FALSE, 0, m)
    BY <1>1, <1>2 DEF Reading
  <1> QED BY <1>3 DEF IsIdle

(* The next byte of a clean line finds a decoder that is on its way, or in *)
(* step, so again.                                                         *)
LEMMA FindsNext ==
    ASSUME LengthsTold, NEW d, NEW told \in Seq(Int), NEW a, NEW from, NEW k, NEW o,
           Finding(d, told, a, from, k, o), k # Len(SentFrames), Unmarked(SentBytes[k + 1]),
           NEW c, c = SentBytes[k + 1][o + 1], NEW s \in {Feed(d, c), SliceStep(d, c)},
           NEW r, r = told \o [i \in 1 .. Len(s.frames) |-> NumberOf(s.frames[i], SentFrames)]
    PROVE  \E l, p : Finding(s.dec, r, a + 1, from, l, p)
  <1>1. PlacedAt(a, k, o) /\ from \in Nat /\ from <= a
    BY DEF Finding
  <1>2. PICK g, z : Around(a, k, o, g, z)
    BY <1>1, AroundPlace
  <1>3. PICK l, p : Moved(a, k, o, z, l, p)
    BY <1>1, <1>2, MovesOn
  <1>4. c \in Byte /\ (c = Marker <=> o = 0 \/ o + 1 = z)
    BY <1>1, <1>2, PlaceByte
  <1>5. PICK far \in Nat, limit \in Nat :
            /\ far = Longest /\ limit = Limit(from) /\ limit = from + 255 + 2 * far /\ z <= far
    <2>1. Longest \in Nat /\ z <= Longest
      BY <1>2 DEF Around
    <2> QED BY <1>1, <2>1 DEF Limit
  <1>6. /\ g \in Nat /\ z \in Nat /\ 6 <= z /\ a \in Nat /\ a = g + o /\ o \in Nat /\ o < z
        /\ FrameEnd[k + 1] = g + z /\ k \in Nat
    BY <1>1, <1>2 DEF Around, PlacedAt
  <1>7. PICK e \in Nat : e = FrameEnd[k + 1] /\ e = g + z /\ a < e /\ e <= a + far /\ (o + 1 = z => a + 1 = e)
                         /\ (o # 0 => e < a + far)
    <2>1. PICK e \in Nat : e = FrameEnd[k + 1] /\ e = g + z
      <3>1. g + z \in Nat
        BY ONLY <1>6
      <3>2. FrameEnd[k + 1] = g + z
        BY <1>6
      <3> QED BY <3>1, <3>2, Zenon
    <2>2. a < e /\ e <= a + far /\ (o + 1 = z => a + 1 = e) /\ (o # 0 => e < a + far)
      BY <1>5, <1>6, <2>1
    <2> QED BY <2>1, <2>2
  <1>8. /\ PlacedAt(a + 1, l, p) /\ from <= a + 1
        /\ o + 1 # z => l = k /\ p = o + 1 /\ p # 0 /\ (o # 0 => 1 < p)
        /\ o + 1 = z => l = k + 1 /\ p = 0
    <2>1. from <= a + 1 /\ o + 1 # 0 /\ (o # 0 => 1 < o + 1)
      BY ONLY <1>1, <1>6
    <2> QED BY <1>3, <2>1 DEF Moved
  <1> SUFFICES \/ InPlace(s.dec, r, a + 1, from, l, p) \/ AtEnd(s.dec, a + 1, from, p)
               \/ Skips(s.dec, from, l, p) \/ Mistook(s.dec, a + 1, from, p)
               \/ Strays(s.dec, a + 1, from, l, p)
    BY <1>1, <1>8 DEF Finding
  (* What the next byte makes of a decoder that is idle or awaits. *)
  <1>9. ASSUME IsIdle(s.dec), o + 1 # z, e < limit PROVE Skips(s.dec, from, l, p)
    BY <1>5, <1>7, <1>8, <1>9 DEF Skips
  <1>10. ASSUME IsIdle(s.dec), o + 1 = z, a + 1 < limit PROVE InPlace(s.dec, r, a + 1, from, l, p)
    <2>1. ~(Limit(from) <= a + 1)
      BY <1>5, <1>6, <1>10
    <2> QED BY <1>8, <1>10, <2>1, IdleInPlace
  <1>11. ASSUME Awaits(s.dec), o + 1 = z, a + 1 < limit PROVE AtEnd(s.dec, a + 1, from, p)
    BY <1>5, <1>8, <1>11 DEF AtEnd
  <1>12. CASE InPlace(d, told, a, from, k, o)
    <2>1. PICK m : Reading(d, SentBytes[k + 1], o, m)
      BY <1>12 DEF InPlace
    <2>2. k + 1 \in 1 .. Len(SentFrames)
      BY <1>1, FrameEnds DEF PlacedAt
    <2>3. PICK frame, size : frame = SentFrames[k + 1] /\ Sends(SentBytes[k + 1], frame, size)
      <3>1. SentBytes[k + 1] = Encode(SentFrames[k + 1])
        BY <2>2 DEF SentBytes
      <3> QED BY <2>2, <3>1, EncodeSends
    <2>4. Len(SentBytes[k + 1]) = z
      BY <1>2 DEF Around
    <2>5. HeardNext(s, SentBytes[k + 1], o, frame, m)
      BY <1>6, <2>1, <2>3, <2>4, HearsNext
    <2>6. CASE o + 1 # z
      <3>0. o + 1 < Len(SentBytes[k + 1])
        BY <1>6, <2>4, <2>6
      <3>1. Reading(s.dec, SentBytes[l + 1], p, m)
        <4>1. Reading(s.dec, SentBytes[k + 1], o + 1, m)
          BY <2>5, <3>0 DEF HeardNext
        <4> QED BY <1>8, <2>6, <4>1
      <3>2. l # Len(SentFrames) /\ p # 0
        BY <1>8, <2>6
      <3> QED BY <3>1, <3>2 DEF InPlace
    <2>7. CASE o + 1 = z
      <3>1. s.frames = <<frame>> /\ Reading(s.dec, SentBytes[k + 1], 0, m)
        BY <2>4, <2>5, <2>7 DEF HeardNext
      <3>2. IsIdle(s.dec)
        <4>1. Reading(s.dec, SentBytes[k + 1], 0, m)
          BY <3>1
        <4> QED BY ONLY <4>1, NothingRead
      <3>3. PICK number \in Int : number = NumberOf(frame, SentFrames) /\ number = l
        BY <1>6, <1>8, <2>2, <2>3, <2>7, NumberOfFrame
      <3>4. r = told \o <<number>>
        <4>1. [i \in 1 .. Len(s.frames) |-> NumberOf(s.frames[i], SentFrames)] = <<number>>
          <5>1. s.frames = <<frame>>
            BY <3>1
          <5>2. NumberOf(frame, SentFrames) = number
            BY <3>3
          <5> QED BY <5>1, <5>2
        <4> QED BY <4>1
      <3>5. r # <<>> /\ r[Len(r)] = l
        <4>1. Len(r) = Len(told) + 1 /\ r[Len(told) + 1] = number
          BY <3>4
        <4> QED BY <3>3, <4>1
      <3> QED BY <1>8, <2>7, <3>2, <3>5, IdleInPlace
    <2> QED BY <2>6, <2>7
  <1>13. CASE AtEnd(d, a, from, o)
    <2>1. o = 0 /\ a < limit /\ Awaits(d)
      BY <1>5, <1>13 DEF AtEnd
    <2>2. Awaits(s.dec)
      BY <1>4, <2>1, AwaitsHears
    <2>3. l = k /\ p = 1
      BY <1>6, <1>8, <2>1
    <2>4. \E m : Reading(s.dec, SentBytes[l + 1], p, m)
      BY <2>2, <2>3 DEF Awaits, Reading
    <2> QED BY <2>3, <2>4 DEF InPlace
  <1>14. CASE Skips(d, from, k, o)
    <2>1. o # 0 /\ e < limit /\ IsIdle(d)
      BY <1>5, <1>7, <1>14 DEF Skips
    <2>2. CASE o + 1 = z
      <3>1. Awaits(s.dec)
        BY <1>4, <2>1, <2>2, IdleHears
      <3> QED BY <1>7, <1>11, <2>1, <2>2, <3>1
    <2>3. CASE o + 1 # z
      <3>1. IsIdle(s.dec)
        BY <1>4, <2>1, <2>3, IdleHears
      <3> QED BY <1>9, <2>1, <2>3, <3>1
    <2> QED BY <2>2, <2>3
  <1>15. CASE Mistook(d, a, from, o)
    <2>1. o # 0 /\ a <= from + 1 /\ Awaits(d)
      BY <1>15 DEF Mistook
    <2>2. CASE o + 1 = z
      <3>1. Awaits(s.dec)
        BY <1>4, <2>1, <2>2, AwaitsHears
      <3>2. a + 1 < limit
        BY <1>1, <1>5, <1>6, <2>1
      <3> QED BY <1>11, <2>2, <3>1, <3>2
    <2>3. CASE o + 1 # z
      <3>1. IsIdle(s.dec) \/ Collects(s.dec, <<c>>, c)
        BY <1>4, <2>1, <2>3, AwaitsHears
      <3>2. CASE IsIdle(s.dec)
        <4>1. e < limit
          BY <1>1, <1>5, <1>6, <1>7, <2>1
        <4> QED BY <1>9, <2>3, <3>2, <4>1
      <3>3. CASE Collects(s.dec, <<c>>, c)
        <4>1. c \in Nat /\ c # 0
          BY <3>3 DEF Collects
        <4>2. Len(<<c>>) = 1 /\ Len(<<c>>) <= c /\ a + 1 <= from + 1 + 1
          BY <1>1, <1>6, <2>1, <4>1
        <4> QED BY <3>3, <4>2 DEF Strays
      <3> QED BY <3>1, <3>2, <3>3
    <2> QED BY <2>2, <2>3
  <1>16. CASE Strays(d, a, from, k, o)
    <2>1. PICK b, x : /\ Collects(d, b, x)
                      /\ Len(b) <= x => a <= from + 1 + Len(b)
                      /\ ~(Len(b) <= x) => a <= from + 1 \/ (1 < o /\ e < limit)
      BY <1>5, <1>7, <1>16 DEF Strays
    <2>2. PICK n \in Nat : n = Len(b) /\ x \in Nat /\ x <= 255 /\ Len(Append(b, c)) = n + 1
      BY <1>4, <2>1 DEF Collects
    <2>3. CASE n < x
      <3>1. Collects(s.dec, Append(b, c), x)
        BY <1>4, <2>1, <2>2, <2>3, BodyHears
      <3>2. n + 1 <= x /\ a + 1 <= from + 1 + (n + 1)
        BY <1>1, <1>6, <2>1, <2>2, <2>3
      <3> QED BY <2>2, <3>1, <3>2 DEF Strays
    <2>4. CASE ~(n < x)
      <3>1. a <= from + 256 \/ (1 < o /\ e < limit)
        BY <1>1, <1>6, <2>1, <2>2, <2>4
      <3>2. CASE o + 1 = z
        <4>1. IsIdle(s.dec)
          BY <1>4, <2>1, <2>2, <2>4, <3>2, BodyHears
        <4>2. a + 1 < limit
          BY <1>1, <1>5, <1>6, <1>7, <3>1, <3>2
        <4> QED BY <1>10, <3>2, <4>1, <4>2
      <3>3. CASE o = 0
        <4>1. IsIdle(s.dec)
          BY <1>4, <2>1, <2>2, <2>4, <3>3, BodyHears
        <4>2. e < limit /\ o + 1 # z
          BY <1>1, <1>5, <1>6, <1>7, <3>1, <3>3
        <4> QED BY <1>9, <4>1, <4>2
      <3>4. CASE o # 0 /\ o + 1 # z
        <4>1. IsIdle(s.dec) \/ Collects(s.dec, Append(b, c), x)
          BY <1>4, <2>1, <2>2, <2>4, <3>4, BodyHears
        <4>2. e < limit
          BY <1>1, <1>5, <1>6, <1>7, <3>1, <3>4
        <4>3. CASE IsIdle(s.dec)
          BY <1>9, <3>4, <4>2, <4>3
        <4>4. CASE Collects(s.dec, Append(b, c), x)
          <5>1. ~(n + 1 <= x)
            BY <2>2, <2>4
          <5>2. 1 < p /\ FrameEnd[l + 1] < Limit(from)
            BY <1>5, <1>7, <1>8, <3>4, <4>2
          <5> QED BY <2>2, <4>4, <5>1, <5>2 DEF Strays
        <4> QED BY <4>1, <4>3, <4>4
      <3> QED BY <3>2, <3>3, <3>4
    <2> QED BY <2>3, <2>4
  <1> QED BY <1>12, <1>13, <1>14, <1>15, <1>16 DEF Finding

(* What a decoder in step is about. *)
ReadsIn(d, o, z) ==
    \/ o = 0 /\ IsIdle(d)
    \/ o = 1 /\ Awaits(d)
    \/ 2 <= o /\ \E b, x : Collects(d, b, x) /\ Len(b) = o - 1 /\ x = z - 2
(* A decoder in step reads what the place says. *)
LEMMA InStepIs ==
    ASSUME LengthsTold, NEW d, NEW a, NEW k, NEW o, PlacedAt(a, k, o), k # Len(SentFrames),
           NEW g, NEW z, Around(a, k, o, g, z), NEW m, Reading(d, SentBytes[k + 1], o, m)
    PROVE  ReadsIn(d, o, z)
  <1>1. k \in Nat /\ k <= Len(SentFrames) /\ Len(SentFrames) \in Nat
    BY FrameEnds DEF PlacedAt
  <1>2. k + 1 \in 1 .. Len(SentFrames)
    BY <1>1
  <1>3. PICK e, size : e = SentBytes[k + 1] /\ Sends(e, SentFrames[k + 1], size)
    <2>1. SentBytes[k + 1] = Encode(SentFrames[k + 1])
      BY <1>2 DEF SentBytes
    <2> QED BY <1>2, <2>1, EncodeSends
  <1>4. z \in Nat /\ o \in Nat /\ o < z /\ Len(e) = z
    BY <1>3 DEF Around
  <1>5. /\ e \in Seq(Byte) /\ size \in Nat /\ 4 <= size /\ size <= 255
        /\ Len(e) = size + 2 /\ e[2] = size
    BY <1>3 DEF Sends
  <1>6. CASE o = 0
    BY <1>6, NothingRead DEF ReadsIn
  <1>7. CASE o = 1
    <2>1. d = Holding(<<>>, TRUE, 0, m)
      BY <1>7 DEF Reading
    <2> QED BY <1>7, <2>1 DEF Awaits, ReadsIn
  <1>8. CASE o # 0 /\ o # 1
    <2>1. 2 <= o /\ size = z - 2 /\ size # 0 /\ o < Len(e)
      BY ONLY <1>4, <1>5, <1>8
    <2>2. d = Holding(SubSeq(e, 2, o), TRUE, size, m)
      BY <1>3, <1>5, <1>8 DEF Reading
    <2>3. PICK b : b = SubSeq(e, 2, o)
      OBVIOUS
    <2>4. b \in Seq(Byte) /\ Len(b) = o - 1
      <3>1. SubSeq(e, 2, o) \in Seq(Byte) /\ Len(SubSeq(e, 2, o)) = o - 1
        BY ONLY <1>4, <1>5, <2>1, OneMore
      <3> QED BY <2>3, <3>1
    <2>5. b # <<>>
      <3>1. Len(b) # 0
        BY ONLY <1>4, <2>1, <2>4
      <3> QED BY <3>1
    <2>6. Collects(d, b, size)
      BY <1>5, <2>1, <2>2, <2>3, <2>4, <2>5 DEF Collects
    <2> QED BY <2>1, <2>4, <2>6 DEF ReadsIn
  <1> QED BY <1>6, <1>7, <1>8

(* A place of the line in numbers, and the next one, near the fault. *)
Near(a, k, o, z, l, p) ==
    /\ a \in Nat /\ z \in Nat /\ o \in Nat /\ o < z /\ 6 <= z
    /\ PlacedAt(a + 1, l, p) /\ a <= a + 1 /\ a + 1 < Limit(a) /\ a < Limit(a)
    /\ o + 1 # z => p = o + 1 /\ p # 0 /\ FrameEnd[l + 1] < Limit(a)
    /\ o + 1 = z => p = 0
(* The frame a fault hits ends long before the limit. *)
LEMMA NearFault ==
    ASSUME NEW a, NEW k, NEW o, PlacedAt(a, k, o), k # Len(SentFrames), NEW g, NEW z, Around(a, k, o, g, z)
    PROVE  \E l, p : Near(a, k, o, z, l, p)
  <1>1. PICK l, p : Moved(a, k, o, z, l, p)
    BY MovesOn
  <1>2. /\ g \in Nat /\ z \in Nat /\ 6 <= z /\ z <= Longest /\ Longest \in Nat /\ a \in Nat /\ a = g + o
        /\ o \in Nat /\ o < z /\ FrameEnd[k + 1] = g + z
    BY DEF Around
  <1>3. PICK far \in Nat, limit \in Nat : far = Longest /\ limit = Limit(a) /\ limit = a + 255 + 2 * far
    BY <1>2 DEF Limit
  <1>4. g + z < limit /\ a + 1 < limit /\ a < limit /\ a <= a + 1 /\ o + 1 # 0
    <2>1. z <= far
      BY <1>2, <1>3
    <2> QED BY ONLY <1>2, <1>3, <2>1
  <1>5. Near(a, k, o, z, l, p)
    BY <1>1, <1>2, <1>3, <1>4 DEF Moved, Near
  <1> QED BY <1>5

(* A byte that is lost leaves the decoder one behind. *)
LEMMA LossFinds ==
    ASSUME LengthsTold, NEW d, NEW a, NEW k, NEW o, PlacedAt(a, k, o), k # Len(SentFrames),
           NEW m, Reading(d, SentBytes[k + 1], o, m), NEW r
    PROVE  \E l, p : Finding(d, r, a + 1, a, l, p)
  <1>1. PICK g, z : Around(a, k, o, g, z)
    BY AroundPlace
  <1>2. PICK l, p : Near(a, k, o, z, l, p)
    BY <1>1, NearFault
  <1>3. /\ a \in Nat /\ z \in Nat /\ o \in Nat /\ o < z /\ 6 <= z
        /\ PlacedAt(a + 1, l, p) /\ a <= a + 1
        /\ o + 1 # z => p = o + 1 /\ p # 0 /\ FrameEnd[l + 1] < Limit(a)
    BY <1>2 DEF Near
  <1>4. CASE o = 0 /\ IsIdle(d)
    <2>1. o + 1 # z
      BY ONLY <1>3, <1>4
    <2>2. Skips(d, a, l, p)
      BY <1>3, <1>4, <2>1 DEF Skips
    <2> QED BY <1>3, <2>2 DEF Finding
  <1>5. CASE o = 1 /\ Awaits(d)
    <2>1. o + 1 # z /\ a + 1 <= a + 1
      BY ONLY <1>3, <1>5
    <2>2. Mistook(d, a + 1, a, p)
      BY <1>3, <1>5, <2>1 DEF Mistook
    <2> QED BY <1>3, <2>2 DEF Finding
  <1>6. CASE 2 <= o /\ \E b, x : Collects(d, b, x) /\ Len(b) = o - 1 /\ x = z - 2
    <2>1. PICK b, x : Collects(d, b, x) /\ Len(b) = o - 1 /\ x = z - 2
      BY <1>6
    <2>2. Len(b) <= x /\ a + 1 <= a + 1 + Len(b)
      <3>1. Len(b) = o - 1 /\ x = z - 2 /\ 2 <= o
        BY <1>6, <2>1
      <3> QED BY ONLY <1>3, <3>1
    <2>3. Strays(d, a + 1, a, l, p)
      BY <2>1, <2>2 DEF Strays
    <2> QED BY <1>3, <2>3 DEF Finding
  <1>7. ReadsIn(d, o, z)
    BY <1>1, InStepIs
  <1> QED BY <1>4, <1>5, <1>6, <1>7 DEF ReadsIn

(* Whatever is heard for a byte of the line, the decoder is on its way. *)
LEMMA FlipFinds ==
    ASSUME LengthsTold, NEW d, NEW a, NEW k, NEW o, PlacedAt(a, k, o), k # Len(SentFrames),
           NEW m, Reading(d, SentBytes[k + 1], o, m), NEW c \in Byte,
           NEW s \in {Feed(d, c), SliceStep(d, c)}, NEW r
    PROVE  \E l, p : Finding(s.dec, r, a + 1, a, l, p)
  <1>1. PICK g, z : Around(a, k, o, g, z)
    BY AroundPlace
  <1>2. PICK l, p : Near(a, k, o, z, l, p)
    BY <1>1, NearFault
  <1>3. /\ a \in Nat /\ z \in Nat /\ o \in Nat /\ o < z /\ 6 <= z
        /\ PlacedAt(a + 1, l, p) /\ a <= a + 1 /\ a + 1 < Limit(a)
        /\ o + 1 # z => p = o + 1 /\ p # 0 /\ FrameEnd[l + 1] < Limit(a)
        /\ o + 1 = z => p = 0
    BY <1>2 DEF Near
  <1>4. ASSUME IsIdle(s.dec) PROVE Finding(s.dec, r, a + 1, a, l, p)
    <2>1. CASE o + 1 = z
      <3>1. ~(Limit(a) <= a + 1)
        <4>1. PICK limit \in Nat : limit = Limit(a)
          <5>1. Longest \in Nat
            BY FrameEnds, LongestFits
          <5> QED BY <1>3, <5>1 DEF Limit
        <4> QED BY <1>3, <4>1
      <3>2. InPlace(s.dec, r, a + 1, a, l, p)
        BY <1>3, <1>4, <2>1, <3>1, IdleInPlace
      <3> QED BY <1>3, <3>2 DEF Finding
    <2>2. CASE o + 1 # z
      <3>1. Skips(s.dec, a, l, p)
        BY <1>3, <1>4, <2>2 DEF Skips
      <3> QED BY <1>3, <3>1 DEF Finding
    <2> QED BY <2>1, <2>2
  <1>5. ASSUME NEW b, NEW x, Collects(s.dec, b, x) PROVE Finding(s.dec, r, a + 1, a, l, p)
    <2>1. Len(b) \in Nat
      BY <1>5 DEF Collects
    <2>2. a + 1 <= a + 1 /\ a + 1 <= a + 1 + Len(b)
      BY ONLY <1>3, <2>1
    <2>3. Strays(s.dec, a + 1, a, l, p)
      BY <1>5, <2>2 DEF Strays
    <2> QED BY <1>3, <2>3 DEF Finding
  <1>6. CASE o = 0 /\ IsIdle(d)
    <2>1. CASE c = Marker
      <3>1. Awaits(s.dec)
        BY <1>6, <2>1, IdleHears
      <3>2. o + 1 # z /\ o + 1 # 0 /\ a + 1 <= a + 1
        BY ONLY <1>3, <1>6
      <3>3. Mistook(s.dec, a + 1, a, p)
        BY <1>3, <3>1, <3>2 DEF Mistook
      <3> QED BY <1>3, <3>3 DEF Finding
    <2>2. CASE c # Marker
      BY <1>4, <1>6, <2>2, IdleHears
    <2> QED BY <2>1, <2>2
  <1>7. CASE o = 1 /\ Awaits(d)
    <2>1. CASE c = Marker
      <3>1. Awaits(s.dec)
        BY <1>7, <2>1, AwaitsHears
      <3>2. o + 1 # z /\ o + 1 # 0 /\ a + 1 <= a + 1
        BY ONLY <1>3, <1>7
      <3>3. Mistook(s.dec, a + 1, a, p)
        BY <1>3, <3>1, <3>2 DEF Mistook
      <3> QED BY <1>3, <3>3 DEF Finding
    <2>2. CASE c # Marker
      <3>1. IsIdle(s.dec) \/ Collects(s.dec, <<c>>, c)
        BY <1>7, <2>2, AwaitsHears
      <3> QED BY <1>4, <1>5, <3>1
    <2> QED BY <2>1, <2>2
  <1>8. CASE 2 <= o /\ \E b, x : Collects(d, b, x) /\ Len(b) = o - 1 /\ x = z - 2
    <2>1. PICK b, x : Collects(d, b, x)
      BY <1>8
    <2>2. IsIdle(s.dec) \/ Collects(s.dec, Append(b, c), x)
      BY <2>1, BodyHears
    <2> QED BY <1>4, <1>5, <2>2
  <1>9. ReadsIn(d, o, z)
    BY <1>1, InStepIs
  <1> QED BY <1>6, <1>7, <1>8, <1>9 DEF ReadsIn

(* A byte that comes between two frames. *)
LEMMA NoiseFinds ==
    ASSUME NEW d, IsIdle(d), NEW a, NEW k, PlacedAt(a, k, 0), NEW c,
           NEW s \in {Feed(d, c), SliceStep(d, c)}, NEW r
    PROVE  Finding(s.dec, r, a, a, k, 0)
  <1>1. a \in Nat
    <2>1. k \in Nat /\ k <= Len(SentFrames) /\ Len(SentFrames) \in Nat /\ a = FrameEnd[k] + 0
      BY FrameEnds DEF PlacedAt
    <2>2. k \in 0 .. Len(SentFrames)
      BY ONLY <2>1
    <2>3. FrameEnd[k] \in Nat
      BY <2>2, FrameEnds
    <2> QED BY <2>1, <2>3
  <1>2. PICK limit \in Nat : limit = Limit(a) /\ a < limit /\ ~(limit <= a) /\ a <= a
    <2>1. Longest \in Nat
      BY FrameEnds, LongestFits
    <2>2. PICK far \in Nat, limit \in Nat : far = Longest /\ limit = Limit(a) /\ limit = a + 255 + 2 * far
      BY <1>1, <2>1 DEF Limit
    <2>3. a < limit /\ ~(limit <= a) /\ a <= a
      BY ONLY <1>1, <2>2
    <2> QED BY <2>2, <2>3
  <1>3. CASE c = Marker
    <2>1. AtEnd(s.dec, a, a, 0)
      BY <1>2, <1>3, IdleHears DEF AtEnd
    <2> QED BY <1>1, <1>2, <2>1 DEF Finding
  <1>4. CASE c # Marker
    <2>1. InPlace(s.dec, r, a, a, k, 0)
      BY <1>2, <1>4, IdleHears, IdleInPlace
    <2> QED BY <1>1, <1>2, <2>1 DEF Finding
  <1> QED BY <1>3, <1>4

(* A line without faults has a place. *)
LEMMA LineIsPlaced ==
    ASSUME NEW k, NEW o, LineAt(k, o), kind \in Lines
    PROVE  /\ PlacedAt(at, k, o)
           /\ k # Len(SentFrames) => Reading(rx, SentBytes[k + 1], o, 0)
           /\ k # 0 => out # <<>> /\ out[Len(out)] = k
  <1>1. /\ k \in Nat /\ k <= Len(SentFrames) /\ o \in Nat /\ at = FrameEnd[k] + o /\ UpTo(Items, k)
        /\ k = Len(SentFrames) => o = 0
        /\ k # Len(SentFrames) => o < Len(SentBytes[k + 1]) /\ Reading(rx, SentBytes[k + 1], o, 0)
    BY DEF LineAt
  <1>2. Len(SentFrames) \in Nat
    BY FrameEnds
  <1>3. k # Len(SentFrames) => Len(SentBytes[k + 1]) = FrameSize[k + 1]
    <2> SUFFICES ASSUME k # Len(SentFrames) PROVE Len(SentBytes[k + 1]) = FrameSize[k + 1]
      OBVIOUS
    <2>1. PICK i \in 1 .. Len(SentFrames) : i = k + 1
      BY <1>1, <1>2
    <2>2. SentBytes[i] = Encode(SentFrames[i])
      BY DEF SentBytes
    <2>3. Len(SentBytes[i]) = FrameSize[i]
      BY <2>2, EncodeShape DEF Enclosed
    <2> QED BY <2>1, <2>3
  <1>4. PlacedAt(at, k, o)
    BY <1>1, <1>3 DEF PlacedAt
  <1>5. k # 0 => out # <<>> /\ out[Len(out)] = k
    <2> SUFFICES ASSUME k # 0 PROVE out # <<>> /\ out[Len(out)] = k
      OBVIOUS
    <2>1. PICK i \in 1 .. Len(SentFrames) : i = k
      BY <1>1, <1>2
    <2>2. Items[i] = i
      BY <2>1, LineItems
    <2> QED BY <1>1, <2>1, <2>2 DEF UpTo
  <1> QED BY <1>1, <1>4, <1>5

-----------------------------------------------------------------------------
(* The decoders of a line that spoils a byte.                              *)
OnItsWay == \E k, o : Finding(rx, out, at, faultAt, k, o)
WayInv ==
    /\ LineInv
    /\ kind \in Lines => out \in Seq(Int) /\ faultAt \in Nat
    /\ faults = 0 => LineTold
    /\ kind \in Lines /\ faults # 0 /\ ComesClean => OnItsWay

(* Back in step a decoder has told of every frame with its last byte.      *)
LEMMA WayLeads ==
    ASSUME WayInv, ComesClean
    PROVE  Resync
  <1> SUFFICES ASSUME kind \in Lines, at >= faultAt + 255 + 2 * Longest,
                      NEW i \in 1 .. Len(SentFrames), FrameEnd[i] = at
               PROVE  out # <<>> /\ out[Len(out)] = i
    BY DEF Resync
  <1>1. Longest \in Nat /\ faultAt \in Nat /\ at \in Nat /\ Len(SentFrames) \in Nat
    BY FrameEnds, LongestFits DEF WayInv, LineInv
  <1>2. i \in 0 .. Len(SentFrames) /\ i # 0
    BY <1>1
  <1>3. CASE faults = 0
    <2>1. PICK k, o : LineAt(k, o)
      BY <1>3 DEF WayInv, LineTold
    <2>2. PlacedAt(at, k, o)
      BY <2>1, LineIsPlaced
    <2>3. i = k
      BY <1>2, <2>2, OnePlace
    <2> QED BY <1>2, <2>1, <2>3, LineIsPlaced
  <1>4. CASE faults # 0
    <2>1. PICK k, o : Finding(rx, out, at, faultAt, k, o)
      BY <1>4 DEF WayInv, OnItsWay
    <2>2. PlacedAt(at, k, o)
      BY <2>1 DEF Finding
    <2>3. i = k /\ o = 0
      BY <1>2, <2>2, OnePlace
    <2>4. PICK limit \in Nat, far \in Nat :
              limit = Limit(faultAt) /\ far = Longest /\ limit = faultAt + 255 + 2 * far /\ limit <= at
      BY <1>1 DEF Limit
    <2>5. ~(at < limit) /\ ~(1 < o)
      BY <1>1, <2>3, <2>4
    <2>6. 6 <= far
      <3>1. FrameSize[i] \in Nat /\ 6 <= FrameSize[i] /\ FrameSize[i] <= Longest
        BY EncodeShape, LongestFits DEF Enclosed
      <3> QED BY <2>4, <3>1
    <2>7. ~Strays(rx, at, faultAt, k, o)
      <3> SUFFICES ASSUME NEW b, NEW x, Collects(rx, b, x),
                          Len(b) <= x => at <= faultAt + 1 + Len(b),
                          ~(Len(b) <= x) => at <= faultAt + 1
                   PROVE  FALSE
        BY <2>5 DEF Strays
      <3>1. Len(b) \in Nat /\ x \in Nat /\ x <= 255
        BY DEF Collects
      <3> QED BY <1>1, <2>4, <2>6, <3>1
    <2>8. InPlace(rx, out, at, faultAt, k, o)
      BY <2>1, <2>3, <2>4, <2>5, <2>7 DEF Finding, AtEnd, Skips, Mistook
    <2> QED BY <2>3, <2>4, <2>8 DEF InPlace
  <1> QED BY <1>3, <1>4

(* At the start no fault has come. *)
LEMMA WayStarts ==
    ASSUME Init
    PROVE  WayInv
  <1>1. LineTold
    BY ToldAtStart DEF Told
  <1>2. out = <<>> /\ faultAt = 0 /\ faults = 0
    BY DEF Init
  <1>3. LineInv
    BY LineStarts
  <1>4. <<>> \in Seq(Int) /\ 0 \in Nat
    OBVIOUS
  <1> QED BY <1>1, <1>2, <1>3, <1>4 DEF WayInv

(* A byte gives a frame or none. *)
LEMMA FewFrames ==
    ASSUME NEW d, DecoderFits(d), NEW c, NEW s \in {Feed(d, c), SliceStep(d, c)}
    PROVE  s.frames = <<>> \/ \E frame : s.frames = <<frame>>
  <1>1. PICK b, f, e, m : Fits(b, f, e, m) /\ d = Holding(b, f, e, m)
    BY DEF DecoderFits
  <1>2. d.buffer = b /\ d.inFrame = f /\ d.expected = e
    <2>1. Facts(b, f, e, m)
      BY HoldingFields
    <2> QED BY <1>1, <2>1 DEF Facts
  <1>3. (f = TRUE \/ f = FALSE) /\ e \in Nat /\ (e = 0 \/ e > 0)
    BY <1>1 DEF Fits
  <1>4. \A x : Stays(x).frames = <<>>
    BY DEF Stays
  <1>5. Ends(d).frames = <<>> \/ \E frame : Ends(d).frames = <<frame>>
    BY <1>4 DEF Ends
  <1>6. Feed(d, c) = Ends(d) \/ \E x : Feed(d, c) = Stays(x)
    <2>1. CASE c = Marker
      <3>1. FeedMarker(d) = Ends(d) \/ \E x : FeedMarker(d) = Stays(x)
        <4>1. CASE f = FALSE
          <5>1. FeedMarker(d) = Stays(Started(d))
            BY <1>2, <4>1 DEF FeedMarker
          <5> QED BY <5>1
        <4>2. CASE f = TRUE /\ e > 0
          <5>1. FeedMarker(d) = IF Len(d.buffer) >= d.expected THEN Ends(d)
                                ELSE Stays([d EXCEPT !.buffer = Append(@, Marker)])
            BY <1>2, <4>2 DEF FeedMarker
          <5> QED BY <5>1
        <4>3. CASE f = TRUE /\ e = 0
          <5>1. d.inFrame /\ d.expected = 0 /\ ~(d.expected > 0)
            <6>1. PICK z \in Nat : z = 0 /\ ~(z > 0)
              OBVIOUS
            <6> QED BY <1>2, <4>3, <6>1, Zenon
          <5>2. FeedMarker(d) = IF d.buffer # <<>> THEN Stays(Started(ResetOnError(d))) ELSE Stays(d)
            BY <5>1, Zenon DEF FeedMarker
          <5> QED BY <5>2
        <4> QED BY <1>3, <4>1, <4>2, <4>3
      <3> QED BY <2>1, <3>1 DEF Feed
    <2>2. CASE c # Marker
      <3>1. \E x : FeedByte(d, c) = Stays(x)
        <4>1. CASE f = FALSE
          <5>1. FeedByte(d, c) = Stays(d)
            BY <1>2, <4>1 DEF FeedByte
          <5> QED BY <5>1
        <4>2. CASE f = TRUE /\ b = <<>>
          <5>1. FeedByte(d, c) = IF BadLength(c) THEN Stays(ResetOnError(d))
                  ELSE Stays([[d EXCEPT !.buffer = Append(@, c)] EXCEPT !.expected = c])
            BY <1>2, <4>2 DEF FeedByte
          <5> QED BY <5>1
        <4>3. CASE f = TRUE /\ b # <<>>
          <5>1. FeedByte(d, c) = Stays([d EXCEPT !.buffer = Append(@, c)])
            BY <1>2, <4>3 DEF FeedByte
          <5> QED BY <5>1
        <4> QED BY <1>3, <4>1, <4>2, <4>3
      <3> QED BY <2>2, <3>1 DEF Feed
    <2> QED BY <2>1, <2>2
  <1>7. SliceStep(d, c) = Ends(d) \/ \E x : SliceStep(d, c) = Stays(x)
    <2>1. CASE f = FALSE
      <3>1. SliceStep(d, c) = IF c = Marker THEN Stays(Started(d)) ELSE Stays(d)
        BY <1>2, <2>1 DEF SliceStep
      <3> QED BY <3>1
    <2>2. CASE f = TRUE /\ e = 0
      <3>1. SliceStep(d, c) = IF c = Marker THEN Stays(Started(d))
                              ELSE IF BadLength(c) THEN Stays(ResetOnError(d))
                              ELSE Stays([d EXCEPT !.buffer = <<c>>, !.expected = c])
        <4>1. d.inFrame /\ d.expected = 0 /\ ~(d.expected > 0)
          <5>1. PICK z \in Nat : z = 0 /\ ~(z > 0)
            OBVIOUS
          <5> QED BY <1>2, <2>2, <5>1, Zenon
        <4> QED BY <4>1, Zenon DEF SliceStep
      <3> QED BY <3>1
    <2>3. CASE f = TRUE /\ e > 0
      <3>1. SliceStep(d, c) = IF Len(d.buffer) < d.expected THEN Stays([d EXCEPT !.buffer = Append(@, c)])
                              ELSE IF c = Marker THEN Ends(d) ELSE Stays(ResetOnError(d))
        <4>1. d.inFrame /\ d.expected > 0 /\ ~(d.expected = 0)
          BY <1>2, <1>3, <2>3
        <4> QED BY <4>1, Zenon DEF SliceStep
      <3> QED BY <3>1
    <2> QED BY <1>3, <2>1, <2>2, <2>3
  <1> QED BY <1>4, <1>5, <1>6, <1>7

(* What is handed on are numbers. *)
LEMMA HandsOnNumbers ==
    ASSUME NEW byte, NEW consumed, Hears(byte, consumed), out \in Seq(Int), DecoderFits(rx)
    PROVE  \E s \in {Feed(rx, byte), SliceStep(rx, byte)} :
              /\ rx' = s.dec /\ at' = at + consumed /\ out' \in Seq(Int)
              /\ out' = out \o [i \in 1 .. Len(s.frames) |-> NumberOf(s.frames[i], SentFrames)]
  <1>1. PICK s \in {Feed(rx, byte), SliceStep(rx, byte)} :
              /\ rx' = s.dec /\ at' = at + consumed
              /\ out' = out \o [i \in 1 .. Len(s.frames) |-> NumberOf(s.frames[i], SentFrames)]
    BY DEF Hears
  <1>2. PICK more : more = [i \in 1 .. Len(s.frames) |-> NumberOf(s.frames[i], SentFrames)]
    OBVIOUS
  <1>3. more \in Seq(Int)
    <2>1. CASE s.frames = <<>>
      <3>1. more = <<>>
        BY <1>2, <2>1
      <3> QED BY <3>1
    <2>2. CASE \E frame : s.frames = <<frame>>
      <3>1. PICK frame : s.frames = <<frame>>
        BY <2>2
      <3>2. PICK number \in Int : number = NumberOf(frame, SentFrames)
        BY NumberIsInt
      <3>3. more = <<number>>
        BY <1>2, <3>1, <3>2
      <3> QED BY <3>2, <3>3
    <2> QED BY <2>1, <2>2, FewFrames
  <1>4. out' \in Seq(Int)
    <2>1. out' = out \o more
      BY <1>1, <1>2
    <2> QED BY <1>3, <2>1
  <1> QED BY <1>1, <1>4, Zenon

(* A byte of the line, whatever came before.                               *)
LEMMA LineByteKeepsWay ==
    ASSUME LengthsTold, WayInv, kind \in Lines, LineByte
    PROVE  WayInv'
  <1>1. /\ kind' = kind /\ faults' = faults /\ faultAt' = faultAt /\ case' = case
        /\ Hears(LineBytes[at + 1], 1) /\ at < Len(LineBytes)
    BY LineIsSent DEF LineByte
  <1>2. [Next]_vars
    BY DEF Next, Step
  <1>3. LineInv'
    BY <1>2, NextKeepsLine DEF WayInv
  <1>4. PICK s \in {Feed(rx, LineBytes[at + 1]), SliceStep(rx, LineBytes[at + 1])} :
              /\ rx' = s.dec /\ at' = at + 1 /\ out' \in Seq(Int)
              /\ out' = out \o [i \in 1 .. Len(s.frames) |-> NumberOf(s.frames[i], SentFrames)]
    BY <1>1, HandsOnNumbers DEF WayInv, LineInv
  <1>5. faults = 0 => LineTold'
    BY LineByteTells DEF WayInv
  <1>6. ASSUME faults # 0, ComesClean PROVE OnItsWay'
    <2>1. PICK k, o : Finding(rx, out, at, faultAt, k, o)
      BY <1>6 DEF WayInv, OnItsWay
    <2>2. PlacedAt(at, k, o)
      BY <2>1 DEF Finding
    <2>3. PICK n \in Nat : n = Len(SentFrames) /\ Len(LineBytes) = FrameEnd[n]
      BY LinePlaces DEF Placed
    <2>4. k # Len(SentFrames)
      <3> SUFFICES ASSUME k = n PROVE FALSE
        BY <2>3
      <3>1. at = FrameEnd[n] + 0 /\ FrameEnd[n] \in Nat
        <4>1. n \in 0 .. n
          BY <2>3
        <4> QED BY <2>2, <2>3, <4>1, FrameEnds DEF PlacedAt
      <3> QED BY <1>1, <2>3, <3>1
    <2>5. PICK g, z : Around(at, k, o, g, z)
      BY <2>2, <2>4, AroundPlace
    <2>6. PICK i \in 1 .. Len(SentFrames) : i = k + 1 /\ i - 1 = k
      BY <2>2, <2>3, <2>4 DEF PlacedAt
    <2>7. FrameEnd[i] > faultAt
      <3>1. faultAt <= at /\ faultAt \in Nat
        BY <2>1 DEF Finding
      <3>2. g \in Nat /\ z \in Nat /\ o \in Nat /\ at = g + o /\ o < z /\ FrameEnd[i] = g + z
        BY <2>5, <2>6 DEF Around
      <3>3. g + z > faultAt
        BY ONLY <3>1, <3>2
      <3> QED BY <3>2, <3>3
    <2>8. Unmarked(SentBytes[k + 1])
      BY <1>6, <2>6, <2>7 DEF ComesClean
    <2>9. LineBytes[at + 1] = SentBytes[k + 1][o + 1]
      <3>1. Placed(LineBytes, SentBytes, FrameEnd, n)
        BY <2>3, LinePlaces
      <3>2. g \in Nat /\ z \in Nat /\ o \in Nat /\ at = g + o /\ o < z /\ Len(SentBytes[i]) = z
            /\ FrameEnd[i - 1] = g
        BY <2>5, <2>6 DEF Around
      <3>3. PICK j \in 1 .. Len(SentBytes[i]) : j = o + 1
        BY <3>2
      <3>4. LineBytes[FrameEnd[i - 1] + j] = SentBytes[i][j]
        BY <2>3, <3>1, <3>3 DEF Placed
      <3>5. FrameEnd[i - 1] + j = at + 1
        BY <3>2, <3>3
      <3> QED BY <2>6, <3>3, <3>4, <3>5
    <2>10. PICK l, p : Finding(rx', out', at + 1, faultAt, l, p)
      BY <1>4, <2>1, <2>4, <2>8, <2>9, FindsNext DEF WayInv
    <2> QED BY <1>1, <1>4, <2>10 DEF OnItsWay
  <1>7. ComesClean' => ComesClean
    BY <1>1 DEF ComesClean
  <1> QED BY <1>1, <1>3, <1>4, <1>5, <1>6, <1>7 DEF WayInv

(* The fault of the line, wherever it comes.                               *)
LEMMA FaultKeepsWay ==
    ASSUME LengthsTold, WayInv, kind \in Lines, ByteLost \/ ByteFlipped \/ ByteAdded
    PROVE  WayInv'
  <1>1. kind' = kind /\ faults = 0 /\ faults' = 1 /\ faultAt' = at /\ case' = case /\ at < Len(LineBytes)
    BY LineIsSent DEF ByteLost, ByteFlipped, ByteAdded, LineFaulty
  <1>2. [Next]_vars
    BY DEF Next, Fault
  <1>3. LineInv' /\ at \in Nat /\ DecoderFits(rx) /\ out \in Seq(Int)
    BY <1>2, NextKeepsLine DEF WayInv, LineInv
  <1>4. PICK k, o : LineAt(k, o)
    BY <1>1 DEF WayInv, LineTold
  <1>5. PlacedAt(at, k, o) /\ (k # Len(SentFrames) => Reading(rx, SentBytes[k + 1], o, 0))
    BY <1>4, LineIsPlaced
  <1>6. k # Len(SentFrames)
    <2>1. PICK n \in Nat : n = Len(SentFrames) /\ Len(LineBytes) = FrameEnd[n]
      BY LinePlaces DEF Placed
    <2> SUFFICES ASSUME k = n PROVE FALSE
      BY <2>1
    <2>2. at = FrameEnd[n] + 0 /\ FrameEnd[n] \in Nat
      <3>1. n \in 0 .. n
        BY <2>1
      <3> QED BY <1>5, <2>1, <3>1, FrameEnds DEF PlacedAt
    <2> QED BY <1>1, <2>1, <2>2
  <1>7. out' \in Seq(Int) /\ OnItsWay'
    <2>1. CASE ByteLost
      <3>1. at' = at + 1 /\ rx' = rx /\ out' = out
        BY <2>1 DEF ByteLost
      <3>2. PICK l, p : Finding(rx, out, at + 1, at, l, p)
        BY <1>5, <1>6, LossFinds
      <3> QED BY <1>1, <1>3, <3>1, <3>2 DEF OnItsWay
    <2>2. CASE ByteFlipped
      <3>1. PICK c : c = Xor8(LineBytes[at + 1], 1) /\ Hears(c, 1)
        BY <2>2, LineIsSent DEF ByteFlipped
      <3>2. c \in Byte
        <4>1. LineBytes \in Seq(Byte) /\ at + 1 \in 1 .. Len(LineBytes)
          BY <1>1, <1>3, LineShape DEF MarkedTo
        <4>2. PICK one \in Byte : one = 1
          BY DEF Byte
        <4>3. LineBytes[at + 1] \in Byte
          BY <4>1
        <4>4. Xor8(LineBytes[at + 1], one) \in Byte
          BY <4>3, XorFits
        <4> QED BY <3>1, <4>2, <4>4
      <3>3. PICK s \in {Feed(rx, c), SliceStep(rx, c)} : rx' = s.dec /\ at' = at + 1 /\ out' \in Seq(Int)
        BY <1>3, <3>1, HandsOnNumbers
      <3>4. PICK l, p : Finding(rx', out', at + 1, at, l, p)
        BY <1>5, <1>6, <3>2, <3>3, FlipFinds
      <3> QED BY <1>1, <3>3, <3>4 DEF OnItsWay
    <2>3. CASE ByteAdded
      <3>1. BetweenFrames /\ \E noise \in {0, 5, Marker} : Hears(noise, 0)
        BY <2>3 DEF ByteAdded
      <3>2. PICK noise : Hears(noise, 0)
        BY <3>1
      <3>3. PICK s \in {Feed(rx, noise), SliceStep(rx, noise)} : rx' = s.dec /\ at' = at + 0 /\ out' \in Seq(Int)
        BY <1>3, <3>2, HandsOnNumbers
      <3>4. at' = at
        BY <1>3, <3>3
      <3>5. o = 0
        BY <1>5, <3>1, OnePlace DEF BetweenFrames
      <3>6. IsIdle(rx)
        BY <1>5, <1>6, <3>5, NothingRead
      <3>7. Finding(rx', out', at, at, k, 0)
        BY <1>5, <3>3, <3>5, <3>6, NoiseFinds
      <3> QED BY <1>1, <3>3, <3>4, <3>7 DEF OnItsWay
    <2> QED BY <2>1, <2>2, <2>3
  <1> QED BY <1>1, <1>3, <1>7 DEF WayInv

(* Every step keeps a decoder on its way.                                  *)
LEMMA NextKeepsWay ==
    ASSUME LengthsTold, WayInv, [Next]_vars
    PROVE  WayInv'
  <1>1. LineInv' /\ kind' = kind
    BY NextKeepsLine, KindStays DEF WayInv
  <1>2. CASE kind \notin Lines
    BY <1>1, <1>2 DEF WayInv, LineTold
  <1>3. CASE kind \in Lines /\ LineByte
    BY <1>3, LineByteKeepsWay
  <1>4. CASE kind \in Lines /\ (ByteLost \/ ByteFlipped \/ ByteAdded)
    BY <1>4, FaultKeepsWay
  <1>5. CASE kind \in Lines /\ UNCHANGED vars
    <2>1. kind' = kind /\ out' = out /\ rx' = rx /\ at' = at /\ case' = case /\ faults' = faults
          /\ faultAt' = faultAt
      BY <1>5 DEF vars
    <2>2. faults = 0 => LineTold'
      BY <1>5, <2>1, LineTells DEF WayInv
    <2>3. ComesClean' = ComesClean /\ OnItsWay' = OnItsWay
      BY <2>1 DEF ComesClean, OnItsWay
    <2> QED BY <1>1, <2>1, <2>2, <2>3 DEF WayInv
  <1>6. CASE \/ ConnackReads \/ SubscribeReads \/ RecvReads \/ RecvProcesses \/ AckSent
             \/ ConnackTimesOut \/ SubscribeTimesOut \/ RecvEnds \/ AckFails \/ RecvCancelled
    BY <1>2, <1>6, ClientKeepsKind
  <1>7. CASE DownloadReads \/ DownloadEnds \/ DownloadCut
    <2>1. kind = "ota"
      BY <1>7 DEF DownloadReads, DownloadEnds, DownloadCut, Download
    <2> QED BY <1>2, <2>1 DEF Lines
  <1>8. CASE Logs \/ LogsPublished
    <2>1. kind = "log"
      BY <1>8 DEF Logs, LogsPublished
    <2> QED BY <1>2, <2>1 DEF Lines
  <1>9. CASE \/ CheckStart \/ UartReads \/ SniffModeEnds \/ SniffPublished \/ HostShows
             \/ SniffCommand \/ SniffPublishFails
    BY <1>2, <1>9, CaptureKeepsKind
  <1> QED BY <1>2, <1>3, <1>4, <1>5, <1>6, <1>7, <1>8, <1>9 DEF Next, Step, Fault

(* Wherever a byte of the line was lost, changed or added, both decoders   *)
(* have told of every frame that ends 255 bytes and two frames behind it   *)
(* with its last byte, where no frame behind the fault holds a marker as   *)
(* data and no length byte is one (FrameDecoder::feed, feed_slice).        *)
THEOREM DecodersFindTheirWay == LengthsTold => (Spec => [](ComesClean => Resync))
  <1> SUFFICES ASSUME LengthsTold PROVE Spec => [](ComesClean => Resync)
    OBVIOUS
  <1>1. Init => WayInv
    BY WayStarts
  <1>2. WayInv /\ [Next]_vars => WayInv'
    BY NextKeepsWay
  <1>3. WayInv => (ComesClean => Resync)
    BY WayLeads
  <1> QED BY <1>1, <1>2, <1>3, PTL DEF Spec

-----------------------------------------------------------------------------
(* The entries of a capture in their order.                                *)

Covers(e, i) == e.start <= i /\ i <= e.end
(* Entries that share out the first n bytes. *)
Timed(e, n) == e.ts \in Nat /\ e.start \in 1 .. n /\ e.end \in 1 .. n /\ e.start <= e.end
SharedOut(S, n) ==
    /\ n \in Nat /\ \A e \in S : Timed(e, n)
    /\ \A e, f \in S : e # f => \A i \in 1 .. n : ~(Covers(e, i) /\ Covers(f, i))

(* Entries that share out the bytes end at different ones. *)
LEMMA EndsDiffer ==
    ASSUME NEW S, NEW n, SharedOut(S, n)
    PROVE  /\ IsFiniteSet(S) /\ \A e, f \in S : e.end = f.end => e = f
           /\ Cardinality(S) \in Nat
  <1>1. \A e, f \in S : e.end = f.end => e = f
    <2> SUFFICES ASSUME NEW e \in S, NEW f \in S, e.end = f.end, e # f PROVE FALSE
      OBVIOUS
    <2>1. PICK i \in 1 .. n : i = e.end
      BY DEF SharedOut, Timed
    <2>2. Covers(e, i) /\ Covers(f, i)
      BY <2>1 DEF SharedOut, Timed, Covers
    <2> QED BY <2>2 DEF SharedOut
  <1> DEFINE g == [e \in S |-> e.end]
  <1>2. g \in Injection(S, 1 .. n)
    <2>1. g \in [S -> 1 .. n]
      BY DEF SharedOut, Timed
    <2>2. \A e, f \in S : g[e] = g[f] => e = f
      BY <1>1
    <2> HIDE DEF g
    <2> QED BY <2>1, <2>2, Fun_IsInj
  <1>3. IsFiniteSet(1 .. n)
    <2>1. n \in Int /\ 1 \in Int
      BY DEF SharedOut
    <2> QED BY <2>1, FS_Interval
  <1>4. IsFiniteSet(S)
    <2> HIDE DEF g
    <2> QED BY <1>2, <1>3, FS_Injection
  <1> QED BY <1>1, <1>4, FS_CardinalityType

(* They have an order. *)
LEMMA OrderOfEntries ==
    ASSUME NEW S, NEW n, SharedOut(S, n)
    PROVE  /\ \A e \in S : ~EntryBefore(e, e)
           /\ \A e, f, g \in S : EntryBefore(e, f) /\ EntryBefore(f, g) => EntryBefore(e, g)
           /\ \A e, f \in S : e # f => EntryBefore(e, f) \/ EntryBefore(f, e)
  <1>1. \A e \in S : e.ts \in Nat /\ e.end \in Nat
    BY DEF SharedOut, Timed
  <1>2. \A e \in S : ~EntryBefore(e, e)
    BY <1>1 DEF EntryBefore
  <1>3. ASSUME NEW e \in S, NEW f \in S, NEW g \in S, EntryBefore(e, f), EntryBefore(f, g)
        PROVE  EntryBefore(e, g)
    BY <1>1, <1>3 DEF EntryBefore
  <1>4. ASSUME NEW e \in S, NEW f \in S, e # f
        PROVE  EntryBefore(e, f) \/ EntryBefore(f, e)
    <2>1. e.end # f.end
      BY <1>4, EndsDiffer
    <2> QED BY <1>1, <2>1 DEF EntryBefore
  <1> QED BY <1>2, <1>3, <1>4

Earlier(S, e) == {f \in S : EntryBefore(f, e)}
Rank(S, e) == Cardinality(Earlier(S, e))
ListsAll(list, S) ==
    /\ \A k \in 1 .. Len(list) : list[k] \in S
    /\ \A e \in S : \E k \in 1 .. Len(list) : list[k] = e
    /\ \A j, k \in 1 .. Len(list) : list[j] = list[k] => j = k
(* The list of the entries has each of them once (entries.sort_by_key). *)
LEMMA SortedLists ==
    ASSUME NEW S, NEW n, SharedOut(S, n)
    PROVE  ListsAll(Sorted(S), S)
  <1> DEFINE size == Cardinality(S)
  <1>1. IsFiniteSet(S) /\ size \in Nat
    BY EndsDiffer
  <1>2. ASSUME NEW e \in S
        PROVE  /\ IsFiniteSet(Earlier(S, e)) /\ Rank(S, e) \in Nat /\ Rank(S, e) + 1 \in 1 .. size
    <2>1. Earlier(S, e) \in SUBSET S /\ e \notin Earlier(S, e)
      BY OrderOfEntries DEF Earlier
    <2>2. IsFiniteSet(Earlier(S, e)) /\ Rank(S, e) <= size
      BY <1>1, <2>1, FS_Subset DEF Rank
    <2>3. Rank(S, e) # size
      <3>1. size = Rank(S, e) => S = Earlier(S, e)
        BY <1>1, <2>1, FS_Subset DEF Rank
      <3> QED BY <2>1, <3>1
    <2>4. Rank(S, e) \in Nat
      BY <2>2, FS_CardinalityType DEF Rank
    <2> HIDE DEF size
    <2> QED BY <1>1, <2>2, <2>3, <2>4
  <1>3. ASSUME NEW e \in S, NEW f \in S, EntryBefore(e, f)
        PROVE  Rank(S, e) # Rank(S, f)
    <2>1. Earlier(S, e) \in SUBSET Earlier(S, f) /\ e \in Earlier(S, f) /\ e \notin Earlier(S, e)
      BY <1>3, OrderOfEntries DEF Earlier
    <2>2. Rank(S, f) = Rank(S, e) => Earlier(S, f) = Earlier(S, e)
      <3>1. IsFiniteSet(Earlier(S, f))
        BY <1>2
      <3> QED BY <2>1, <3>1, FS_Subset DEF Rank
    <2> QED BY <2>1, <2>2
  <1>4. \A e, f \in S : Rank(S, e) = Rank(S, f) => e = f
    BY <1>3, OrderOfEntries
  <1> DEFINE r == [e \in S |-> Rank(S, e) + 1]
  <1>5. r \in Injection(S, 1 .. size)
    <2>1. r \in [S -> 1 .. size]
      BY <1>2
    <2>2. \A e, f \in S : r[e] = r[f] => e = f
      <3> SUFFICES ASSUME NEW e \in S, NEW f \in S, r[e] = r[f] PROVE e = f
        OBVIOUS
      <3>1. PICK a \in Nat, b \in Nat : a = Rank(S, e) /\ b = Rank(S, f)
        BY <1>2
      <3>2. a + 1 = b + 1
        BY <3>1
      <3>3. a = b
        BY ONLY <3>2, a \in Nat, b \in Nat
      <3> QED BY <1>4, <3>1, <3>3
    <2> HIDE DEF r, size
    <2> QED BY <2>1, <2>2, Fun_IsInj
  <1>6. \A k \in 1 .. size : \E e \in S : r[e] = k
    <2>1. IsFiniteSet(1 .. size) /\ Cardinality(1 .. size) = size
      <3>1. size \in Int /\ 1 \in Int /\ (1 > size => size = 0) /\ size - 1 + 1 = size
        <4> HIDE DEF size
        <4> QED BY <1>1
      <3> HIDE DEF size
      <3> QED BY <3>1, FS_Interval
    <2>2. r \in Surjection(S, 1 .. size)
      <3>1. Cardinality(S) = Cardinality(1 .. size) <=> r \in Surjection(S, 1 .. size)
        <4> HIDE DEF r
        <4>1. PICK T : T = 1 .. size
          OBVIOUS
        <4> QED BY <1>5, <2>1, <4>1, FS_Injection
      <3> QED BY <2>1, <3>1
    <2> HIDE DEF r, size
    <2> QED BY <2>2, Fun_SurjectionProperties
  <1>7. \A k \in 1 .. size : \E e \in S : Rank(S, e) = k - 1
    <2> SUFFICES ASSUME NEW k \in 1 .. size PROVE \E e \in S : Rank(S, e) = k - 1
      OBVIOUS
    <2>1. PICK e \in S : r[e] = k
      BY <1>6
    <2>2. Rank(S, e) + 1 = k /\ Rank(S, e) \in Nat
      BY <1>2, <2>1
    <2> QED BY <2>2
  <1> DEFINE list == [k \in 1 .. size |-> CHOOSE e \in S : Rank(S, e) = k - 1]
  <1>8. Sorted(S) = list
    BY DEF Sorted, Rank, Earlier
  <1>9. Len(list) = size
    <2> HIDE DEF size
    <2> QED BY <1>1
  <1>10. \A k \in 1 .. size : list[k] \in S /\ Rank(S, list[k]) = k - 1
    BY <1>7
  <1> HIDE DEF list, size
  <1>11. \A e \in S : \E k \in 1 .. size : list[k] = e
    <2> SUFFICES ASSUME NEW e \in S PROVE \E k \in 1 .. size : list[k] = e
      OBVIOUS
    <2>1. PICK a \in Nat : a = Rank(S, e) /\ a + 1 \in 1 .. size
      BY <1>2
    <2>2. list[a + 1] \in S /\ Rank(S, list[a + 1]) = (a + 1) - 1
      BY <1>10, <2>1
    <2>3. (a + 1) - 1 = a
      OBVIOUS
    <2> QED BY <1>4, <2>1, <2>2, <2>3
  <1>12. \A j, k \in 1 .. size : list[j] = list[k] => j = k
    <2> SUFFICES ASSUME NEW j \in 1 .. size, NEW k \in 1 .. size, list[j] = list[k] PROVE j = k
      OBVIOUS
    <2>1. j - 1 = k - 1
      BY <1>10
    <2> QED BY <1>1, <2>1
  <1> QED BY <1>8, <1>9, <1>10, <1>11, <1>12 DEF ListsAll

(* The stretches of bytes that no frame covers.                            *)
Free(found, n) == (1 .. n) \ UNION {found[k].start .. found[k].end : k \in 1 .. Len(found)}
Ranges(free) ==
    {r \in free \X free : /\ r[1] <= r[2] /\ (r[1] .. r[2]) \subseteq free
                          /\ r[1] - 1 \notin free /\ r[2] + 1 \notin free}
(* Each free byte is in one of them and in no other (ranges). *)
LEMMA RangesPart ==
    ASSUME NEW n \in Nat, NEW free \in SUBSET (1 .. n)
    PROVE  /\ \A i \in free : \E r \in Ranges(free) : r[1] <= i /\ i <= r[2]
           /\ \A r \in Ranges(free) : /\ r[1] \in 1 .. n /\ r[2] \in 1 .. n /\ r[1] <= r[2]
                                      /\ \A i \in 1 .. n : r[1] <= i /\ i <= r[2] => i \in free
           /\ \A r, s \in Ranges(free) : \A i \in 1 .. n :
                r[1] <= i /\ i <= r[2] /\ s[1] <= i /\ i <= s[2] => r = s
  <1>1. ASSUME NEW i \in free PROVE \E r \in Ranges(free) : r[1] <= i /\ i <= r[2]
    <2> DEFINE A == {a \in Nat : a <= i /\ (a .. i) \subseteq free}
               C == {c \in Nat : c > i /\ c \notin free}
    <2>1. i \in 1 .. n /\ i \in A /\ n + 1 \in C
      <3>1. i \in 1 .. n /\ \A j \in i .. i : j = i
        OBVIOUS
      <3> QED BY <3>1
    <2>2. PICK a \in A : \A j \in A : a <= j
      <3>1. A \in SUBSET Nat /\ A # {}
        BY <2>1
      <3> HIDE DEF A
      <3> QED BY <3>1, LeastIsThere
    <2>3. PICK c \in C : \A j \in C : c <= j
      <3>1. C \in SUBSET Nat /\ C # {}
        BY <2>1
      <3> HIDE DEF C
      <3> QED BY <3>1, LeastIsThere
    <2>4. a \in Nat /\ a <= i /\ a \in free /\ (a .. i) \subseteq free
      <3>1. a \in a .. i
        BY <2>1
      <3> QED BY <3>1
    <2>5. a - 1 \notin free
      <3> SUFFICES ASSUME a - 1 \in free PROVE FALSE
        OBVIOUS
      <3>1. a - 1 \in Nat /\ a - 1 <= i /\ ~(a <= a - 1)
        BY <2>1, <2>4
      <3>2. \A j \in (a - 1) .. i : j = a - 1 \/ j \in a .. i
        BY <2>1, <2>4
      <3>3. a - 1 \in A
        BY <2>4, <3>1, <3>2
      <3> HIDE DEF A
      <3> QED BY <2>2, <3>1, <3>3
    <2>6. c \in Nat /\ c > i /\ c \notin free
      OBVIOUS
    <2>7. \A j \in i .. c - 1 : j \in free
      <3> SUFFICES ASSUME NEW j \in i .. c - 1, j \notin free PROVE FALSE
        OBVIOUS
      <3>1. j \in Nat /\ j > i /\ ~(c <= j)
        <4>1. j \in Nat /\ j # i /\ j >= i
          BY <2>1, <2>6
        <4> QED BY <2>1, <2>6, <4>1
      <3>2. j \in C
        BY <3>1
      <3> HIDE DEF C
      <3> QED BY <2>3, <3>1, <3>2
    <2>8. (c - 1) + 1 = c /\ c - 1 \in i .. c - 1 /\ i <= c - 1 /\ a <= c - 1
      BY <2>1, <2>4, <2>6
    <2>9. (a .. c - 1) \subseteq free
      <3>1. \A j \in a .. c - 1 : j \in a .. i \/ j \in i .. c - 1
        BY <2>1, <2>4, <2>6
      <3> QED BY <2>4, <2>7, <3>1
    <2>10. <<a, c - 1>> \in Ranges(free)
      <3>1. a \in free /\ c - 1 \in free
        BY <2>4, <2>7, <2>8
      <3> HIDE DEF A, C
      <3> QED BY <2>5, <2>6, <2>8, <2>9, <3>1 DEF Ranges
    <2> HIDE DEF A, C
    <2> QED BY <2>4, <2>8, <2>10
  <1>2. ASSUME NEW r \in Ranges(free)
        PROVE  /\ r[1] \in 1 .. n /\ r[2] \in 1 .. n /\ r[1] <= r[2]
               /\ \A i \in 1 .. n : r[1] <= i /\ i <= r[2] => i \in free
               /\ r[1] - 1 \notin free /\ r[2] + 1 \notin free
               /\ r = <<r[1], r[2]>>
    <2>1. r \in free \X free /\ r[1] <= r[2] /\ (r[1] .. r[2]) \subseteq free
          /\ r[1] - 1 \notin free /\ r[2] + 1 \notin free
      BY DEF Ranges
    <2>2. r[1] \in free /\ r[2] \in free /\ r = <<r[1], r[2]>>
      BY <2>1
    <2>3. r[1] \in 1 .. n /\ r[2] \in 1 .. n
      BY <2>2
    <2>4. \A i \in 1 .. n : r[1] <= i /\ i <= r[2] => i \in r[1] .. r[2]
      BY <2>3
    <2> QED BY <2>1, <2>2, <2>3, <2>4
  <1>3. ASSUME NEW r \in Ranges(free), NEW s \in Ranges(free), NEW i \in 1 .. n,
               r[1] <= i, i <= r[2], s[1] <= i, i <= s[2]
        PROVE  ~(r[1] < s[1]) /\ ~(r[2] > s[2])
    <2>1. PICK a \in Nat, b \in Nat, c \in Nat, d \in Nat :
              a = r[1] /\ b = r[2] /\ c = s[1] /\ d = s[2]
      BY <1>2
    <2>2. ASSUME a < c PROVE FALSE
      <3>1. c - 1 \in 1 .. n /\ a <= c - 1 /\ c - 1 <= b
        BY <1>2, <1>3, <2>1, <2>2
      <3> QED BY <1>2, <2>1, <3>1
    <2>3. ASSUME b > d PROVE FALSE
      <3>1. d + 1 \in 1 .. n /\ a <= d + 1 /\ d + 1 <= b
        BY <1>2, <1>3, <2>1, <2>3
      <3> QED BY <1>2, <2>1, <3>1
    <2> QED BY <2>1, <2>2, <2>3
  <1>4. ASSUME NEW r \in Ranges(free), NEW s \in Ranges(free), NEW i \in 1 .. n,
               r[1] <= i, i <= r[2], s[1] <= i, i <= s[2]
        PROVE  r = s
    <2>1. ~(r[1] < s[1]) /\ ~(r[2] > s[2]) /\ ~(s[1] < r[1]) /\ ~(s[2] > r[2])
      BY <1>3, <1>4
    <2>2. r[1] \in Nat /\ r[2] \in Nat /\ s[1] \in Nat /\ s[2] \in Nat
      BY <1>2
    <2>3. r[1] = s[1] /\ r[2] = s[2]
      BY <2>1, <2>2
    <2> QED BY <1>2, <2>3
  <1> QED BY <1>1, <1>2, <1>4

(* What OffsetFrameDecoder found: frames, one behind the other. *)
FoundFits(found, n) ==
    /\ n \in Nat /\ Len(found) \in Nat
    /\ \A k \in 1 .. Len(found) :
          /\ found[k].start \in 1 .. n /\ found[k].end \in 1 .. n /\ found[k].start <= found[k].end
          /\ found[k].frame # FrameError
    /\ \A j, k \in 1 .. Len(found) : j < k => found[j].end < found[k].start
Recognised(chunks, found) ==
    {Entry(chunks, found[k].start, found[k].end, found[k].frame) : k \in 1 .. Len(found)}
Unrecognised(chunks, found, n) ==
    {Entry(chunks, r[1], r[2], Garbage) : r \in Ranges(Free(found, n))}
Reaches(chunks, n) == \A i \in 1 .. n : FindChunkForOffset(chunks, i) \in Nat

(* What an entry of a capture says of the bytes from s to e (make_entry).  *)
LEMMA EntryFields ==
    ASSUME NEW chunks, NEW a, NEW b, NEW frame
    PROVE  /\ Entry(chunks, a, b, frame).ts = FindChunkForOffset(chunks, a)
           /\ Entry(chunks, a, b, frame).start = a /\ Entry(chunks, a, b, frame).end = b
           /\ Entry(chunks, a, b, frame).frame = frame
  BY DEF Entry

(* The entries of a capture, frames and garbage, share out its bytes       *)
(* (handle_chunks_format).                                                 *)
LEMMA EntriesShare ==
    ASSUME NEW chunks, NEW found, NEW n, FoundFits(found, n), Reaches(chunks, n),
           NEW S, S = Unrecognised(chunks, found, n) \cup Recognised(chunks, found)
    PROVE  /\ SharedOut(S, n)
           /\ \A i \in 1 .. n : \E e \in S : Covers(e, i)
           /\ \A e \in S : e.frame # Garbage => e \in Recognised(chunks, found)
  <1> DEFINE free == Free(found, n)
             G == Unrecognised(chunks, found, n)
             R == Recognised(chunks, found)
  <1>0. n \in Nat /\ free \in SUBSET (1 .. n)
    BY DEF FoundFits, Free
  <1>1. \A i \in 1 .. n : i \in free \/ \E k \in 1 .. Len(found) : found[k].start <= i /\ i <= found[k].end
    <2> SUFFICES ASSUME NEW i \in 1 .. n, i \notin free
                 PROVE  \E k \in 1 .. Len(found) : found[k].start <= i /\ i <= found[k].end
      OBVIOUS
    <2>1. PICK k \in 1 .. Len(found) : i \in found[k].start .. found[k].end
      BY DEF Free
    <2> QED BY <2>1 DEF FoundFits
  <1>2. \A i \in 1 .. n : \A k \in 1 .. Len(found) : found[k].start <= i /\ i <= found[k].end => i \notin free
    <2> SUFFICES ASSUME NEW i \in 1 .. n, NEW k \in 1 .. Len(found), found[k].start <= i, i <= found[k].end
                 PROVE  i \notin free
      OBVIOUS
    <2>1. i \in found[k].start .. found[k].end
      BY DEF FoundFits
    <2> QED BY <2>1 DEF Free
  <1>3. ASSUME NEW e \in G
        PROVE  \E r \in Ranges(free) : e = Entry(chunks, r[1], r[2], Garbage)
    BY DEF Unrecognised
  <1>4. ASSUME NEW e \in R
        PROVE  \E k \in 1 .. Len(found) : e = Entry(chunks, found[k].start, found[k].end, found[k].frame)
    BY DEF Recognised
  <1>5. ASSUME NEW e \in G
        PROVE  Timed(e, n) /\ e.frame = Garbage /\ \A i \in 1 .. n : Covers(e, i) => i \in free
    <2>1. PICK r \in Ranges(free) : e = Entry(chunks, r[1], r[2], Garbage)
      BY <1>3
    <2>2. r[1] \in 1 .. n /\ r[2] \in 1 .. n /\ r[1] <= r[2]
          /\ \A i \in 1 .. n : r[1] <= i /\ i <= r[2] => i \in free
      <3> HIDE DEF free
      <3> QED BY <1>0, RangesPart
    <2>3. e.ts = FindChunkForOffset(chunks, r[1]) /\ e.start = r[1] /\ e.end = r[2] /\ e.frame = Garbage
      BY <2>1, EntryFields
    <2> HIDE DEF free
    <2> QED BY <2>2, <2>3 DEF Timed, Covers, Reaches
  <1>6. ASSUME NEW e \in R
        PROVE  Timed(e, n) /\ e.frame # Garbage /\ \A i \in 1 .. n : Covers(e, i) => i \notin free
    <2>1. PICK k \in 1 .. Len(found) : e = Entry(chunks, found[k].start, found[k].end, found[k].frame)
      BY <1>4
    <2>2. e.ts = FindChunkForOffset(chunks, found[k].start) /\ e.start = found[k].start
          /\ e.end = found[k].end /\ e.frame = found[k].frame
      BY <2>1, EntryFields
    <2>3. Timed(e, n) /\ e.frame # Garbage
      BY <2>2 DEF Timed, Reaches, FoundFits, Garbage
    <2> HIDE DEF free
    <2> QED BY <1>2, <2>2, <2>3 DEF Covers
  <1>7. ASSUME NEW e \in G, NEW f \in G, NEW i \in 1 .. n, Covers(e, i), Covers(f, i) PROVE e = f
    <2>1. PICK r \in Ranges(free) : e = Entry(chunks, r[1], r[2], Garbage)
      BY <1>3
    <2>2. PICK s \in Ranges(free) : f = Entry(chunks, s[1], s[2], Garbage)
      BY <1>3
    <2>3. r[1] <= i /\ i <= r[2] /\ s[1] <= i /\ i <= s[2]
      BY <1>7, <2>1, <2>2, EntryFields DEF Covers
    <2>4. r = s
      <3> HIDE DEF free
      <3> QED BY <1>0, <2>3, RangesPart
    <2> QED BY <2>1, <2>2, <2>4
  <1>8. ASSUME NEW e \in R, NEW f \in R, NEW i \in 1 .. n, Covers(e, i), Covers(f, i) PROVE e = f
    <2>1. PICK j \in 1 .. Len(found) : e = Entry(chunks, found[j].start, found[j].end, found[j].frame)
      BY <1>4
    <2>2. PICK k \in 1 .. Len(found) : f = Entry(chunks, found[k].start, found[k].end, found[k].frame)
      BY <1>4
    <2>3. found[j].start <= i /\ i <= found[j].end /\ found[k].start <= i /\ i <= found[k].end
      BY <1>8, <2>1, <2>2, EntryFields DEF Covers
    <2>4. ~(j < k) /\ ~(k < j)
      <3>1. PICK a \in Nat, b \in Nat, c \in Nat, d \in Nat :
                a = found[j].start /\ b = found[j].end /\ c = found[k].start /\ d = found[k].end
        BY DEF FoundFits
      <3>2. (j < k => b < c) /\ (k < j => d < a)
        BY <3>1 DEF FoundFits
      <3> QED BY <2>3, <3>1, <3>2
    <2>5. j = k
      BY <2>4 DEF FoundFits
    <2> QED BY <2>1, <2>2, <2>5
  <1>9. \A e \in S : Timed(e, n)
    <2> HIDE DEF G, R
    <2> QED BY <1>5, <1>6 DEF G, R
  <1>10. ASSUME NEW e \in S, NEW f \in S, e # f, NEW i \in 1 .. n PROVE ~(Covers(e, i) /\ Covers(f, i))
    <2>1. (e \in G \/ e \in R) /\ (f \in G \/ f \in R)
      OBVIOUS
    <2> HIDE DEF G, R, free
    <2> QED BY <1>5, <1>6, <1>7, <1>8, <1>10, <2>1
  <1>11. ASSUME NEW i \in 1 .. n PROVE \E e \in S : Covers(e, i)
    <2>1. CASE i \in free
      <3>1. PICK r \in Ranges(free) : r[1] <= i /\ i <= r[2]
        <4> HIDE DEF free
        <4> QED BY <1>0, <2>1, RangesPart
      <3>2. Entry(chunks, r[1], r[2], Garbage) \in S
        BY DEF Unrecognised
      <3> QED BY <3>1, <3>2, EntryFields DEF Covers
    <2>2. CASE i \notin free
      <3>1. PICK k \in 1 .. Len(found) : found[k].start <= i /\ i <= found[k].end
        BY <1>1, <2>2
      <3>2. Entry(chunks, found[k].start, found[k].end, found[k].frame) \in S
        BY DEF Recognised
      <3> QED BY <3>1, <3>2, EntryFields DEF Covers
    <2> QED BY <2>1, <2>2
  <1>12. \A e \in S : e.frame # Garbage => e \in R
    <2>1. \A e \in S : e \in G \/ e \in R
      OBVIOUS
    <2> HIDE DEF G, R
    <2> QED BY <1>5, <2>1
  <1> QED BY <1>0, <1>9, <1>10, <1>11, <1>12 DEF SharedOut

(* What HandleChunksFormat lists are these entries. *)
LEMMA HandlesEntries ==
    ASSUME NEW chunks, NEW bytes, NEW found
    PROVE  HandleChunksFormat(chunks, bytes, found)
             = Sorted(Unrecognised(chunks, found, Len(bytes)) \cup Recognised(chunks, found))
  <1>1. GarbageRanges(found, Len(bytes)) = Ranges(Free(found, Len(bytes)))
    BY DEF GarbageRanges, Ranges, Free
  <1> QED BY <1>1 DEF HandleChunksFormat, Unrecognised, Recognised

-----------------------------------------------------------------------------
(* The bytes of a capture.                                                 *)

(* A byte goes into two digits and back. *)
LEMMA TwoDigits ==
    ASSUME NEW b \in Byte
    PROVE  /\ b \div 16 \in Byte /\ b % 16 \in Byte /\ 16 * (b \div 16) + (b % 16) = b
           /\ <<b \div 16, b % 16>> \in Seq(Byte) /\ Len(<<b \div 16, b % 16>>) = 2
  <1>1. b \div 16 \in Byte /\ b % 16 \in Byte /\ 16 * (b \div 16) + (b % 16) = b
    BY DEF Byte
  <1> QED BY <1>1

(* What is written in hexadecimal is read back (bytes_to_hex, hex_to_bytes). *)
LEMMA HexIsReadBack ==
    ASSUME NEW data \in Seq(Byte)
    PROVE  HexToBytes(ToHex(data)) = data /\ Len(ToHex(data)) = 2 * Len(data)
  <1> DEFINE n == Len(data)
             pairs == [i \in 1 .. n |-> <<data[i] \div 16, data[i] % 16>>]
             ends == [k \in 0 .. n |-> 2 * k]
  <1>1. n \in Nat /\ \A i \in 1 .. n : data[i] \in Byte
    OBVIOUS
  <1>2. /\ pairs \in Seq(Seq(Byte)) /\ Len(pairs) = n
        /\ \A i \in 1 .. n : /\ Len(pairs[i]) = 2 /\ pairs[i][1] = data[i] \div 16
                             /\ pairs[i][2] = data[i] % 16
    <2> HIDE DEF n
    <2>1. \A i \in 1 .. n : pairs[i] \in Seq(Byte) /\ Len(pairs[i]) = 2
      BY <1>1, TwoDigits
    <2> QED BY <1>1, <2>1
  <1>3. IsEnds(ends, pairs)
    <2>1. ends[0] = 0 /\ \A k \in 0 .. n : ends[k] = 2 * k
      BY <1>1
    <2>2. \A k \in 1 .. n : ends[k] = ends[k - 1] + 2
      <3> TAKE k \in 1 .. n
      <3>1. k \in 0 .. n /\ k - 1 \in 0 .. n /\ 2 * k = 2 * (k - 1) + 2
        OBVIOUS
      <3> HIDE DEF ends
      <3> QED BY <2>1, <3>1
    <2>3. \A k \in 0 .. n : ends[k] \in Nat
      BY <1>1
    <2> HIDE DEF ends, pairs, n
    <2> QED BY <1>1, <1>2, <2>1, <2>2, <2>3 DEF IsEnds
  <1> DEFINE hex == ToHex(data)
  <1>4. hex = FlattenSeq(pairs)
    BY DEF ToHex
  <1>5. Len(hex) = 2 * n /\ \A i \in 1 .. n : hex[2 * i - 1] = data[i] \div 16 /\ hex[2 * i] = data[i] % 16
    <2>1. CASE n = 0
      <3>1. FlattenSeq(pairs) = pairs
        BY <1>2, <2>1 DEF FlattenSeq
      <3> HIDE DEF pairs, hex, n
      <3> QED BY <1>1, <1>2, <1>4, <2>1, <3>1
    <2>2. CASE n # 0
      <3>1. pairs # <<>>
        <4> HIDE DEF pairs
        <4> QED BY <1>2, <2>2
      <3>2. Placed(hex, pairs, ends, n)
        <4> HIDE DEF pairs, ends, hex
        <4>1. Placed(FlattenSeq(pairs), pairs, ends, Len(pairs))
          BY <1>2, <1>3, <3>1, ConcatPlaced
        <4> QED BY <1>2, <1>4, <4>1
      <3>3. n \in 0 .. n /\ ends[n] = 2 * n
        BY <1>1
      <3>4. ASSUME NEW i \in 1 .. n
            PROVE  hex[2 * i - 1] = data[i] \div 16 /\ hex[2 * i] = data[i] % 16
        <4>1. i - 1 \in 0 .. n /\ 2 * (i - 1) + 1 = 2 * i - 1 /\ 2 * (i - 1) + 2 = 2 * i
          BY <1>1
        <4>2. ends[i - 1] = 2 * (i - 1)
          BY <4>1
        <4> HIDE DEF pairs, ends, hex
        <4>3. 1 \in 1 .. Len(pairs[i]) /\ 2 \in 1 .. Len(pairs[i])
          BY <1>2
        <4>4. hex[ends[i - 1] + 1] = pairs[i][1] /\ hex[ends[i - 1] + 2] = pairs[i][2]
          BY <3>2, <4>3 DEF Placed
        <4> QED BY <1>2, <4>1, <4>2, <4>4
      <3> HIDE DEF pairs, ends, hex
      <3> QED BY <3>2, <3>3, <3>4 DEF Placed
    <2> QED BY <2>1, <2>2
  <1> HIDE DEF pairs, ends, hex
  <1>6. (2 * n) % 2 = 0 /\ (2 * n) \div 2 = n
    <2> HIDE DEF n
    <2> QED BY <1>1
  <1>7. HexToBytes(hex) = [i \in 1 .. n |-> 16 * hex[2 * i - 1] + hex[2 * i]]
    <2>1. Len(hex) % 2 = 0 /\ Len(hex) \div 2 = n
      BY <1>5, <1>6
    <2> QED BY <2>1 DEF HexToBytes
  <1>8. \A i \in 1 .. n : 16 * hex[2 * i - 1] + hex[2 * i] = data[i]
    <2> TAKE i \in 1 .. n
    <2>1. 16 * (data[i] \div 16) + (data[i] % 16) = data[i]
      BY <1>1, TwoDigits
    <2> HIDE DEF n
    <2>2. hex[2 * i - 1] = data[i] \div 16 /\ hex[2 * i] = data[i] % 16
      BY <1>5
    <2> QED BY <2>1, <2>2
  <1>9. HexToBytes(hex) = data
    <2>1. data = [i \in 1 .. n |-> data[i]]
      OBVIOUS
    <2> HIDE DEF n
    <2> QED BY <1>7, <1>8, <2>1
  <1> QED BY <1>5, <1>9 DEF hex

Hexes == {ToHex(data) : data \in Seq(Byte)}
Chunks == Seq([dir : {"R", "T"}, hex : Hexes])
ChunkEnds(chunks, f) ==
    f = [k \in 0 .. Len(chunks) |-> IF k = 0 THEN 0 ELSE f[k - 1] + Len(chunks[k].hex) \div 2]
(* A chunk has the bytes that were recorded. *)
LEMMA ChunkBytes ==
    ASSUME NEW chunks \in Chunks, NEW k \in 1 .. Len(chunks)
    PROVE  HexToBytes(chunks[k].hex) \in Seq(Byte) /\ Len(HexToBytes(chunks[k].hex)) = Len(chunks[k].hex) \div 2
  <1>1. chunks[k].hex \in Hexes
    <2>1. chunks[k] \in [dir : {"R", "T"}, hex : Hexes]
      BY ElementOfSeq DEF Chunks
    <2> QED BY <2>1
  <1>2. PICK data \in Seq(Byte) : chunks[k].hex = ToHex(data)
    BY <1>1 DEF Hexes
  <1>3. HexToBytes(ToHex(data)) = data /\ Len(ToHex(data)) = 2 * Len(data)
    BY HexIsReadBack
  <1>4. (2 * Len(data)) \div 2 = Len(data)
    <2>1. PICK n \in Nat : n = Len(data)
      OBVIOUS
    <2>2. (2 * n) \div 2 = n
      OBVIOUS
    <2> QED BY <2>1, <2>2
  <1> QED BY <1>2, <1>3, <1>4

(* Every byte of a capture is in a chunk (find_chunk_for_offset). *)
LEMMA ChunksReach ==
    ASSUME NEW chunks \in Chunks, chunks # <<>>
    PROVE  AllBytes(chunks) \in Seq(Byte) /\ Reaches(chunks, Len(AllBytes(chunks)))
  <1> DEFINE n == Len(chunks)
             seqs == [i \in 1 .. n |-> HexToBytes(chunks[i].hex)]
             step == [k \in 1 .. n |-> [b \in Nat |-> b + Len(seqs[k])]]
  <1>1. n \in Nat /\ n # 0
    BY DEF Chunks
  <1>2. /\ seqs \in Seq(Seq(Byte)) /\ Len(seqs) = n /\ seqs # <<>>
        /\ \A k \in 1 .. n : seqs[k] \in Seq(Byte) /\ Len(seqs[k]) \in Nat
                             /\ Len(seqs[k]) = Len(chunks[k].hex) \div 2
    <2>1. \A k \in 1 .. n : seqs[k] \in Seq(Byte) /\ Len(seqs[k]) = Len(chunks[k].hex) \div 2
      BY ChunkBytes
    <2>2. \A k \in 1 .. n : seqs[k] \in Seq(Byte) /\ Len(seqs[k]) = Len(chunks[k].hex) \div 2
      BY <2>1
    <2>3. seqs \in Seq(Seq(Byte)) /\ Len(seqs) = n
      <3>1. seqs = [k \in 1 .. n |-> seqs[k]]
        OBVIOUS
      <3> HIDE DEF n, seqs
      <3>2. seqs \in [1 .. n -> Seq(Byte)]
        BY <2>2, <3>1
      <3> QED BY <1>1, <3>2
    <2> HIDE DEF seqs, n
    <2>4. \A k \in 1 .. n : Len(seqs[k]) \in Nat
      BY <2>2
    <2>5. seqs # <<>>
      BY <1>1, <2>3
    <2> QED BY <2>2, <2>3, <2>4, <2>5
  <1>3. PICK f : Iterates(f, Nat, 0, n, step)
    <2>1. step \in [1 .. n -> [Nat -> Nat]]
      <3> HIDE DEF seqs, n
      <3> QED BY <1>2
    <2> HIDE DEF step, n
    <2>2. PICK start \in Nat : start = 0
      OBVIOUS
    <2>3. n \in Nat
      BY <1>1
    <2> QED BY <2>1, <2>2, <2>3, Iterated
  <1>4. ChunkEnds(chunks, f)
    <2>1. \A k \in 0 .. n : k # 0 => k \in 1 .. n /\ k - 1 \in 0 .. n
      BY <1>1
    <2>2. /\ f \in [0 .. n -> Nat] /\ f[0] = 0
          /\ \A k \in 1 .. n : f[k] = f[k - 1] + Len(chunks[k].hex) \div 2
      <3>1. \A k \in 1 .. n : \A b \in Nat : step[k][b] = b + Len(chunks[k].hex) \div 2
        <4> HIDE DEF seqs, n
        <4> QED BY <1>2
      <3>2. \A k \in 1 .. n : k - 1 \in 0 .. n
        OBVIOUS
      <3> HIDE DEF step, n
      <3> QED BY <1>3, <3>1, <3>2 DEF Iterates
    <2> HIDE DEF step
    <2> QED BY <2>1, <2>2 DEF ChunkEnds
  <1> DEFINE g == CHOOSE g : ChunkEnds(chunks, g)
  <1>5. ChunkEnds(chunks, g)
    BY <1>4
  <1>6. \A offset : FindChunkForOffset(chunks, offset)
            = CHOOSE k \in 1 .. n : g[k - 1] < offset /\ offset <= g[k]
    BY DEF FindChunkForOffset, ChunkEnds
  <1> HIDE DEF g, step
  <1>7. g[0] = 0 /\ \A k \in 1 .. n : g[k] = g[k - 1] + Len(seqs[k])
    <2>1. \A k \in 1 .. n : k \in 0 .. n /\ k # 0
      OBVIOUS
    <2>2. 0 \in 0 .. n
      BY <1>1
    <2>3. g[0] = 0 /\ \A k \in 1 .. n : g[k] = g[k - 1] + Len(chunks[k].hex) \div 2
      BY <1>5, <2>1, <2>2 DEF ChunkEnds
    <2> HIDE DEF seqs, n
    <2> QED BY <1>2, <2>3
  <1> HIDE DEF n
  <1>8. \A k \in 0 .. n : g[k] \in Nat
    <2>1. \A k \in 1 .. n : g[k - 1] \in Nat => g[k] \in Nat
      <3> HIDE DEF seqs
      <3> QED BY <1>2, <1>7
    <2>2. g[0] \in Nat /\ n \in Nat
      BY <1>1, <1>7
    <2> QED BY <2>1, <2>2, StaysWithin
  <1> DEFINE all == AllBytes(chunks)
  <1>9. all \in Seq(Byte) /\ Len(all) = g[n]
    <2>1. all = FlattenSeq(seqs)
      BY DEF AllBytes, n
    <2> HIDE DEF all, seqs
    <2>2. IsEnds(g, seqs)
      BY <1>2, <1>7, <1>8 DEF IsEnds
    <2>3. Placed(FlattenSeq(seqs), seqs, g, Len(seqs))
      BY <1>2, <2>2, ConcatPlaced
    <2> QED BY <1>2, <2>1, <2>3 DEF Placed
  <1>10. ASSUME NEW i \in 1 .. g[n] PROVE \E k \in 1 .. n : g[k - 1] < i /\ i <= g[k]
    <2> DEFINE A == {k \in 1 .. n : i <= g[k]}
    <2>1. n \in 1 .. n /\ n \in 0 .. n /\ g[n] \in Nat
      BY <1>1, <1>8
    <2>2. n \in A /\ A \in SUBSET Nat
      BY <2>1
    <2>3. PICK k \in A : \A j \in A : k <= j
      <3> HIDE DEF A
      <3> QED BY <2>2, LeastIsThere
    <2>4. k \in 1 .. n /\ i <= g[k]
      OBVIOUS
    <2>5. g[k - 1] < i
      <3>1. CASE k = 1
        BY <1>7, <2>1, <3>1
      <3>2. CASE k # 1
        <4>1. k - 1 \in 1 .. n /\ k - 1 \in 0 .. n /\ ~(k <= k - 1)
          BY <1>1, <2>4, <3>2
        <4>2. ~(i <= g[k - 1])
          <5>1. k - 1 \in A => k <= k - 1
            <6> HIDE DEF A
            <6> QED BY <2>3
          <5> QED BY <4>1, <5>1
        <4>3. g[k - 1] \in Nat
          BY <1>8, <4>1
        <4> QED BY <2>1, <4>2, <4>3
      <3> QED BY <3>1, <3>2
    <2> QED BY <2>4, <2>5
  <1>11. \A k \in 1 .. n : k \in Nat
    OBVIOUS
  <1>12. Reaches(chunks, g[n])
    <2> SUFFICES ASSUME NEW i \in 1 .. g[n] PROVE FindChunkForOffset(chunks, i) \in Nat
      BY DEF Reaches
    <2>1. \E k \in 1 .. n : g[k - 1] < i /\ i <= g[k]
      BY <1>10
    <2>2. FindChunkForOffset(chunks, i) \in 1 .. n
      BY <1>6, <2>1
    <2> QED BY <1>11, <2>2
  <1> QED BY <1>9, <1>12

-----------------------------------------------------------------------------
(* Frames in a capture.                                                    *)

(* The bytes between the markers of a frame. *)
Framed(e, data, x) ==
    /\ e \in Seq(Byte) /\ Len(e) = x + 2 /\ e[1] = Marker /\ e[x + 2] = Marker
    /\ \A j \in 1 .. x : e[1 + j] = data[j]
(* What parses is encoded to the same bytes (Frame::parse, Frame::encode). *)
LEMMA ParsedIsEncoded ==
    ASSUME NEW data \in Seq(Byte), NEW x \in Nat, 4 <= x, x <= 255, Len(data) = x, data[1] = x,
           Parse(data) # FrameError
    PROVE  Framed(Encode(Parse(data)), data, x)
  <1>1. PICK p \in Nat, z \in Nat, y \in Nat, one \in Nat, two \in Nat, three \in Nat :
            p = x - 4 /\ z = 0 /\ y = x - 1 /\ one = 1 /\ two = 2 /\ three = 3
    OBVIOUS
  <1>2. PICK body, type, payload :
            body = SubSeq(data, z + 1, z + y) /\ type = SubSeq(data, one + 1, one + two)
              /\ payload = SubSeq(data, three + 1, three + p)
    OBVIOUS
  <1>3. /\ body \in Seq(Byte) /\ Len(body) = y /\ \A j \in 1 .. y : body[j] = data[j]
        /\ type \in Seq(Byte) /\ Len(type) = 2 /\ type[1] = data[2] /\ type[2] = data[3]
        /\ payload \in Seq(Byte) /\ Len(payload) = p /\ \A j \in 1 .. p : payload[j] = data[3 + j]
    <2>1. z + y <= Len(data) /\ one + two <= Len(data) /\ three + p <= Len(data)
      BY <1>1
    <2>2. Stretch(body, Byte, data, z, y) /\ Stretch(type, Byte, data, one, two)
          /\ Stretch(payload, Byte, data, three, p)
      BY <1>2, <2>1, Cut
    <2>3. 1 \in 1 .. two /\ 2 \in 1 .. two /\ one + 1 = 2 /\ one + 2 = 3 /\ two = 2 /\ three = 3
          /\ \A j \in 1 .. y : z + j = j
      BY <1>1
    <2> QED BY <2>2, <2>3 DEF Stretch
  <1>4. z + 1 = 1 /\ z + y = x - 1 /\ one + 1 = 2 /\ one + two = 3 /\ three + 1 = 4 /\ three + p = x - 1
    BY <1>1
  <1>5. Crc8(body) = data[x] /\ Parse(data) = Frame(type, payload)
    <2>1. ~(Len(data) < 4 \/ data[1] < 4 \/ Len(data) < data[1])
      OBVIOUS
    <2>2. body = SubSeq(data, 1, data[1] - 1) /\ type = SubSeq(data, 2, 3)
          /\ payload = SubSeq(data, 4, data[1] - 1)
      BY <1>2, <1>4
    <2>3. Parse(data) = IF Crc8(body) # data[data[1]] THEN FrameError ELSE Frame(type, payload)
      BY <2>1, <2>2, Zenon DEF Parse
    <2> QED BY <2>3
  <1>6. PICK f : f = Frame(type, payload)
    OBVIOUS
  <1>7. f.type = type /\ f.payload = payload
    BY <1>6 DEF Frame
  <1>8. 4 + Len(f.payload) = x
    BY <1>1, <1>3, <1>7
  <1>9. PICK first, marker, sum : first = <<x>> /\ marker = <<Marker>> /\ sum = <<Crc8(body)>>
    OBVIOUS
  <1>10. /\ first \in Seq(Byte) /\ Len(first) = 1 /\ first[1] = x
         /\ marker \in Seq(Byte) /\ Len(marker) = 1 /\ marker[1] = Marker
         /\ sum \in Seq(Byte) /\ Len(sum) = 1 /\ sum[1] = data[x]
    <2>1. x \in Byte /\ Marker \in Byte
      BY DEF Byte, Marker
    <2>2. data[x] \in Byte
      <3>1. x \in 1 .. Len(data)
        OBVIOUS
      <3> QED BY <3>1
    <2>3. \A b \in Byte : <<b>> \in Seq(Byte) /\ Len(<<b>>) = 1 /\ <<b>>[1] = b
      BY OneByte
    <2> QED BY <1>5, <1>9, <2>1, <2>2, <2>3
  <1>11. PICK head, made : head = first \o type /\ made = head \o payload
    OBVIOUS
  <1>12. Joins(head, Byte, first, type)
    BY <1>3, <1>10, <1>11, TwoParts
  <1>13. /\ head \in Seq(Byte) /\ Len(head) = 3
         /\ head[1] = data[1] /\ head[2] = data[2] /\ head[3] = data[3]
    <2>1. 1 \in 1 .. Len(first) /\ 1 \in 1 .. Len(type) /\ 2 \in 1 .. Len(type)
          /\ Len(first) + 1 = 2 /\ Len(first) + 2 = 3
      BY <1>3, <1>10
    <2>2. head[1] = first[1] /\ head[Len(first) + 1] = type[1] /\ head[Len(first) + 2] = type[2]
      BY <1>12, <2>1 DEF Joins
    <2>3. head \in Seq(Byte) /\ Len(head) = 3
      BY <1>3, <1>10, <1>12 DEF Joins
    <2> QED BY <1>3, <1>10, <2>1, <2>2, <2>3
  <1>14. Joins(made, Byte, head, payload)
    BY <1>3, <1>11, <1>13, TwoParts
  <1>15. made = body
    <2>1. made \in Seq(Byte) /\ Len(made) = y
      BY <1>1, <1>3, <1>13, <1>14 DEF Joins
    <2>2. ASSUME NEW j \in 1 .. y PROVE made[j] = body[j]
      <3>1. CASE j <= 3
        <4>1. j \in 1 .. Len(head)
          BY <1>13, <3>1
        <4>2. made[j] = head[j]
          BY <1>14, <4>1 DEF Joins
        <4>3. j = 1 \/ j = 2 \/ j = 3
          BY <3>1
        <4> QED BY <1>3, <1>13, <4>2, <4>3
      <3>2. CASE ~(j <= 3)
        <4>1. PICK i \in 1 .. p : j = 3 + i
          <5>1. j - 3 \in 1 .. p /\ j = 3 + (j - 3)
            BY <1>1, <3>2
          <5> QED BY <5>1
        <4>2. made[Len(head) + i] = payload[i]
          BY <1>3, <1>14 DEF Joins
        <4> QED BY <1>3, <1>13, <4>1, <4>2
      <3> QED BY <3>1, <3>2
    <2> QED BY ONLY <1>3, <2>1, <2>2, SeqEqual
  <1>16. PICK s1, s2, e : s1 = marker \o body /\ s2 = s1 \o sum /\ e = s2 \o marker
    OBVIOUS
  <1>17. Encode(f) = e
    <2>1. ~(4 + Len(f.payload) > 255)
      BY <1>8
    <2>2. Encode(f) = <<Marker>> \o (<<4 + Len(f.payload)>> \o f.type \o f.payload)
                        \o <<Crc8(<<4 + Len(f.payload)>> \o f.type \o f.payload)>> \o <<Marker>>
      BY <2>1, Zenon DEF Encode
    <2>3. <<4 + Len(f.payload)>> \o f.type \o f.payload = body
      BY <1>7, <1>8, <1>9, <1>11, <1>15
    <2> QED BY <1>9, <1>16, <2>2, <2>3
  <1>18. Joins(s1, Byte, marker, body)
    BY <1>3, <1>10, <1>16, TwoParts
  <1>19. s1 \in Seq(Byte) /\ Len(s1) = x /\ s1[1] = Marker /\ \A j \in 1 .. y : s1[1 + j] = data[j]
    <2>1. 1 \in 1 .. Len(marker)
      BY <1>10
    <2>2. Len(s1) = x
      BY <1>1, <1>3, <1>10, <1>18 DEF Joins
    <2> QED BY <1>3, <1>10, <1>18, <2>1, <2>2 DEF Joins
  <1>20. Joins(s2, Byte, s1, sum)
    BY <1>10, <1>16, <1>19, TwoParts
  <1>21. /\ s2 \in Seq(Byte) /\ Len(s2) = x + 1 /\ s2[1] = Marker
         /\ \A j \in 1 .. x : s2[1 + j] = data[j]
    <2>1. 1 \in 1 .. Len(s1) /\ 1 \in 1 .. Len(sum) /\ \A j \in 1 .. y : 1 + j \in 1 .. Len(s1)
      BY <1>1, <1>10, <1>19
    <2>2. s2 \in Seq(Byte) /\ Len(s2) = x + 1
      BY <1>10, <1>19, <1>20 DEF Joins
    <2>3. s2[1] = Marker /\ (\A j \in 1 .. y : s2[1 + j] = data[j]) /\ s2[x + 1] = data[x]
      BY <1>10, <1>19, <1>20, <2>1 DEF Joins
    <2>4. \A j \in 1 .. x : j \in 1 .. y \/ (j = x /\ 1 + j = x + 1)
      BY <1>1
    <2> QED BY <2>2, <2>3, <2>4
  <1>22. Joins(e, Byte, s2, marker)
    BY <1>10, <1>16, <1>21, TwoParts
  <1>23. Framed(e, data, x)
    <2>1. 1 \in 1 .. Len(s2) /\ 1 \in 1 .. Len(marker) /\ \A j \in 1 .. x : 1 + j \in 1 .. Len(s2)
      BY <1>10, <1>21
    <2>2. e \in Seq(Byte) /\ Len(e) = x + 2 /\ Len(s2) + 1 = x + 2
      BY <1>10, <1>21, <1>22 DEF Joins
    <2>3. e[1] = s2[1] /\ e[Len(s2) + 1] = marker[1] /\ \A j \in 1 .. x : e[1 + j] = s2[1 + j]
      BY <1>22, <2>1 DEF Joins
    <2> QED BY <1>10, <1>21, <2>2, <2>3 DEF Framed
  <1> QED BY <1>5, <1>6, <1>17, <1>23

(* What a byte makes of the decoder, and what it gives (FrameDecoder::feed). *)
LEMMA IdleFeeds ==
    ASSUME NEW d, IsIdle(d), NEW c
    PROVE  /\ Feed(d, c).frames = <<>>
           /\ (c = Marker => Awaits(Feed(d, c).dec)) /\ (c # Marker => IsIdle(Feed(d, c).dec))
  <1>1. PICK m : d = Holding(<<>>, FALSE, 0, m)
    BY DEF IsIdle
  <1>2. ~d.inFrame
    <2>1. Facts(<<>>, FALSE, 0, m)
      BY HoldingFields
    <2> QED BY <1>1, <2>1 DEF Facts
  <1>3. Feed(d, c) = Stays(Started(d)) \/ Feed(d, c) = Stays(d)
    BY <1>2 DEF Feed, FeedMarker, FeedByte
  <1>4. Feed(d, c).frames = <<>>
    BY <1>3 DEF Stays
  <1> QED BY <1>4, IdleHears

(* A byte behind the opening marker: another marker, a length or nothing   *)
(* that starts a frame.                                                    *)
LEMMA AwaitsFeeds ==
    ASSUME NEW d, Awaits(d), NEW c \in Byte
    PROVE  /\ Feed(d, c).frames = <<>>
           /\ c = Marker => Awaits(Feed(d, c).dec)
           /\ c # Marker => IsIdle(Feed(d, c).dec) \/ (4 <= c /\ Collects(Feed(d, c).dec, <<c>>, c))
  <1>1. PICK m : d = Holding(<<>>, TRUE, 0, m)
    BY DEF Awaits
  <1>2. \A x : Stays(x).dec = x /\ Stays(x).frames = <<>>
    BY DEF Stays
  <1>3. /\ d.inFrame = TRUE /\ d.buffer = <<>> /\ d.expected = 0
        /\ ResetOnError(d) = Holding(<<>>, FALSE, 0, m + 1)
    <2>1. Facts(<<>>, TRUE, 0, m)
      BY HoldingFields
    <2> QED BY <1>1, <2>1 DEF Facts
  <1>4. c = Marker => Feed(d, c).frames = <<>>
    <2>1. d.expected = 0 /\ ~(d.expected > 0)
      <3>1. PICK z \in Nat : z = 0 /\ ~(z > 0)
        OBVIOUS
      <3> QED BY <1>3, <3>1, Zenon
    <2>2. FeedMarker(d) = Stays(d)
      BY <1>3, <2>1, Zenon DEF FeedMarker
    <2> QED BY <1>2, <2>2 DEF Feed
  <1>5. CASE c # Marker /\ BadLength(c)
    <2>1. Feed(d, c) = Stays(ResetOnError(d))
      BY <1>3, <1>5 DEF FeedByte, Feed
    <2> QED BY <1>2, <1>3, <1>5, <2>1 DEF IsIdle
  <1>6. CASE c # Marker /\ ~BadLength(c)
    <2>1. c \in Nat /\ 4 <= c /\ c <= 255
      BY <1>6 DEF BadLength, Byte
    <2>2. Feed(d, c) = Stays(Holding(<<c>>, TRUE, c, m))
      BY <1>1, <1>6, <2>1, HearsLength
    <2>3. Collects(Feed(d, c).dec, <<c>>, c)
      <3>1. <<c>> \in Seq(Byte) /\ <<c>> # <<>> /\ c # 0
        BY <2>1
      <3> QED BY <1>2, <2>1, <2>2, <3>1 DEF Collects
    <2> QED BY <1>2, <1>6, <2>1, <2>2, <2>3
  <1> QED BY <1>4, <1>5, <1>6, AwaitsHears

(* A byte inside a frame: it is collected, ends the frame or spoils it.    *)
LEMMA BodyFeeds ==
    ASSUME NEW d, NEW b, NEW x, Collects(d, b, x), NEW c \in Byte
    PROVE  \/ /\ Feed(d, c).frames = <<>> /\ Collects(Feed(d, c).dec, Append(b, c), x)
              /\ ~(Len(b) < x) => c # Marker
           \/ Feed(d, c).frames = <<>> /\ IsIdle(Feed(d, c).dec)
           \/ /\ Feed(d, c).frames = <<Parse(SubSeq(b, 1, x))>> /\ IsIdle(Feed(d, c).dec)
              /\ Parse(SubSeq(b, 1, x)) # FrameError /\ c = Marker /\ x <= Len(b)
  <1>1. PICK m : d = Holding(b, TRUE, x, m)
    BY DEF Collects
  <1>2. b \in Seq(Byte) /\ b # <<>> /\ x \in Nat /\ x # 0 /\ x <= 255 /\ Len(b) \in Nat
    BY DEF Collects
  <1>3. \A y : Stays(y).dec = y /\ Stays(y).frames = <<>>
    BY DEF Stays
  <1>4. Facts(b, TRUE, x, m)
    BY HoldingFields
  <1>5. /\ d.inFrame = TRUE /\ d.buffer = b /\ d.expected = x
        /\ Idle(d) = Holding(<<>>, FALSE, 0, m) /\ ResetOnError(d) = Holding(<<>>, FALSE, 0, m + 1)
    BY <1>1, <1>4 DEF Facts
  <1>6. x > 0 /\ ~(x = 0)
    BY <1>2
  <1>7. CASE Len(b) < x
    <2>1. Feed(d, c) = Stays(Holding(Append(b, c), TRUE, x, m))
      <3>1. \A y : /\ Feed(d, y) = Stays(Holding(Append(b, y), TRUE, x, m))
                   /\ SliceStep(d, y) = Stays(Holding(Append(b, y), TRUE, x, m))
        BY ONLY <1>1, <1>2, <1>7, HearsBody
      <3> QED BY <3>1
    <2>2. Collects(Feed(d, c).dec, Append(b, c), x)
      BY <1>7, BodyHears
    <2> QED BY <1>3, <1>7, <2>1, <2>2
  <1>8. CASE ~(Len(b) < x) /\ c = Marker
    <2>1. Len(b) >= x
      BY <1>2, <1>8
    <2>2. Feed(d, c) = Ends(d)
      BY <1>5, <1>6, <1>8, <2>1 DEF FeedMarker, Feed
    <2>3. Ends(d) = IF Parse(SubSeq(b, 1, x)) = FrameError THEN Stays(ResetOnError(d))
                    ELSE [dec |-> Idle(d), frames |-> <<Parse(SubSeq(b, 1, x))>>]
      BY <1>5 DEF Ends
    <2>4. CASE Parse(SubSeq(b, 1, x)) = FrameError
      BY <1>3, <1>5, <2>2, <2>3, <2>4 DEF IsIdle
    <2>5. CASE Parse(SubSeq(b, 1, x)) # FrameError
      <3>1. PICK r, p : r = Idle(d) /\ p = Parse(SubSeq(b, 1, x))
        OBVIOUS
      <3>2. Feed(d, c) = [dec |-> r, frames |-> <<p>>]
        BY <2>2, <2>3, <2>5, <3>1
      <3>3. Feed(d, c).dec = r /\ Feed(d, c).frames = <<p>>
        BY <3>2
      <3>4. IsIdle(r)
        BY <1>5, <3>1 DEF IsIdle
      <3>5. x <= Len(b)
        BY <2>1
      <3> QED BY <1>8, <2>5, <3>1, <3>3, <3>4, <3>5
    <2> QED BY <2>4, <2>5
  <1>9. CASE ~(Len(b) < x) /\ c # Marker
    <2>1. Feed(d, c) = Stays([d EXCEPT !.buffer = Append(@, c)])
      BY <1>2, <1>5, <1>9 DEF FeedByte, Feed
    <2>2. [d EXCEPT !.buffer = Append(@, c)] = Holding(Append(b, c), TRUE, x, m)
      <3>1. [d EXCEPT !.buffer = Append(b, c)] = Holding(Append(b, c), TRUE, x, m)
        BY <1>1, <1>4 DEF Facts
      <3>2. [d EXCEPT !.buffer = Append(@, c)] = [d EXCEPT !.buffer = Append(b, c)]
        BY <1>5
      <3> QED BY <3>1, <3>2
    <2>3. Append(b, c) \in Seq(Byte) /\ Append(b, c) # <<>>
      <3>1. Len(Append(b, c)) = Len(b) + 1
        BY <1>2
      <3> QED BY <1>2, <3>1
    <2>4. Collects(Feed(d, c).dec, Append(b, c), x)
      BY <1>2, <1>3, <2>1, <2>2, <2>3 DEF Collects
    <2> QED BY <1>3, <1>9, <2>1, <2>4
  <1> QED BY <1>7, <1>8, <1>9

(* The checksum of eight bits fits no bytes behind a marker but those of a *)
(* frame.                                                                  *)
Telling(bytes) ==
    \A i \in 1 .. Len(bytes) - 1 :
        LET x == bytes[i + 1]
        IN  bytes[i] = Marker /\ i + x + 1 <= Len(bytes) /\ Parse(SubSeq(bytes, i + 1, i + x)) # FrameError
              => bytes[i + x + 1] = Marker
EndsWith(bytes, start, end, e) ==
    /\ Len(e) \in Nat /\ e \in Seq(Byte) /\ start + Len(e) <= end + 1
    /\ \A j \in 1 .. Len(e) : e[j] = bytes[end - Len(e) + j]
Shown(found, bytes) ==
    \A k \in 1 .. Len(found) : EndsWith(bytes, found[k].start, found[k].end, Encode(found[k].frame))
(* What the decoder collected are the bytes since a marker. *)
Since(bytes, i, b, x, start) ==
    \E q \in Nat :
        /\ q + Len(b) = i /\ start <= q /\ 1 <= q /\ bytes[q] = Marker
        /\ \A j \in 1 .. Len(b) : bytes[q + j] = b[j]
        /\ b[1] = x /\ 4 <= x /\ (Len(b) > x => bytes[q + x + 1] # Marker)

(* A frame that is given ends with its bytes. *)
LEMMA FrameIsShown ==
    ASSUME NEW bytes \in Seq(Byte), Telling(bytes), NEW d, NEW b, NEW x, Collects(d, b, x),
           NEW i \in Nat, i + 1 <= Len(bytes), bytes[i + 1] = Marker, NEW start \in Nat,
           Since(bytes, i, b, x, start), x <= Len(b), Parse(SubSeq(b, 1, x)) # FrameError
    PROVE  EndsWith(bytes, start, i + 1, Encode(Parse(SubSeq(b, 1, x))))
  <1>1. PICK q \in Nat :
            /\ q + Len(b) = i /\ start <= q /\ 1 <= q /\ bytes[q] = Marker
            /\ \A j \in 1 .. Len(b) : bytes[q + j] = b[j]
            /\ b[1] = x /\ 4 <= x /\ (Len(b) > x => bytes[q + x + 1] # Marker)
    BY DEF Since
  <1>2. b \in Seq(Byte) /\ x \in Nat /\ x <= 255 /\ Len(b) \in Nat
    BY DEF Collects
  <1>3. PICK z \in Nat : z = 0
    OBVIOUS
  <1>4. PICK data, part : data = SubSeq(b, z + 1, z + x) /\ part = SubSeq(bytes, q + 1, q + x)
    OBVIOUS
  <1>5. data \in Seq(Byte) /\ Len(data) = x /\ \A j \in 1 .. x : data[j] = b[j]
    <2>1. z + x <= Len(b)
      BY <1>2, <1>3
    <2>2. Stretch(data, Byte, b, z, x)
      BY <1>2, <1>4, <2>1, Cut
    <2> QED BY <1>3, <2>2 DEF Stretch
  <1>6. part \in Seq(Byte) /\ Len(part) = x /\ \A j \in 1 .. x : part[j] = bytes[q + j]
    <2>1. q + x <= Len(bytes)
      BY <1>1, <1>2
    <2>2. Stretch(part, Byte, bytes, q, x)
      BY <1>2, <1>4, <2>1, Cut
    <2> QED BY <2>2 DEF Stretch
  <1>7. part = data
    <2>1. \A j \in 1 .. x : part[j] = data[j]
      <3> TAKE j \in 1 .. x
      <3>1. j \in 1 .. Len(b)
        BY ONLY <1>2, x <= Len(b), x \in Nat, j \in 1 .. x
      <3> QED BY <1>1, <1>5, <1>6, <3>1
    <2> QED BY ONLY <1>5, <1>6, <2>1, SeqEqual
  <1>8. data = SubSeq(b, 1, x)
    <2>1. z + 1 = 1 /\ z + x = x
      BY <1>2, <1>3
    <2> QED BY <1>4, <2>1
  <1>9. bytes[q + x + 1] = Marker
    <2>1. q \in 1 .. Len(bytes) - 1 /\ q + x + 1 <= Len(bytes)
      BY <1>1, <1>2
    <2>2. bytes[q + 1] = x
      <3>1. 1 \in 1 .. Len(b)
        BY <1>1, <1>2
      <3> QED BY <1>1, <3>1
    <2>3. Parse(SubSeq(bytes, q + 1, q + x)) # FrameError
      BY <1>4, <1>7, <1>8
    <2> QED BY <1>1, <2>1, <2>2, <2>3 DEF Telling
  <1>10. Len(b) = x /\ i = q + x
    BY <1>1, <1>2, <1>9
  <1>11. PICK e : e = Encode(Parse(data))
    OBVIOUS
  <1>12. Framed(e, data, x)
    <2>1. data[1] = x
      <3>1. 1 \in 1 .. x
        BY <1>1, <1>2
      <3> QED BY <1>1, <1>5, <3>1
    <2> QED BY <1>1, <1>2, <1>5, <1>8, <1>11, <2>1, ParsedIsEncoded
  <1>13. e \in Seq(Byte) /\ Len(e) = x + 2 /\ Len(e) \in Nat /\ start + Len(e) <= (i + 1) + 1
    BY <1>1, <1>2, <1>10, <1>12 DEF Framed
  <1>14. ASSUME NEW j \in 1 .. Len(e) PROVE e[j] = bytes[(i + 1) - Len(e) + j]
    <2>1. (i + 1) - Len(e) + j = q + (j - 1)
      <3>1. PICK l \in Nat : l = Len(e) /\ l = x + 2 /\ j \in 1 .. l
        BY <1>13
      <3>2. (i + 1) - l + j = q + (j - 1)
        BY ONLY <1>10, <3>1, q \in Nat, x \in Nat, i \in Nat
      <3> QED BY <3>1, <3>2
    <2>2. CASE j = 1
      <3>1. q + (j - 1) = q
        BY <2>2
      <3> QED BY <1>1, <1>12, <2>1, <2>2, <3>1 DEF Framed
    <2>3. CASE j = x + 2
      <3>1. q + (j - 1) = i + 1
        BY <1>2, <1>10, <2>3
      <3> QED BY <1>12, <2>1, <2>3, <3>1 DEF Framed
    <2>4. CASE j # 1 /\ j # x + 2
      <3>1. j - 1 \in 1 .. x /\ 1 + (j - 1) = j
        BY <1>2, <1>13, <2>4
      <3>2. e[1 + (j - 1)] = data[j - 1]
        BY <1>12, <3>1 DEF Framed
      <3>3. part[j - 1] = bytes[q + (j - 1)]
        BY <1>6, <3>1
      <3> QED BY <1>7, <2>1, <3>1, <3>2, <3>3
    <2> QED BY <2>2, <2>3, <2>4
  <1> QED BY <1>8, <1>11, <1>13, <1>14 DEF EndsWith

(* Where the decoder is in the capture. *)
Tracked(dec, bytes, i, start) ==
    \/ IsIdle(dec)
    \/ Awaits(dec) /\ bytes[i] = Marker /\ start <= i
    \/ \E b, x : Collects(dec, b, x) /\ Since(bytes, i, b, x, start)
OffsetFits(o, bytes, i) ==
    /\ o.inFrame \in BOOLEAN
    /\ o.inFrame => o.start \in 1 .. i /\ \A k \in 1 .. Len(o.found) : o.found[k].end < o.start
    /\ ~o.inFrame => IsIdle(o.dec)
    /\ Tracked(o.dec, bytes, i, o.start)
    /\ \E S : o.found \in Seq(S)
    /\ FoundFits(o.found, i)
    /\ Telling(bytes) => Shown(o.found, bytes)

(* A byte more of a body. *)
LEMMA SinceGrows ==
    ASSUME NEW bytes \in Seq(Byte), NEW i \in Nat, NEW c \in Byte, bytes[i + 1] = c, NEW start \in Nat,
           NEW b \in Seq(Byte), b # <<>>, NEW x \in Nat, Since(bytes, i, b, x, start),
           ~(Len(b) < x) => c # Marker
    PROVE  Since(bytes, i + 1, Append(b, c), x, start)
  <1>1. PICK q \in Nat :
            /\ q + Len(b) = i /\ start <= q /\ 1 <= q /\ bytes[q] = Marker
            /\ \A j \in 1 .. Len(b) : bytes[q + j] = b[j]
            /\ b[1] = x /\ 4 <= x /\ (Len(b) > x => bytes[q + x + 1] # Marker)
    BY DEF Since
  <1>2. PICK a : a = Append(b, c)
    OBVIOUS
  <1>3. /\ Len(b) \in Nat /\ Len(a) = Len(b) + 1 /\ a[Len(b) + 1] = c
        /\ \A j \in 1 .. Len(b) : a[j] = b[j]
    BY <1>2
  <1>4. q + Len(a) = i + 1
    BY <1>1, <1>3
  <1>5. \A j \in 1 .. Len(a) : bytes[q + j] = a[j]
    <2> TAKE j \in 1 .. Len(a)
    <2>1. CASE j = Len(b) + 1
      <3>1. PICK l \in Nat : l = Len(b) /\ q + l = i /\ j = l + 1
        BY <1>1, <1>3, <2>1
      <3>2. q + j = i + 1
        BY ONLY <3>1, q \in Nat, i \in Nat
      <3> QED BY <1>3, <2>1, <3>2
    <2>2. CASE j # Len(b) + 1
      <3>1. j \in 1 .. Len(b)
        BY <1>3, <2>2
      <3> QED BY <1>1, <1>3, <3>1
    <2> QED BY <2>1, <2>2
  <1>6. a[1] = x
    <2>1. 1 \in 1 .. Len(b)
      BY <1>3
    <2> QED BY <1>1, <1>3, <2>1
  <1>7. Len(a) > x => bytes[q + x + 1] # Marker
    <2> SUFFICES ASSUME Len(a) > x PROVE bytes[q + x + 1] # Marker
      OBVIOUS
    <2>1. CASE Len(b) > x
      BY <1>1, <2>1
    <2>2. CASE ~(Len(b) > x)
      <3>1. Len(b) = x /\ ~(Len(b) < x) /\ q + x + 1 = i + 1
        BY <1>1, <1>3, <2>2
      <3> QED BY <3>1
    <2> QED BY <2>1, <2>2
  <1> QED BY <1>1, <1>2, <1>4, <1>5, <1>6, <1>7 DEF Since

(* A frame more. *)
LEMMA FoundGrows ==
    ASSUME NEW S, NEW found \in Seq(S), NEW r
    PROVE  /\ Append(found, r) \in Seq(S \cup {r}) /\ Len(Append(found, r)) = Len(found) + 1
           /\ Append(found, r)[Len(found) + 1] = r
           /\ \A k \in 1 .. Len(found) : Append(found, r)[k] = found[k]
  <1>1. found \in Seq(S \cup {r}) /\ r \in S \cup {r}
    <2>1. \A k \in 1 .. Len(found) : found[k] \in S \cup {r}
      OBVIOUS
    <2> QED BY <2>1, SeqDef
  <1> QED BY <1>1

(* Where the frame that is being heard starts, and what a byte makes of    *)
(* what was found: it stays, or a frame is added.                          *)
StartOf(o, c, i) == IF c = Marker /\ ~o.inFrame THEN i ELSE o.start
Offsets(r, fed, o, c, i, start) ==
    /\ r.dec = fed.dec /\ r.start = start
    /\ r.inFrame = (fed.frames = <<>> /\ ((c = Marker /\ ~o.inFrame) \/ o.inFrame))
    /\ fed.frames = <<>> => r.found = o.found
    /\ \A p : fed.frames = <<p>> =>
          r.found = Append(o.found, [start |-> start, end |-> i, frame |-> p])
(* A byte that OffsetFrameDecoder::feed is given does so.                  *)
LEMMA OffsetFields ==
    ASSUME NEW o, NEW S, o.found \in Seq(S), NEW c, NEW i
    PROVE  Offsets(OffsetFeed(o, c, i), Feed(o.dec, c), o, c, i, StartOf(o, c, i))
  <1>0. PICK start : start = StartOf(o, c, i)
    OBVIOUS
  <1>1. PICK fed : fed = Feed(o.dec, c)
    OBVIOUS
  <1>2. PICK more : more = [j \in 1 .. Len(fed.frames) |->
                              [start |-> start, end |-> i, frame |-> fed.frames[j]]]
    OBVIOUS
  <1>3. OffsetFeed(o, c, i) =
          [dec |-> fed.dec,
           inFrame |-> fed.frames = <<>> /\ ((c = Marker /\ ~o.inFrame) \/ o.inFrame),
           start |-> start, found |-> o.found \o more]
    BY <1>0, <1>1, <1>2 DEF OffsetFeed, StartOf
  <1>4. /\ OffsetFeed(o, c, i).dec = fed.dec /\ OffsetFeed(o, c, i).start = start
        /\ OffsetFeed(o, c, i).inFrame = (fed.frames = <<>> /\ ((c = Marker /\ ~o.inFrame) \/ o.inFrame))
        /\ OffsetFeed(o, c, i).found = o.found \o more
    <2>1. PICK b : b = (fed.frames = <<>> /\ ((c = Marker /\ ~o.inFrame) \/ o.inFrame))
      OBVIOUS
    <2>2. OffsetFeed(o, c, i) = [dec |-> fed.dec, inFrame |-> b, start |-> start, found |-> o.found \o more]
      BY <1>3, <2>1, Zenon
    <2>3. /\ OffsetFeed(o, c, i).dec = fed.dec /\ OffsetFeed(o, c, i).start = start
          /\ OffsetFeed(o, c, i).inFrame = b /\ OffsetFeed(o, c, i).found = o.found \o more
      BY ONLY <2>2
    <2> QED BY <2>1, <2>3, Zenon
  <1>5. fed.frames = <<>> => o.found \o more = o.found
    <2> SUFFICES ASSUME fed.frames = <<>> PROVE o.found \o more = o.found
      OBVIOUS
    <2>1. more = <<>>
      BY <1>2
    <2> QED BY <2>1
  <1>6. ASSUME NEW p, fed.frames = <<p>>
        PROVE  o.found \o more = Append(o.found, [start |-> start, end |-> i, frame |-> p])
    <2>1. PICK r : r = [start |-> start, end |-> i, frame |-> p]
      OBVIOUS
    <2>2. more = <<r>>
      BY <1>2, <1>6, <2>1
    <2>3. o.found \in Seq(S \cup {r}) /\ r \in S \cup {r}
      <3>1. \A k \in 1 .. Len(o.found) : o.found[k] \in S \cup {r}
        OBVIOUS
      <3> QED BY <3>1, SeqDef
    <2>4. \A T : \A s \in Seq(T) : \A x \in T : s \o <<x>> = Append(s, x)
      OBVIOUS
    <2> QED BY <2>1, <2>2, <2>3, <2>4
  <1> QED BY <1>0, <1>1, <1>4, <1>5, <1>6, Zenon DEF Offsets

(* A byte more of a capture (OffsetFrameDecoder::feed). *)
LEMMA OffsetSteps ==
    ASSUME NEW bytes \in Seq(Byte), NEW i \in Nat, i + 1 <= Len(bytes), NEW o, OffsetFits(o, bytes, i)
    PROVE  OffsetFits(OffsetFeed(o, bytes[i + 1], i + 1), bytes, i + 1)
  <1>1. PICK c \in Byte : c = bytes[i + 1]
    <2>1. i + 1 \in 1 .. Len(bytes)
      OBVIOUS
    <2> QED BY <2>1
  <1>2. PICK S : o.found \in Seq(S)
    BY DEF OffsetFits
  <1>3. PICK found : found = o.found
    OBVIOUS
  <1>4. found \in Seq(S) /\ FoundFits(found, i) /\ (Telling(bytes) => Shown(found, bytes))
        /\ o.inFrame \in BOOLEAN
        /\ (o.inFrame => o.start \in 1 .. i /\ \A k \in 1 .. Len(found) : found[k].end < o.start)
        /\ (~o.inFrame => IsIdle(o.dec))
    BY <1>2, <1>3 DEF OffsetFits
  <1>5. PICK j \in Nat : j = i + 1
    OBVIOUS
  <1>6. PICK r, fed : r = OffsetFeed(o, c, j) /\ fed = Feed(o.dec, c)
    OBVIOUS
  <1> SUFFICES OffsetFits(r, bytes, j)
    BY <1>1, <1>5, <1>6
  <1>7. PICK start : start = StartOf(o, c, j) /\ start = (IF c = Marker /\ ~o.inFrame THEN j ELSE o.start)
    BY DEF StartOf
  <1>8. /\ r.dec = fed.dec /\ r.start = start
        /\ r.inFrame = (fed.frames = <<>> /\ ((c = Marker /\ ~o.inFrame) \/ o.inFrame))
        /\ fed.frames = <<>> => r.found = found
        /\ \A p : fed.frames = <<p>> =>
             r.found = Append(found, [start |-> start, end |-> j, frame |-> p])
    <2>1. Offsets(OffsetFeed(o, c, j), Feed(o.dec, c), o, c, j, StartOf(o, c, j))
      BY <1>2, OffsetFields
    <2>2. Offsets(r, fed, o, c, j, start)
      BY <1>6, <1>7, <2>1, Zenon
    <2> QED BY <1>3, <2>2, Zenon DEF Offsets
  <1>9. FoundFits(found, j)
    <2>1. Len(found) \in Nat
      BY <1>4
    <2>2. \A k \in 1 .. Len(found) :
              /\ found[k].start \in 1 .. j /\ found[k].end \in 1 .. j /\ found[k].start <= found[k].end
              /\ found[k].frame # FrameError
      BY <1>4, <1>5 DEF FoundFits
    <2> QED BY <1>4, <1>5, <2>1, <2>2 DEF FoundFits
  <1>10. (c = Marker /\ ~o.inFrame) \/ o.inFrame =>
             start \in 1 .. j /\ \A k \in 1 .. Len(found) : found[k].end < start
    <2>1. CASE o.inFrame
      BY <1>4, <1>5, <1>7, <2>1
    <2>2. CASE c = Marker /\ ~o.inFrame
      <3>1. start = j /\ j \in 1 .. j
        BY <1>5, <1>7, <2>2
      <3>2. \A k \in 1 .. Len(found) : found[k].end < j
        BY <1>4, <1>5 DEF FoundFits
      <3> QED BY <3>1, <3>2
    <2> QED BY <2>1, <2>2
  <1>11. ASSUME fed.frames = <<>>, Tracked(fed.dec, bytes, j, start),
                ~((c = Marker /\ ~o.inFrame) \/ o.inFrame) => IsIdle(fed.dec)
         PROVE  OffsetFits(r, bytes, j)
    <2>1. r.found = found /\ r.inFrame = ((c = Marker /\ ~o.inFrame) \/ o.inFrame)
      BY <1>8, <1>11, Zenon
    <2>2. r.inFrame \in BOOLEAN
      BY <2>1
    <2>3. r.inFrame => r.start \in 1 .. j /\ \A k \in 1 .. Len(r.found) : r.found[k].end < r.start
      BY <1>8, <1>10, <2>1, Zenon
    <2>4. ~r.inFrame => IsIdle(r.dec)
      BY <1>8, <1>11, <2>1, Zenon
    <2> QED BY <1>4, <1>8, <1>9, <1>11, <2>1, <2>2, <2>3, <2>4, Zenon DEF OffsetFits
  <1>12. CASE ~o.inFrame
    <2>1. /\ fed.frames = <<>>
          /\ (c = Marker => Awaits(fed.dec)) /\ (c # Marker => IsIdle(fed.dec))
      BY <1>4, <1>6, <1>12, IdleFeeds
    <2>2. CASE c = Marker
      <3>1. start = j /\ bytes[j] = Marker /\ start <= j
        BY <1>1, <1>5, <1>7, <1>12, <2>2
      <3>2. Tracked(fed.dec, bytes, j, start)
        BY <2>1, <2>2, <3>1 DEF Tracked
      <3> QED BY <1>11, <1>12, <2>1, <2>2, <3>2
    <2>3. CASE c # Marker
      BY <1>11, <2>1, <2>3 DEF Tracked
    <2> QED BY <2>2, <2>3
  <1>13. CASE o.inFrame /\ IsIdle(o.dec)
    <2>1. /\ fed.frames = <<>>
          /\ (c = Marker => Awaits(fed.dec)) /\ (c # Marker => IsIdle(fed.dec))
      BY <1>6, <1>13, IdleFeeds
    <2>2. start \in 1 .. j
      BY <1>10, <1>13
    <2>3. c = Marker => bytes[j] = Marker /\ start <= j
      BY <1>1, <1>5, <2>2
    <2>4. Tracked(fed.dec, bytes, j, start)
      BY <2>1, <2>3 DEF Tracked
    <2> QED BY <1>11, <1>13, <2>1, <2>4
  <1>14. CASE o.inFrame /\ Awaits(o.dec) /\ bytes[i] = Marker /\ o.start <= i
    <2>1. /\ fed.frames = <<>>
          /\ c = Marker => Awaits(fed.dec)
          /\ c # Marker => IsIdle(fed.dec) \/ (4 <= c /\ Collects(fed.dec, <<c>>, c))
      BY <1>6, <1>14, AwaitsFeeds
    <2>2. start \in 1 .. j /\ start = o.start /\ start \in 1 .. i
      BY <1>4, <1>7, <1>10, <1>14
    <2>3. c = Marker => bytes[j] = Marker /\ start <= j
      BY <1>1, <1>5, <2>2
    <2>4. c # Marker /\ 4 <= c => Since(bytes, j, <<c>>, c, start)
      <3> SUFFICES ASSUME 4 <= c PROVE Since(bytes, j, <<c>>, c, start)
        OBVIOUS
      <3>1. PICK b : b = <<c>>
        OBVIOUS
      <3>2. Len(b) = 1 /\ b[1] = c
        BY <3>1
      <3>3. i + Len(b) = j /\ start <= i /\ 1 <= i /\ ~(Len(b) > c)
        <4>1. c \in Nat
          BY DEF Byte
        <4> QED BY <1>5, <2>2, <3>2, <4>1
      <3>4. \A k \in 1 .. Len(b) : bytes[i + k] = b[k]
        <4>1. \A k \in 1 .. Len(b) : k = 1
          BY <3>2
        <4> QED BY <1>1, <3>2, <4>1
      <3> QED BY <1>14, <3>1, <3>2, <3>3, <3>4 DEF Since
    <2>5. Tracked(fed.dec, bytes, j, start)
      <3>1. CASE c # Marker /\ 4 <= c /\ Collects(fed.dec, <<c>>, c)
        BY <2>4, <3>1 DEF Tracked
      <3>2. CASE IsIdle(fed.dec)
        BY <3>2 DEF Tracked
      <3>3. CASE c = Marker
        BY <2>1, <2>3, <3>3 DEF Tracked
      <3> QED BY <2>1, <3>1, <3>2, <3>3
    <2> QED BY <1>11, <1>14, <2>1, <2>5
  <1>15. ASSUME o.inFrame, NEW b, NEW x, Collects(o.dec, b, x), Since(bytes, i, b, x, o.start)
         PROVE  OffsetFits(r, bytes, j)
    <2>1. b \in Seq(Byte) /\ b # <<>> /\ x \in Nat
      BY <1>15 DEF Collects
    <2>2. start \in Nat /\ start \in 1 .. j /\ start = o.start
      BY <1>7, <1>10, <1>15
    <2>3. CASE /\ fed.frames = <<>> /\ Collects(fed.dec, Append(b, c), x)
               /\ ~(Len(b) < x) => c # Marker
      <3>1. Since(bytes, i + 1, Append(b, c), x, start)
        BY <1>1, <1>15, <2>1, <2>2, <2>3, SinceGrows
      <3>2. Tracked(fed.dec, bytes, j, start)
        BY <1>5, <2>3, <3>1 DEF Tracked
      <3> QED BY <1>11, <1>15, <2>3, <3>2
    <2>4. CASE fed.frames = <<>> /\ IsIdle(fed.dec)
      BY <1>11, <1>15, <2>4 DEF Tracked
    <2>5. CASE /\ fed.frames = <<Parse(SubSeq(b, 1, x))>> /\ IsIdle(fed.dec)
               /\ Parse(SubSeq(b, 1, x)) # FrameError /\ c = Marker /\ x <= Len(b)
      <3>1. PICK p : p = Parse(SubSeq(b, 1, x))
        OBVIOUS
      <3>2. PICK e : e = [start |-> start, end |-> j, frame |-> p]
        OBVIOUS
      <3>3. e.start = start /\ e.end = j /\ e.frame = p
        BY <3>2
      <3>4. PICK longer : longer = Append(found, e)
        OBVIOUS
      <3>5. /\ longer \in Seq(S \cup {e}) /\ Len(longer) = Len(found) + 1
            /\ longer[Len(found) + 1] = e /\ \A k \in 1 .. Len(found) : longer[k] = found[k]
        BY <1>4, <3>4, FoundGrows
      <3>6. fed.frames = <<p>> /\ fed.frames # <<>>
        <4>1. \A y : <<y>> # <<>>
          OBVIOUS
        <4> QED BY <2>5, <3>1, <4>1
      <3>7. r.found = longer /\ ~r.inFrame /\ r.inFrame \in BOOLEAN
        <4>1. r.found = longer
          BY <1>8, <3>2, <3>4, <3>6, Zenon
        <4>2. r.inFrame = FALSE
          BY <1>8, <3>6, Zenon
        <4> QED BY <4>1, <4>2
      <3>8. PICK n \in Nat : n = Len(found)
        BY <1>4
      <3>9. \A k \in 1 .. Len(longer) : (k \in 1 .. n /\ longer[k] = found[k]) \/ (k = n + 1 /\ longer[k] = e)
        BY <3>5, <3>8
      <3>10. FoundFits(longer, j)
        <4>1. Len(longer) \in Nat
          BY <3>5, <3>8
        <4>2. \A k \in 1 .. Len(longer) :
                  /\ longer[k].start \in 1 .. j /\ longer[k].end \in 1 .. j
                  /\ longer[k].start <= longer[k].end /\ longer[k].frame # FrameError
          <5> TAKE k \in 1 .. Len(longer)
          <5>1. CASE k \in 1 .. n /\ longer[k] = found[k]
            BY <1>9, <3>8, <5>1 DEF FoundFits
          <5>2. CASE longer[k] = e
            <6>1. start <= j /\ j \in 1 .. j
              BY <1>5, <2>2
            <6> QED BY <2>2, <2>5, <3>1, <3>3, <5>2, <6>1
          <5> QED BY <3>9, <5>1, <5>2
        <4>3. ASSUME NEW h \in 1 .. Len(longer), NEW k \in 1 .. Len(longer), h < k
              PROVE  longer[h].end < longer[k].start
          <5>1. h \in 1 .. n /\ longer[h] = found[h]
            BY <3>5, <3>8, <4>3
          <5>2. CASE k \in 1 .. n /\ longer[k] = found[k]
            BY <1>9, <3>8, <4>3, <5>1, <5>2 DEF FoundFits
          <5>3. CASE longer[k] = e
            BY <1>10, <1>15, <3>3, <3>8, <5>1, <5>3
          <5> QED BY <3>9, <5>2, <5>3
        <4> QED BY <1>5, <4>1, <4>2, <4>3 DEF FoundFits
      <3>11. Telling(bytes) => Shown(longer, bytes)
        <4> SUFFICES ASSUME Telling(bytes), NEW k \in 1 .. Len(longer)
                     PROVE  EndsWith(bytes, longer[k].start, longer[k].end, Encode(longer[k].frame))
          BY DEF Shown
        <4>1. CASE k \in 1 .. n /\ longer[k] = found[k]
          BY <1>4, <3>8, <4>1 DEF Shown
        <4>2. CASE longer[k] = e
          <5>1. EndsWith(bytes, start, i + 1, Encode(p))
            BY <1>1, <1>15, <2>2, <2>5, <3>1, FrameIsShown
          <5> QED BY <1>5, <3>3, <4>2, <5>1
        <4> QED BY <3>9, <4>1, <4>2
      <3>12. Tracked(r.dec, bytes, j, r.start) /\ IsIdle(r.dec)
        BY <1>8, <2>5 DEF Tracked
      <3> QED BY <3>5, <3>7, <3>10, <3>11, <3>12, Zenon DEF OffsetFits
    <2> QED BY <1>6, <1>15, <2>3, <2>4, <2>5, BodyFeeds
  <1>16. Tracked(o.dec, bytes, i, o.start)
    BY DEF OffsetFits
  <1> QED BY <1>12, <1>13, <1>14, <1>15, <1>16 DEF Tracked

OffsetNext(o, c, i) == CHOOSE r \in {OffsetFeed(x, c, i) : x \in {o}} : TRUE
RunsFrom(f, bytes, n) ==
    f = [i \in 0 .. n |-> IF i = 0 THEN NewOffset ELSE OffsetNext(f[i - 1], bytes[i], i)]
(* The decoder runs over the bytes. *)
LEMMA DecoderRuns ==
    ASSUME NEW bytes, NEW N \in Nat
    PROVE  \E f : RunsFrom(f, bytes, N)
  <1> DEFINE Bad == {n \in Nat : ~\E f : RunsFrom(f, bytes, n)}
  <1>1. SUFFICES ASSUME Bad # {} PROVE FALSE
    BY DEF Bad
  <1>2. Bad \in SUBSET Nat /\ \A n : n \in Bad <=> n \in Nat /\ ~\E f : RunsFrom(f, bytes, n)
    OBVIOUS
  <1> HIDE DEF Bad
  <1>3. PICK n \in Bad : \A j \in Bad : n <= j
    BY <1>1, <1>2, LeastIsThere
  <1>4. n \in Nat /\ ~\E f : RunsFrom(f, bytes, n)
    BY <1>2
  <1>5. CASE n = 0
    <2> DEFINE f == [i \in 0 .. n |-> NewOffset]
    <2>1. \A i \in 0 .. n : i = 0
      BY <1>5
    <2>2. f = [i \in 0 .. n |-> IF i = 0 THEN NewOffset ELSE OffsetNext(f[i - 1], bytes[i], i)]
      BY <2>1
    <2> QED BY <1>4, <2>2 DEF RunsFrom
  <1>6. CASE n # 0
    <2>1. PICK m \in Nat : m = n - 1 /\ ~(n <= m)
      BY <1>4, <1>6
    <2>2. PICK f : RunsFrom(f, bytes, m)
      BY <1>2, <1>3, <2>1
    <2> DEFINE g == [i \in 0 .. n |-> IF i = n THEN OffsetNext(f[m], bytes[n], n) ELSE f[i]]
    <2>3. \A i \in 0 .. m : f[i] = IF i = 0 THEN NewOffset ELSE OffsetNext(f[i - 1], bytes[i], i)
      BY <2>2 DEF RunsFrom
    <2>4. \A i \in 0 .. n : i = n \/ i \in 0 .. m
      BY <1>4, <2>1
    <2>5. ASSUME NEW i \in 0 .. n
          PROVE  g[i] = IF i = 0 THEN NewOffset ELSE OffsetNext(g[i - 1], bytes[i], i)
      <3>1. CASE i = n
        <4>1. i - 1 = m /\ i - 1 \in 0 .. n /\ i - 1 # n /\ i # 0
          BY <1>4, <1>6, <2>1, <3>1
        <4>2. g[i - 1] = f[m] /\ g[i] = OffsetNext(f[m], bytes[n], n)
          BY <3>1, <4>1
        <4> HIDE DEF g
        <4> QED BY <3>1, <4>1, <4>2
      <3>2. CASE i = 0
        <4>1. 0 \in 0 .. m /\ i # n
          BY <1>6, <2>1, <3>2
        <4>2. g[i] = f[i]
          BY <4>1
        <4>3. f[i] = NewOffset
          BY <2>3, <3>2, <4>1
        <4> QED BY <3>2, <4>2, <4>3
      <3>3. CASE i # n /\ i # 0
        <4>1. i \in 0 .. m /\ i - 1 \in 0 .. n /\ i - 1 # n
          BY <1>4, <2>1, <3>3
        <4>2. g[i] = f[i] /\ g[i - 1] = f[i - 1]
          BY <3>3, <4>1
        <4>3. f[i] = OffsetNext(f[i - 1], bytes[i], i)
          BY <2>3, <3>3, <4>1
        <4> QED BY <3>3, <4>2, <4>3
      <3> QED BY <3>1, <3>2, <3>3
    <2>6. RunsFrom(g, bytes, n)
      <3>1. g = [i \in 0 .. n |-> g[i]]
        OBVIOUS
      <3> HIDE DEF g
      <3> QED BY <2>5, <3>1 DEF RunsFrom
    <2> QED BY <1>4, <2>6
  <1> QED BY <1>5, <1>6

(* What is found in a capture: frames, one behind the other, each ending   *)
(* with its bytes.                                                         *)
LEMMA DecodedFits ==
    ASSUME NEW bytes \in Seq(Byte)
    PROVE  /\ FoundFits(DecodedFrames(bytes), Len(bytes))
           /\ Telling(bytes) => Shown(DecodedFrames(bytes), bytes)
  <1>1. PICK n \in Nat : n = Len(bytes)
    OBVIOUS
  <1> DEFINE g == CHOOSE g : RunsFrom(g, bytes, n)
  <1>2. RunsFrom(g, bytes, n)
    BY DecoderRuns
  <1>3. DecodedFrames(bytes) = g[n].found
    BY <1>1 DEF DecodedFrames, RunsFrom, OffsetNext
  <1> HIDE DEF g
  <1>4. \A o, c, i : OffsetNext(o, c, i) = OffsetFeed(o, c, i)
    BY DEF OffsetNext
  <1>5. g[0] = NewOffset /\ \A i \in 1 .. n : g[i] = OffsetFeed(g[i - 1], bytes[i], i)
    <2>1. 0 \in 0 .. n /\ \A i \in 1 .. n : i \in 0 .. n /\ i # 0
      BY <1>1
    <2> QED BY <1>2, <1>4, <2>1 DEF RunsFrom
  <1>6. OffsetFits(g[0], bytes, 0)
    <2>1. NewDecoder = Holding(<<>>, FALSE, 0, 0)
      BY DEF NewDecoder, Holding
    <2>2. IsIdle(NewDecoder)
      BY <2>1 DEF IsIdle
    <2>3. /\ g[0].dec = NewDecoder /\ g[0].inFrame = FALSE /\ g[0].found = <<>>
      BY <1>5 DEF NewOffset
    <2>4. <<>> \in Seq(Nat) /\ Len(<<>>) = 0 /\ 0 \in Nat /\ \A k \in 1 .. 0 : FALSE
      OBVIOUS
    <2>5. FoundFits(g[0].found, 0) /\ Shown(g[0].found, bytes)
      BY <2>3, <2>4 DEF FoundFits, Shown
    <2> QED BY <2>2, <2>3, <2>4, <2>5 DEF OffsetFits, Tracked
  <1>7. OffsetFits(g[n], bytes, n)
    <2> DEFINE Bad == {k \in 0 .. n : ~OffsetFits(g[k], bytes, k)}
    <2>1. SUFFICES ASSUME Bad # {} PROVE FALSE
      BY <1>1 DEF Bad
    <2>2. Bad \in SUBSET Nat /\ \A k : k \in Bad <=> k \in 0 .. n /\ ~OffsetFits(g[k], bytes, k)
      OBVIOUS
    <2> HIDE DEF Bad
    <2>3. PICK k \in Bad : \A j \in Bad : k <= j
      BY <2>1, <2>2, LeastIsThere
    <2>4. k \in 1 .. n /\ ~OffsetFits(g[k], bytes, k)
      BY <1>6, <2>2
    <2>5. PICK i \in Nat : i = k - 1 /\ i + 1 = k /\ i \in 0 .. n /\ ~(k <= i) /\ i + 1 <= n
      BY <2>4
    <2>6. OffsetFits(g[i], bytes, i)
      BY <2>2, <2>3, <2>5
    <2>7. OffsetFits(OffsetFeed(g[i], bytes[i + 1], i + 1), bytes, i + 1)
      BY <1>1, <2>5, <2>6, OffsetSteps
    <2> QED BY <1>5, <2>4, <2>5, <2>7
  <1> QED BY <1>1, <1>3, <1>7 DEF OffsetFits

(* A stretch that ends with bytes has them for a suffix. *)
LEMMA EndIsSuffix ==
    ASSUME NEW bytes \in Seq(Byte), NEW a \in 1 .. Len(bytes), NEW b \in 1 .. Len(bytes), a <= b,
           NEW e, EndsWith(bytes, a, b, e)
    PROVE  IsSuffix(e, SubSeq(bytes, a, b))
  <1>1. PICK p \in Nat, k \in Nat : p = a - 1 /\ k = b - a + 1 /\ a = p + 1 /\ b = p + k
    <2>1. a - 1 \in Nat /\ b - a + 1 \in Nat /\ a = (a - 1) + 1 /\ b = (a - 1) + (b - a + 1)
      OBVIOUS
    <2> QED BY <2>1
  <1>2. PICK t : t = SubSeq(bytes, a, b)
    OBVIOUS
  <1>3. t \in Seq(Byte) /\ Len(t) = k /\ \A i \in 1 .. k : t[i] = bytes[p + i]
    <2>1. p + k <= Len(bytes)
      BY <1>1
    <2>2. Stretch(SubSeq(bytes, p + 1, p + k), Byte, bytes, p, k)
      BY <2>1, Cut
    <2> QED BY <1>1, <1>2, <2>2 DEF Stretch
  <1>4. PICK l \in Nat : l = Len(e) /\ l <= k
    <2>1. a + Len(e) <= b + 1 /\ Len(e) \in Nat
      BY DEF EndsWith
    <2> QED BY <1>1, <2>1
  <1>5. e \in Seq(Byte) /\ \A j \in 1 .. l : e[j] = bytes[b - l + j]
    BY <1>4 DEF EndsWith
  <1>6. PICK u, v : u = Reverse(e) /\ v = Reverse(t)
    OBVIOUS
  <1>7. /\ u \in Seq(Byte) /\ Len(u) = l /\ v \in Seq(Byte) /\ Len(v) = k
        /\ \A i \in 1 .. l : u[i] = e[l - i + 1]
        /\ \A i \in 1 .. k : v[i] = t[k - i + 1]
    <2>1. \A s \in Seq(Byte) : \A n \in Nat : n = Len(s) =>
              /\ Reverse(s) \in Seq(Byte) /\ Len(Reverse(s)) = n
              /\ \A i \in 1 .. n : Reverse(s)[i] = s[n - i + 1]
      <3> SUFFICES ASSUME NEW s \in Seq(Byte), NEW n \in Nat, n = Len(s)
                   PROVE  /\ Reverse(s) \in Seq(Byte) /\ Len(Reverse(s)) = n
                          /\ \A i \in 1 .. n : Reverse(s)[i] = s[n - i + 1]
        OBVIOUS
      <3>1. Reverse(s) = [i \in 1 .. n |-> s[(n - i) + 1]]
        BY DEF Reverse
      <3>2. \A i \in 1 .. n : s[(n - i) + 1] \in Byte
        <4> TAKE i \in 1 .. n
        <4>1. (n - i) + 1 \in 1 .. n
          OBVIOUS
        <4> QED BY <4>1
      <3>3. Reverse(s) \in [1 .. n -> Byte]
        BY <3>1, <3>2
      <3> QED BY <3>1, <3>3
    <2> QED BY <1>3, <1>4, <1>5, <1>6, <2>1
  <1>8. \A i \in 1 .. l : u[i] = v[i]
    <2> TAKE i \in 1 .. l
    <2>1. i \in 1 .. k /\ l - i + 1 \in 1 .. l /\ k - i + 1 \in 1 .. k
          /\ b - l + (l - i + 1) = p + (k - i + 1)
      BY <1>1, <1>4
    <2>2. PICK g \in 1 .. l, h \in 1 .. k : g = l - i + 1 /\ h = k - i + 1 /\ b - l + g = p + h
      BY <2>1
    <2>3. u[i] = e[g] /\ e[g] = bytes[b - l + g]
      BY <1>5, <1>7, <2>2
    <2>4. v[i] = t[h] /\ t[h] = bytes[p + h]
      BY <1>3, <1>7, <2>1, <2>2
    <2> QED BY <2>2, <2>3, <2>4
  <1>9. SubSeq(u, 1, l) = SubSeq(v, 1, l)
    <2>1. PICK z, x, y : z \in Nat /\ z = 0 /\ x = SubSeq(u, z + 1, z + l) /\ y = SubSeq(v, z + 1, z + l)
      OBVIOUS
    <2>2. z + l <= Len(u) /\ z + l <= Len(v)
      BY <1>4, <1>7, <2>1
    <2>3. Stretch(x, Byte, u, z, l) /\ Stretch(y, Byte, v, z, l)
      BY <1>7, <2>1, <2>2, Cut
    <2>4. \A i \in 1 .. l : z + i = i
      BY <2>1
    <2>5. /\ x \in Seq(Byte) /\ Len(x) = l /\ y \in Seq(Byte) /\ Len(y) = l
          /\ \A i \in 1 .. l : x[i] = y[i]
      BY <1>8, <2>3, <2>4 DEF Stretch
    <2>6. x = y
      BY ONLY <2>5, SeqEqual
    <2>7. z + 1 = 1 /\ z + l = l
      BY <2>1
    <2> QED BY <2>1, <2>6, <2>7
  <1> QED BY <1>2, <1>4, <1>6, <1>7, <1>9 DEF IsSuffix, IsPrefix

Whole == Chunks \ {<<>>}
(* Every byte of a capture is in one entry. *)
BytesOnce(bytes, entries) ==
    \A i \in 1 .. Len(bytes) : \E k \in 1 .. Len(entries) :
        /\ Covers(entries[k], i)
        /\ \A j \in (1 .. Len(entries)) \ {k} : ~Covers(entries[j], i)
(* What is shown as a frame ends with its bytes. *)
FramesEnd(bytes, entries) ==
    \A k \in 1 .. Len(entries) : entries[k].frame # Garbage =>
        IsSuffix(Encode(entries[k].frame), SubSeq(bytes, entries[k].start, entries[k].end))

(* The entries made of a capture (handle_chunks_format). *)
LEMMA CaptureIsExplained ==
    ASSUME NEW chunks \in Whole, NEW bytes, bytes = AllBytes(chunks),
           NEW entries, entries = HandleChunksFormat(chunks, bytes, DecodedFrames(bytes))
    PROVE  /\ BytesOnce(bytes, entries)
           /\ Telling(bytes) => FramesEnd(bytes, entries)
  <1>1. chunks \in Chunks /\ chunks # <<>>
    BY DEF Whole
  <1>2. bytes \in Seq(Byte) /\ Reaches(chunks, Len(bytes))
    BY <1>1, ChunksReach
  <1>3. PICK found, n : found = DecodedFrames(bytes) /\ n = Len(bytes)
    OBVIOUS
  <1>4. FoundFits(found, n) /\ (Telling(bytes) => Shown(found, bytes)) /\ n \in Nat
    BY <1>2, <1>3, DecodedFits
  <1>5. PICK S : S = Unrecognised(chunks, found, n) \cup Recognised(chunks, found)
    OBVIOUS
  <1>6. entries = Sorted(S)
    BY <1>3, <1>5, HandlesEntries
  <1>7. /\ SharedOut(S, n) /\ \A i \in 1 .. n : \E e \in S : Covers(e, i)
        /\ \A e \in S : e.frame # Garbage => e \in Recognised(chunks, found)
    <2>1. Reaches(chunks, n)
      BY <1>2, <1>3
    <2> QED BY <1>4, <1>5, <2>1, EntriesShare
  <1>8. ListsAll(entries, S)
    BY <1>6, <1>7, SortedLists
  <1>9. ASSUME NEW i \in 1 .. n
        PROVE  \E k \in 1 .. Len(entries) :
                  /\ Covers(entries[k], i)
                  /\ \A j \in (1 .. Len(entries)) \ {k} : ~Covers(entries[j], i)
    <2>1. PICK e \in S : Covers(e, i)
      BY <1>7
    <2>2. PICK k \in 1 .. Len(entries) : entries[k] = e
      BY <1>8 DEF ListsAll
    <2>3. ASSUME NEW j \in (1 .. Len(entries)) \ {k} PROVE ~Covers(entries[j], i)
      <3>1. entries[j] \in S /\ entries[j] # e
        BY <1>8, <2>2 DEF ListsAll
      <3> QED BY <1>7, <2>1, <3>1 DEF SharedOut
    <2> QED BY <2>1, <2>2, <2>3
  <1>10. ASSUME Telling(bytes), NEW k \in 1 .. Len(entries), entries[k].frame # Garbage
         PROVE  IsSuffix(Encode(entries[k].frame), SubSeq(bytes, entries[k].start, entries[k].end))
    <2>1. entries[k] \in Recognised(chunks, found)
      BY <1>7, <1>8, <1>10 DEF ListsAll
    <2>2. PICK h \in 1 .. Len(found) :
              entries[k] = Entry(chunks, found[h].start, found[h].end, found[h].frame)
      BY <2>1 DEF Recognised
    <2>3. PICK a, b, frame : a = found[h].start /\ b = found[h].end /\ frame = found[h].frame
      OBVIOUS
    <2>4. entries[k].start = a /\ entries[k].end = b /\ entries[k].frame = frame
      BY <2>2, <2>3, EntryFields
    <2>5. a \in 1 .. Len(bytes) /\ b \in 1 .. Len(bytes) /\ a <= b
      BY <1>3, <1>4, <2>3 DEF FoundFits
    <2>6. EndsWith(bytes, a, b, Encode(frame))
      BY <1>4, <1>10, <2>3 DEF Shown
    <2>7. IsSuffix(Encode(frame), SubSeq(bytes, a, b))
      BY <1>2, <2>5, <2>6, EndIsSuffix
    <2> QED BY <2>4, <2>7
  <1> QED BY <1>3, <1>9, <1>10 DEF BytesOnce, FramesEnd

(* The state of a capture.                                                 *)
IsCapture(r) ==
    r = [sniff |-> r.sniff, capture |-> r.capture, mode |-> r.mode, channel |-> r.channel,
         bytes |-> r.bytes, entries |-> r.entries, shown |-> r.shown]
SniffFits(s) == s = [active |-> s.active, chunks |-> s.chunks, hexLen |-> s.hexLen] /\ s.chunks \in Chunks
MadeOf(bytes, entries) ==
    \/ bytes = <<>> /\ entries = <<>>
    \/ \E chunks \in Whole : /\ bytes = AllBytes(chunks)
                             /\ entries = HandleChunksFormat(chunks, bytes, DecodedFrames(bytes))
CaptureFits(r) ==
    IsCapture(r) /\ SniffFits(r.sniff) /\ r.channel \in Seq(Whole) /\ MadeOf(r.bytes, r.entries)
CaptureInv == kind = "sniff" => at \in Nat /\ CaptureFits(rx)

(* What a step makes of it.                                                *)
LEMMA CaptureChanges ==
    ASSUME NEW r, CaptureFits(r)
    PROVE  /\ \A s : SniffFits(s) => CaptureFits([r EXCEPT !.sniff = s])
           /\ \A c : CaptureFits([r EXCEPT !.capture = c])
           /\ \A m : CaptureFits([r EXCEPT !.mode = m])
           /\ \A n : CaptureFits([r EXCEPT !.shown = n])
           /\ \A q \in Seq(Whole) : CaptureFits([r EXCEPT !.channel = q])
  <1>1. ASSUME NEW s, SniffFits(s) PROVE CaptureFits([r EXCEPT !.sniff = s])
    <2>1. PICK q : q = [r EXCEPT !.sniff = s]
      OBVIOUS
    <2>2. /\ q = [sniff |-> s, capture |-> r.capture, mode |-> r.mode, channel |-> r.channel,
                  bytes |-> r.bytes, entries |-> r.entries, shown |-> r.shown]
      BY <2>1 DEF CaptureFits, IsCapture
    <2> QED BY <1>1, <2>1, <2>2 DEF CaptureFits, IsCapture
  <1>2. ASSUME NEW c PROVE CaptureFits([r EXCEPT !.capture = c])
    <2>1. PICK q : q = [r EXCEPT !.capture = c]
      OBVIOUS
    <2>2. /\ q = [sniff |-> r.sniff, capture |-> c, mode |-> r.mode, channel |-> r.channel,
                  bytes |-> r.bytes, entries |-> r.entries, shown |-> r.shown]
      BY <2>1 DEF CaptureFits, IsCapture
    <2> QED BY <2>1, <2>2 DEF CaptureFits, IsCapture
  <1>3. ASSUME NEW m PROVE CaptureFits([r EXCEPT !.mode = m])
    <2>1. PICK q : q = [r EXCEPT !.mode = m]
      OBVIOUS
    <2>2. /\ q = [sniff |-> r.sniff, capture |-> r.capture, mode |-> m, channel |-> r.channel,
                  bytes |-> r.bytes, entries |-> r.entries, shown |-> r.shown]
      BY <2>1 DEF CaptureFits, IsCapture
    <2> QED BY <2>1, <2>2 DEF CaptureFits, IsCapture
  <1>4. ASSUME NEW n PROVE CaptureFits([r EXCEPT !.shown = n])
    <2>1. PICK q : q = [r EXCEPT !.shown = n]
      OBVIOUS
    <2>2. /\ q = [sniff |-> r.sniff, capture |-> r.capture, mode |-> r.mode, channel |-> r.channel,
                  bytes |-> r.bytes, entries |-> r.entries, shown |-> n]
      BY <2>1 DEF CaptureFits, IsCapture
    <2> QED BY <2>1, <2>2 DEF CaptureFits, IsCapture
  <1>5. ASSUME NEW x \in Seq(Whole) PROVE CaptureFits([r EXCEPT !.channel = x])
    <2>1. PICK q : q = [r EXCEPT !.channel = x]
      OBVIOUS
    <2>2. /\ q = [sniff |-> r.sniff, capture |-> r.capture, mode |-> r.mode, channel |-> x,
                  bytes |-> r.bytes, entries |-> r.entries, shown |-> r.shown]
      BY <2>1 DEF CaptureFits, IsCapture
    <2> QED BY <2>1, <2>2 DEF CaptureFits, IsCapture
  <1> QED BY <1>1, <1>2, <1>3, <1>4, <1>5

(* A record of a capture that is set active. *)
LEMMA Activated ==
    ASSUME NEW c, NEW off, NEW on, NEW z
    PROVE  [[active |-> off, chunks |-> c, hexLen |-> z] EXCEPT !.active = on]
           = [active |-> on, chunks |-> c, hexLen |-> z]
  OBVIOUS

(* A new capture has nothing. *)
LEMMA NewSniffFits == SniffFits(NewSniff) /\ SniffFits(StartSniff)
  <1>1. <<>> \in Chunks
    BY DEF Chunks
  <1>2. StartSniff = [active |-> TRUE, chunks |-> <<>>, hexLen |-> 0]
    <2>1. PICK c, off, on, z : c = <<>> /\ off = FALSE /\ on = TRUE /\ z = 0
      OBVIOUS
    <2>2. NewSniff = [active |-> off, chunks |-> c, hexLen |-> z]
      BY <2>1, Zenon DEF NewSniff
    <2>3. StartSniff = [[active |-> off, chunks |-> c, hexLen |-> z] EXCEPT !.active = on]
      BY <2>1, <2>2, Zenon DEF StartSniff
    <2>4. StartSniff = [active |-> on, chunks |-> c, hexLen |-> z]
      BY <2>3, Activated, Zenon
    <2> QED BY <2>1, <2>4, Zenon
  <1> QED BY <1>1, <1>2 DEF SniffFits, NewSniff

(* A chunk is recorded, and the capture ends or goes on (record_chunk,     *)
(* finish).                                                                *)
LEMMA RecordedFits ==
    ASSUME NEW r, CaptureFits(r), NEW dir \in {"R", "T"}, NEW data \in Seq(Byte), NEW late
    PROVE  CaptureFits(Recorded(r, dir, data, late))
  <1>1. PICK s : s = RecordChunk(r.sniff, dir, data)
    OBVIOUS
  <1>2. PICK chunk : chunk = [dir |-> dir, hex |-> ToHex(data)]
    OBVIOUS
  <1>3. SniffFits(s) /\ (s.active => s.chunks \in Whole)
    <2>1. CASE ~r.sniff.active
      <3>1. s = r.sniff
        BY <1>1, <2>1 DEF RecordChunk
      <3> QED BY <2>1, <3>1 DEF CaptureFits
    <2>2. CASE r.sniff.active
      <3>1. PICK t : t = r.sniff /\ SniffFits(t)
        BY DEF CaptureFits
      <3>2. s = [active |-> t.active, chunks |-> Append(t.chunks, chunk), hexLen |-> t.hexLen + 2 * Len(data)]
        BY <1>1, <1>2, <2>2, <3>1 DEF RecordChunk, SniffFits
      <3>3. chunk \in [dir : {"R", "T"}, hex : Hexes]
        BY <1>2 DEF Hexes
      <3>4. Append(t.chunks, chunk) \in Chunks /\ Append(t.chunks, chunk) # <<>>
        <4>1. t.chunks \in Seq([dir : {"R", "T"}, hex : Hexes])
          BY <3>1 DEF SniffFits, Chunks
        <4>2. Append(t.chunks, chunk) \in Seq([dir : {"R", "T"}, hex : Hexes])
          BY <3>3, <4>1
        <4>3. Len(Append(t.chunks, chunk)) = Len(t.chunks) + 1 /\ Len(t.chunks) \in Nat
          BY <4>1
        <4>4. Append(t.chunks, chunk) # <<>>
          BY <4>3
        <4> QED BY <4>2, <4>4 DEF Chunks
      <3>5. s.chunks = Append(t.chunks, chunk) /\ s.active = t.active
            /\ s = [active |-> s.active, chunks |-> s.chunks, hexLen |-> s.hexLen]
        BY <3>2
      <3> QED BY <3>4, <3>5 DEF SniffFits, Whole
    <2> QED BY <2>1, <2>2
  <1>4. PICK grown : grown = [r EXCEPT !.sniff = s]
    OBVIOUS
  <1>5. CaptureFits(grown) /\ grown.sniff = s
    <2>1. CaptureFits(grown)
      BY <1>3, <1>4, CaptureChanges
    <2>2. r = [sniff |-> r.sniff, capture |-> r.capture, mode |-> r.mode, channel |-> r.channel,
               bytes |-> r.bytes, entries |-> r.entries, shown |-> r.shown]
      BY DEF CaptureFits, IsCapture
    <2>3. grown.sniff = s
      BY <1>4, <2>2
    <2> QED BY <2>1, <2>3
  <1>6. ASSUME s.active PROVE CaptureFits(Finish(grown))
    <2>1. PICK q : q = (IF Len(grown.channel) < SniffCap THEN Append(grown.channel, grown.sniff.chunks)
                        ELSE grown.channel)
      OBVIOUS
    <2>2. q \in Seq(Whole)
      <3>1. grown.channel \in Seq(Whole) /\ grown.sniff.chunks \in Whole
        BY <1>3, <1>5, <1>6 DEF CaptureFits
      <3>2. Append(grown.channel, grown.sniff.chunks) \in Seq(Whole)
        BY <3>1
      <3> QED BY <2>1, <3>1, <3>2
    <2>3. PICK g1 : g1 = [grown EXCEPT !.sniff = NewSniff]
      OBVIOUS
    <2>4. CaptureFits(g1)
      BY <1>5, <2>3, NewSniffFits, CaptureChanges
    <2>5. PICK g2 : g2 = [g1 EXCEPT !.capture = FALSE]
      OBVIOUS
    <2>6. CaptureFits(g2)
      BY <2>4, <2>5, CaptureChanges
    <2>7. CaptureFits([g2 EXCEPT !.channel = q])
      BY <2>2, <2>6, CaptureChanges
    <2>8. Finish(grown) = [g2 EXCEPT !.channel = q]
      <3>1. Finish(grown) = [grown EXCEPT !.sniff = NewSniff, !.capture = FALSE, !.channel = q]
        BY <2>1 DEF Finish
      <3>2. grown = [sniff |-> grown.sniff, capture |-> grown.capture, mode |-> grown.mode,
                     channel |-> grown.channel, bytes |-> grown.bytes, entries |-> grown.entries,
                     shown |-> grown.shown]
        BY <1>5 DEF CaptureFits, IsCapture
      <3> QED BY <2>3, <2>5, <3>1, <3>2
    <2> QED BY <2>7, <2>8
  <1>7. Recorded(r, dir, data, late) = IF CaptureFull(s) \/ (s.active /\ late) THEN Finish(grown) ELSE grown
    BY <1>1, <1>4 DEF Recorded
  <1>8. CaptureFull(s) => s.active
    BY DEF CaptureFull
  <1> QED BY <1>5, <1>6, <1>7, <1>8

(* The answer to a query is bytes (Frame::encode).                         *)
LEMMA ResponseIsBytes == Encode(Response) \in Seq(Byte)
  <1>1. Response.type = <<254, 191>> /\ Response.payload = <<1, 2, 241, 115>>
    BY DEF Response, Frame
  <1>2. 4 + Len(Response.payload) = 8
    BY <1>1
  <1>3. PICK size, type, payload :
            size = <<8>> /\ type = <<254, 191>> /\ payload = <<1, 2, 241, 115>>
    OBVIOUS
  <1>4. size \in Seq(Byte) /\ type \in Seq(Byte) /\ payload \in Seq(Byte)
    BY <1>3 DEF Byte
  <1>5. PICK body : body = size \o type \o payload
    OBVIOUS
  <1>6. body \in Seq(Byte)
    BY <1>4, <1>5
  <1>7. PICK marker, sum : marker = <<Marker>> /\ sum = <<Crc8(body)>>
    OBVIOUS
  <1>8. marker \in Seq(Byte) /\ sum \in Seq(Byte)
    <2>1. Marker \in Byte /\ Crc8(body) \in Byte
      BY <1>6, CrcFits DEF Byte, Marker
    <2> QED BY <1>7, <2>1
  <1>9. Encode(Response) = marker \o body \o sum \o marker
    <2>1. ~(4 + Len(Response.payload) > 255)
      BY <1>2
    <2>2. Encode(Response) = <<Marker>> \o (<<4 + Len(Response.payload)>> \o Response.type \o Response.payload)
             \o <<Crc8(<<4 + Len(Response.payload)>> \o Response.type \o Response.payload)>> \o <<Marker>>
      BY <2>1, Zenon DEF Encode
    <2>3. <<4 + Len(Response.payload)>> \o Response.type \o Response.payload = body
      BY <1>1, <1>2, <1>3, <1>5
    <2> QED BY <1>7, <2>2, <2>3
  <1> QED BY <1>6, <1>8, <1>9

(* What uart_task reads is bytes of the line.                              *)
LEMMA ReadsBytes ==
    ASSUME kind = "sniff", at \in Nat, NEW n \in SniffReads, at + n <= Total
    PROVE  n \in Nat /\ Piece(n) \in Seq(Byte)
  <1>1. n \in Nat
    BY SniffAssumption
  <1>2. PICK z \in Nat, k \in Nat : z = 0 /\ k = FrameEnd[SniffFrames] /\ k <= Len(LineBytes)
    <2>1. PICK last : last = Len(SentFrames) /\ last \in Nat
      BY LinePlaces
    <2>2. SniffFrames \in 1 .. last /\ SniffFrames \in 0 .. last
      BY <2>1, SniffAssumption
    <2>3. FrameEnd[SniffFrames] \in Nat /\ FrameEnd[SniffFrames] <= FrameEnd[last]
          /\ Len(LineBytes) = FrameEnd[last]
      BY <2>1, <2>2, LinePlaces DEF IsEnds, Placed
    <2> QED BY <2>3
  <1>3. Bytes = SubSeq(LineBytes, z + 1, z + k)
    <2>1. Bytes = SubSeq(LineBytes, 1, FrameEnd[SniffFrames])
      BY DEF Bytes, Lines
    <2>2. z + 1 = 1 /\ z + k = k
      BY <1>2
    <2> QED BY <1>2, <2>1, <2>2
  <1>4. LineBytes \in Seq(Byte)
    BY LinePlaces DEF Placed
  <1>5. Bytes \in Seq(Byte)
    <2>1. z + k <= Len(LineBytes)
      BY <1>2
    <2>2. Stretch(SubSeq(LineBytes, z + 1, z + k), Byte, LineBytes, z, k)
      BY <1>4, <2>1, Cut
    <2> QED BY <1>3, <2>2 DEF Stretch
  <1>6. Stretch(SubSeq(Bytes, at + 1, at + n), Byte, Bytes, at, n)
    <2>1. at + n <= Len(Bytes)
      BY DEF Total
    <2> QED BY <1>1, <1>5, <2>1, Cut
  <1> QED BY <1>1, <1>6 DEF Stretch, Piece

(* Every step keeps a capture what it is.                                  *)
LEMMA NextKeepsCapture ==
    ASSUME CaptureInv, [Next]_vars
    PROVE  CaptureInv'
  <1>1. kind' = kind
    BY KindStays
  <1> SUFFICES ASSUME kind = "sniff" PROVE at' \in Nat /\ CaptureFits(rx')
    BY <1>1 DEF CaptureInv
  <1>2. at \in Nat /\ CaptureFits(rx)
    BY DEF CaptureInv
  <1>3. CASE UNCHANGED vars
    BY <1>2, <1>3 DEF vars
  <1>4. CASE SniffCommand
    <2>1. PICK on \in BOOLEAN : rx' = [rx EXCEPT !.capture = on, !.mode = on] /\ at' = at
      BY <1>4 DEF SniffCommand, Capture
    <2>2. PICK r : r = [rx EXCEPT !.capture = on]
      OBVIOUS
    <2>3. CaptureFits(r)
      BY <1>2, <2>2, CaptureChanges
    <2>4. CaptureFits([r EXCEPT !.mode = on])
      BY <2>3, CaptureChanges
    <2>5. rx' = [r EXCEPT !.mode = on]
      <3>1. rx = [sniff |-> rx.sniff, capture |-> rx.capture, mode |-> rx.mode, channel |-> rx.channel,
                  bytes |-> rx.bytes, entries |-> rx.entries, shown |-> rx.shown]
        BY <1>2 DEF CaptureFits, IsCapture
      <3> QED BY <2>1, <2>2, <3>1
    <2> QED BY <1>2, <2>1, <2>4, <2>5
  <1>5. CASE CheckStart
    <2>1. rx' = [rx EXCEPT !.sniff = StartSniff] /\ at' = at
      BY <1>5 DEF CheckStart, Capture
    <2> QED BY <1>2, <2>1, NewSniffFits, CaptureChanges
  <1>6. CASE UartReads
    <2>1. PICK n \in SniffReads, late \in {"no", "R", "T"} :
              /\ at + n <= Total /\ at' = at + n
              /\ \E heard \in {Recorded(rx, "R", Piece(n), late = "R")} :
                    Capture(IF QueryIn(n) /\ case = "joining"
                            THEN Recorded(heard, "T", Encode(Response), late = "T") ELSE heard)
      BY <1>6 DEF UartReads
    <2>2. n \in Nat /\ Piece(n) \in Seq(Byte)
      BY <1>2, <2>1, ReadsBytes
    <2>3. PICK heard : heard = Recorded(rx, "R", Piece(n), late = "R")
      OBVIOUS
    <2>4. rx' = Recorded(heard, "T", Encode(Response), late = "T") \/ rx' = heard
      BY <2>1, <2>3 DEF Capture
    <2>5. CaptureFits(heard)
      <3>1. PICK l : l = (late = "R")
        OBVIOUS
      <3>2. CaptureFits(Recorded(rx, "R", Piece(n), l))
        BY <1>2, <2>2, RecordedFits
      <3> QED BY <2>3, <3>1, <3>2
    <2>6. CaptureFits(Recorded(heard, "T", Encode(Response), late = "T"))
      <3>1. PICK l : l = (late = "T")
        OBVIOUS
      <3>2. CaptureFits(Recorded(heard, "T", Encode(Response), l))
        BY <2>5, ResponseIsBytes, RecordedFits
      <3> QED BY <3>1, <3>2
    <2> QED BY <1>2, <2>1, <2>2, <2>4, <2>5, <2>6
  <1>7. CASE SniffModeEnds
    <2>1. rx' = [rx EXCEPT !.mode = FALSE] /\ at' = at
      BY <1>7 DEF SniffModeEnds, Capture
    <2> QED BY <1>2, <2>1, CaptureChanges
  <1>8. CASE SniffPublished
    <2>1. PICK chunks, bytes, found :
              /\ chunks = rx.channel[1] /\ bytes = AllBytes(chunks) /\ found = DecodedFrames(bytes)
              /\ rx' = [rx EXCEPT !.channel = Tail(@), !.bytes = bytes, !.shown = 0,
                                  !.entries = HandleChunksFormat(chunks, bytes, found)]
              /\ rx.channel # <<>> /\ at' = at
      BY <1>8 DEF SniffPublished, Capture
    <2>2. chunks \in Whole /\ Tail(rx.channel) \in Seq(Whole)
      <3>1. rx.channel \in Seq(Whole) /\ rx.channel # <<>>
        BY <1>2, <2>1 DEF CaptureFits
      <3> QED BY <2>1, <3>1
    <2>3. PICK entries, left : entries = HandleChunksFormat(chunks, bytes, found) /\ left = Tail(rx.channel)
      OBVIOUS
    <2>4. rx' = [sniff |-> rx.sniff, capture |-> rx.capture, mode |-> rx.mode, channel |-> left,
                 bytes |-> bytes, entries |-> entries, shown |-> 0]
      <3>1. rx = [sniff |-> rx.sniff, capture |-> rx.capture, mode |-> rx.mode, channel |-> rx.channel,
                  bytes |-> rx.bytes, entries |-> rx.entries, shown |-> rx.shown]
        BY <1>2 DEF CaptureFits, IsCapture
      <3> QED BY <2>1, <2>3, <3>1
    <2>5. MadeOf(bytes, entries)
      BY <2>1, <2>2, <2>3 DEF MadeOf
    <2>6. SniffFits(rx.sniff)
      BY <1>2 DEF CaptureFits
    <2>7. PICK q : q = rx'
      OBVIOUS
    <2>8. CaptureFits(q)
      BY <2>2, <2>3, <2>4, <2>5, <2>6, <2>7 DEF CaptureFits, IsCapture
    <2> QED BY <1>2, <2>1, <2>7, <2>8
  <1>9. CASE HostShows
    <2>1. rx' = [rx EXCEPT !.shown = @ + 1] /\ at' = at
      BY <1>9 DEF HostShows, Capture
    <2>2. PICK n : n = rx.shown + 1
      OBVIOUS
    <2>3. rx' = [rx EXCEPT !.shown = n]
      BY <2>1, <2>2
    <2> QED BY <1>2, <2>1, <2>3, CaptureChanges
  <1>10. CASE SniffPublishFails
    <2>1. rx' = [rx EXCEPT !.channel = Tail(rx.channel)] /\ at' = at /\ rx.channel # <<>>
      BY <1>10 DEF SniffPublishFails, Capture
    <2>2. Tail(rx.channel) \in Seq(Whole)
      <3>1. rx.channel \in Seq(Whole) /\ rx.channel # <<>>
        BY <1>2, <2>1 DEF CaptureFits
      <3> QED BY <3>1
    <2> QED BY <1>2, <2>1, <2>2, CaptureChanges
  <1>11. CASE \/ LineByte \/ ByteLost \/ ByteFlipped \/ ByteAdded
    BY <1>11 DEF LineByte, ByteLost, ByteFlipped, ByteAdded, LineFaulty, Lines
  <1>12. CASE \/ ConnackReads \/ SubscribeReads \/ RecvReads \/ RecvProcesses \/ AckSent
              \/ ConnackTimesOut \/ SubscribeTimesOut \/ RecvEnds \/ AckFails \/ RecvCancelled
    BY <1>12 DEF ConnackReads, SubscribeReads, RecvReads, RecvProcesses, AckSent,
                 ConnackTimesOut, SubscribeTimesOut, RecvEnds, AckFails, RecvCancelled
  <1>13. CASE DownloadReads \/ DownloadEnds \/ DownloadCut
    BY <1>13 DEF DownloadReads, DownloadEnds, DownloadCut
  <1>14. CASE Logs \/ LogsPublished
    BY <1>14 DEF Logs, LogsPublished
  <1> QED BY <1>3, <1>4, <1>5, <1>6, <1>7, <1>8, <1>9, <1>10, <1>11, <1>12, <1>13, <1>14
          DEF Next, Step, Fault

(* A capture starts without chunks and without entries (SniffBuffer::new). *)
LEMMA CaptureStarts ==
    ASSUME Init
    PROVE  CaptureInv
  <1> SUFFICES ASSUME kind = "sniff" PROVE at \in Nat /\ CaptureFits(rx)
    BY DEF CaptureInv
  <1>1. rx = NewCapture /\ at = 0
    BY DEF Init, Lines
  <1>2. <<>> \in Seq(Whole)
    OBVIOUS
  <1>3. CaptureFits(NewCapture)
    BY <1>2, NewSniffFits DEF NewCapture, CaptureFits, IsCapture, MadeOf
  <1> QED BY <1>1, <1>3

(* The host explains every byte of a capture once, wherever the capture    *)
(* began; no bytes of the capture are taken for a frame they do not end.   *)
BytesCovered == kind = "sniff" => BytesOnce(rx.bytes, rx.entries)
ChecksumsTell == kind = "sniff" => Telling(rx.bytes)
(* What CaptureInv says of the entries the host has is CaptureExplained.   *)
LEMMA CaptureTells ==
    ASSUME CaptureInv
    PROVE  BytesCovered /\ (ChecksumsTell => CaptureExplained)
  <1> SUFFICES ASSUME kind = "sniff"
               PROVE  /\ BytesOnce(rx.bytes, rx.entries)
                      /\ Telling(rx.bytes) => CaptureExplained
    BY DEF BytesCovered, ChecksumsTell, CaptureExplained
  <1>1. MadeOf(rx.bytes, rx.entries)
    BY DEF CaptureInv, CaptureFits
  <1>2. PICK bytes, entries : bytes = rx.bytes /\ entries = rx.entries
    OBVIOUS
  <1>3. BytesOnce(bytes, entries) /\ (Telling(bytes) => FramesEnd(bytes, entries))
    <2>1. CASE bytes = <<>> /\ entries = <<>>
      <3>1. Len(bytes) = 0 /\ Len(entries) = 0
        BY <2>1
      <3> QED BY <3>1 DEF BytesOnce, FramesEnd
    <2>2. CASE \E chunks \in Whole : /\ bytes = AllBytes(chunks)
                                     /\ entries = HandleChunksFormat(chunks, bytes, DecodedFrames(bytes))
      BY <2>2, CaptureIsExplained
    <2> QED BY <1>1, <1>2, <2>1, <2>2 DEF MadeOf
  <1>4. BytesOnce(bytes, entries) /\ FramesEnd(bytes, entries) => CaptureExplained
    BY <1>2 DEF BytesOnce, FramesEnd, Covers, CaptureExplained
  <1> QED BY <1>2, <1>3, <1>4

(* handle_chunks_format leaves no byte of a capture out and shows none     *)
(* twice: for every line, wherever the capture is started, however the     *)
(* reads cut the line and whenever the answer is written, every byte of    *)
(* what was published is in one entry, of a frame or of bytes no frame was *)
(* recognised in.                                                          *)
THEOREM CapturesAreCovered == Spec => []BytesCovered
  <1>1. Init => CaptureInv
    BY CaptureStarts
  <1>2. CaptureInv /\ [Next]_vars => CaptureInv'
    BY NextKeepsCapture
  <1>3. CaptureInv => BytesCovered
    BY CaptureTells
  <1> QED BY <1>1, <1>2, <1>3, PTL DEF Spec

Tellable == (kind \in Lines => ComesClean) /\ ChecksumsTell
(* InStep of the run. The decoders find the frames behind a fault, and the *)
(* host explains each captured byte once and shows as a frame only bytes   *)
(* that end with that frame, when no marker stands before bytes whose      *)
(* checksum of eight bits fits though no frame ends there (Tellable):      *)
(* FrameDecoder cannot know those from a frame.                            *)
THEOREM FramesAreFound == LengthsTold => (Spec => [](Tellable => InStep))
  <1> SUFFICES ASSUME LengthsTold PROVE Spec => [](Tellable => InStep)
    OBVIOUS
  <1>1. Init => WayInv /\ CaptureInv
    BY WayStarts, CaptureStarts
  <1>2. WayInv /\ CaptureInv /\ [Next]_vars => WayInv' /\ CaptureInv'
    BY NextKeepsWay, NextKeepsCapture
  <1>3. WayInv /\ CaptureInv => (Tellable => InStep)
    <2> SUFFICES ASSUME WayInv, CaptureInv, Tellable PROVE InStep
      OBVIOUS
    <2>1. CaptureExplained
      BY CaptureTells DEF Tellable
    <2>2. Resync
      <3>1. CASE kind \in Lines
        BY <3>1, WayLeads DEF Tellable
      <3>2. CASE kind \notin Lines
        BY <3>2 DEF Resync
      <3> QED BY <3>1, <3>2
    <2> QED BY <2>1, <2>2 DEF InStep
  <1> QED BY <1>1, <1>2, <1>3, PTL DEF Spec
=============================================================================
