---------------------------- MODULE Diagnostics -----------------------------
(***************************************************************************)
(* What the device tells about itself: the ring of log messages that       *)
(* mqtt_task publishes, and the burst captures of the RS-485 line, hex in  *)
(* chunks, that a tool on the host decodes.                                *)
(***************************************************************************)
EXTENDS FrameCodec, FiniteSets

CONSTANTS
    LogSize,     \* REMOTE_LOG_BUF_SIZE
    MaxHexLen    \* SNIFF_MAX_TOTAL_HEX_LEN

(* RemoteLogBuffer. *)
NewLog == [entries |-> <<>>, head |-> 0]
PushKeepsHead(ring, entry) ==
    IF Len(ring.entries) < LogSize
    THEN [entries |-> Append(ring.entries, entry), head |-> (Len(ring.entries) + 1) % LogSize]
    ELSE [ring EXCEPT !.entries[ring.head + 1] = entry]
Push(ring, entry) ==
    IF Len(ring.entries) < LogSize
    THEN [entries |-> Append(ring.entries, entry), head |-> (Len(ring.entries) + 1) % LogSize]
    ELSE [entries |-> [ring.entries EXCEPT ![ring.head + 1] = entry],
          head |-> (ring.head + 1) % LogSize]
Drain(ring) == LET len == Len(ring.entries)
               IN  [i \in 1 .. len |-> ring.entries[((ring.head + i - 1) % len) + 1]]

-----------------------------------------------------------------------------
(* A hex string is the sequence of its digits. *)
ToHex(bytes) == FlattenSeq([i \in 1 .. Len(bytes) |-> <<bytes[i] \div 16, bytes[i] % 16>>])
HexToBytes(hex) ==
    LET even == IF Len(hex) % 2 = 0 THEN hex ELSE <<0>> \o hex
    IN  [i \in 1 .. Len(even) \div 2 |-> 16 * even[2 * i - 1] + even[2 * i]]

(* SniffState.  Chunks are recorded one after the other: the place of a    *)
(* chunk stands for its timestamp.                                         *)
NewSniff == [active |-> FALSE, chunks |-> <<>>, hexLen |-> 0]
StartSniff == [NewSniff EXCEPT !.active = TRUE]
RecordChunk(s, dir, data) ==
    IF ~s.active THEN s
    ELSE [s EXCEPT !.chunks = Append(@, [dir |-> dir, hex |-> ToHex(data)]),
                   !.hexLen = @ + 2 * Len(data)]
CaptureFull(s) == s.active /\ s.hexLen >= MaxHexLen

-----------------------------------------------------------------------------
(* handle_chunks_format.  OffsetFrameDecoder remembers the first marker    *)
(* since the last frame; a frame the decoder gave up does not clear it.    *)
NewOffset == [dec |-> NewDecoder, inFrame |-> FALSE, start |-> 0, found |-> <<>>]
OffsetKeepsStart(o, byte, offset) ==
    LET starts == byte = Marker /\ o.start = 0
        start == IF starts THEN offset ELSE o.start
        fed == Feed(o.dec, byte)
    IN  [dec |-> fed.dec, inFrame |-> TRUE, start |-> start,
         found |-> o.found \o [i \in 1 .. Len(fed.frames) |->
                       [start |-> start, end |-> offset, frame |-> fed.frames[i]]]]
OffsetFeed(o, byte, offset) ==
    LET starts == byte = Marker /\ ~o.inFrame
        start == IF starts THEN offset ELSE o.start
        fed == Feed(o.dec, byte)
    IN  [dec |-> fed.dec, inFrame |-> fed.frames = <<>> /\ (starts \/ o.inFrame),
         start |-> start,
         found |-> o.found \o [i \in 1 .. Len(fed.frames) |->
                       [start |-> start, end |-> offset, frame |-> fed.frames[i]]]]
AllBytes(chunks) == FlattenSeq([i \in 1 .. Len(chunks) |-> HexToBytes(chunks[i].hex)])
DecodedFrames(bytes) ==
    LET After[i \in 0 .. Len(bytes)] ==
            IF i = 0 THEN NewOffset
            ELSE CHOOSE r \in {OffsetFeed(o, bytes[i], i) : o \in {After[i - 1]}} : TRUE
    IN  After[Len(bytes)].found

(* The longest stretches of bytes that no frame covers. *)
GarbageRanges(found, size) ==
    CHOOSE ranges \in
        {{r \in free \X free : /\ r[1] <= r[2] /\ (r[1] .. r[2]) \subseteq free
                             /\ r[1] - 1 \notin free /\ r[2] + 1 \notin free} :
            free \in {(1 .. size) \ UNION {found[k].start .. found[k].end : k \in 1 .. Len(found)}}} : TRUE
FindChunkForOffset(chunks, offset) ==
    LET End[k \in 0 .. Len(chunks)] ==
            IF k = 0 THEN 0 ELSE End[k - 1] + Len(chunks[k].hex) \div 2
    IN  CHOOSE k \in 1 .. Len(chunks) : End[k - 1] < offset /\ offset <= End[k]

Garbage == FrameError
Entry(chunks, start, end, frame) ==
    [ts |-> FindChunkForOffset(chunks, start), start |-> start, end |-> end, frame |-> frame]
(* By the time of their chunk; of one chunk the garbage first. *)
EntryBefore(e, f) ==
    \/ e.ts < f.ts
    \/ e.ts = f.ts /\ e.frame = Garbage /\ f.frame # Garbage
    \/ e.ts = f.ts /\ (e.frame = Garbage <=> f.frame = Garbage) /\ e.end < f.end
Sorted(entries) ==
    [k \in 1 .. Cardinality(entries) |->
        CHOOSE e \in entries : Cardinality({f \in entries : EntryBefore(f, e)}) = k - 1]
HandleChunksFormat(chunks, bytes, found) ==
    Sorted({Entry(chunks, r[1], r[2], Garbage) : r \in GarbageRanges(found, Len(bytes))}
             \cup {Entry(chunks, found[k].start, found[k].end, found[k].frame) : k \in 1 .. Len(found)})
=============================================================================
