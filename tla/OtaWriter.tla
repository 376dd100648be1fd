----------------------------- MODULE OtaWriter ------------------------------
(***************************************************************************)
(* The download of an image: the header of the HTTP response, the writer   *)
(* that turns chunks of any size into whole words of flash, and the order  *)
(* of checks of perform_ota_update.                                        *)
(*                                                                         *)
(* A header is the status, the content length (NoLength when it has none)  *)
(* and the empty line, each taken as far as the checks read it; the CRC of *)
(* a sequence of bytes is the sequence.                                    *)
(***************************************************************************)
EXTENDS Integers, Sequences

CONSTANTS WordSize, PartitionSize, MaxHeader
ASSUME WriterAssumption ==
    WordSize \in Nat \ {0} /\ PartitionSize \in Nat /\ PartitionSize % WordSize = 0
      /\ MaxHeader \in Nat

Magic == 233
Pad == 255
NoLength == 0
EmptyLine == <<13, 10, 13, 10>>
Header(status, length) == <<status, length>> \o EmptyLine

(* find_header_end: where the body starts, or 0. *)
BodyStart(data) ==
    LET Ends == {i \in 1 .. Len(data) - 3 : SubSeq(data, i, i + 3) = EmptyLine}
    IN  IF Ends = {} THEN 0 ELSE (CHOOSE i \in Ends : \A j \in Ends : i <= j) + 4
StatusOk(header) == header[1] = 200
LengthFits(header) == header[2] = NoLength \/ header[2] <= PartitionSize

-----------------------------------------------------------------------------
(* EspOtaFlash.  flash is what the target partition holds from its start,  *)
(* padding included.                                                       *)
NewWriter == [flash |-> <<>>, pending |-> <<>>, written |-> 0, crc |-> <<>>, begun |-> FALSE]
(* begin: the erased partition. *)
BeginWriter == [NewWriter EXCEPT !.begun = TRUE]

WholeWords(data) == Len(data) - (Len(data) % WordSize)
WriteDropsPending(w, chunk) ==
    LET cut == WholeWords(chunk)
    IN  [w EXCEPT !.flash = @ \o SubSeq(chunk, 1, cut), !.written = @ + Len(chunk),
                  !.crc = @ \o chunk, !.pending = SubSeq(chunk, cut + 1, Len(chunk))]
(* write: the pending bytes go before the chunk, whole words to flash. *)
Write(w, chunk) ==
    LET data == w.pending \o chunk
        cut == WholeWords(data)
    IN  [w EXCEPT !.flash = @ \o SubSeq(data, 1, cut), !.written = @ + Len(chunk),
                  !.crc = @ \o chunk, !.pending = SubSeq(data, cut + 1, Len(data))]
(* Its checks: the magic of the first byte, and room for the chunk. *)
WriteAccepted(w, chunk) ==
    /\ w.written = 0 => chunk[1] = Magic
    /\ Len(w.flash) + Len(chunk) <= PartitionSize

Padded(data) ==
    data \o [i \in 1 .. (WordSize - (Len(data) % WordSize)) % WordSize |-> Pad]
FlushForgets(w) == [w EXCEPT !.pending = <<>>, !.begun = FALSE]
(* finalize: the last partial word is padded. *)
Flush(w) == [w EXCEPT !.flash = @ \o Padded(w.pending), !.pending = <<>>, !.begun = FALSE]
FinalizeAccepted(w) == w.written > 0
=============================================================================
