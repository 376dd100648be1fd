------------------------------- MODULE OtaData -------------------------------
(***************************************************************************)
(* The otadata partition of launa-esp-ota (flash.rs): two slots, each with *)
(* a sequence number, that tell the boot loader which OTA partition to     *)
(* start.                                                                  *)
(*                                                                         *)
(* slots[i] is what seq_from_entry gives for a valid entry and 0 for an    *)
(* entry that is erased or fails its CRC, as read_otadata_sequences reads  *)
(* it.  Sequence numbers are u32 in the code and grow by one or two per    *)
(* update; they are Nat here.                                              *)
(***************************************************************************)
EXTENDS Integers, Sequences

Slots == {0, 1}
Ota0 == 0
Ota1 == 1
Partitions == {Ota0, Ota1}

(* The index ESP-IDF gives to the factory partition. *)
Factory == -1

(* The partition a sequence number stands for: (ota_seq - 1) % 2. *)
PartitionOf(seq) == (seq - 1) % 2

Other(p) == 1 - p
MaxSeq(slots) == IF slots[1] > slots[0] THEN slots[1] ELSE slots[0]
NoneValid(slots) == slots[0] = 0 /\ slots[1] = 0

(* detect_running_partition: Ota0 when there is no valid entry. *)
DetectRunning(slots) ==
    IF MaxSeq(slots) = 0 THEN Ota0 ELSE PartitionOf(MaxSeq(slots))

(* The smallest sequence number above max that stands for p. *)
NextSeq(slots, p) ==
    CASE MaxSeq(slots) = 0 -> p + 1
      [] MaxSeq(slots) # 0 /\ PartitionOf(MaxSeq(slots) + 1) = p -> MaxSeq(slots) + 1
      [] MaxSeq(slots) # 0 /\ PartitionOf(MaxSeq(slots) + 1) # p -> MaxSeq(slots) + 2

(* The number the other slot is seeded with when it holds no valid entry.  *)
(* The number below NextSeq stands for the other partition; on the very    *)
(* first write it is that partition's own starting number instead.         *)
SeedAbove(slots, p) == NextSeq(slots, p) + 1
SeedSeq(slots, p) ==
    IF MaxSeq(slots) = 0 THEN Other(p) + 1 ELSE NextSeq(slots, p) - 1

-----------------------------------------------------------------------------
(* set_boot_partition as the flash operations it performs one by one, on   *)
(* the slots as they are when it is called.  write_otadata_slot is an      *)
(* erase followed by a write; seq 0 stands for the erase.                  *)
FlashOp(slot, seq) == [slot |-> slot, seq |-> seq]

SetBootOpsNoSeed(slots, p) == <<FlashOp(p, 0), FlashOp(p, NextSeq(slots, p))>>
SetBootOpsSeedFirst(slots, p) ==
    IF slots[Other(p)] # 0
    THEN <<FlashOp(p, 0), FlashOp(p, NextSeq(slots, p))>>
    ELSE <<FlashOp(Other(p), 0), FlashOp(Other(p), SeedSeq(slots, p)),
           FlashOp(p, 0), FlashOp(p, NextSeq(slots, p))>>
SetBootOps(slots, p) ==
    IF slots[Other(p)] # 0
    THEN <<FlashOp(p, 0), FlashOp(p, NextSeq(slots, p))>>
    ELSE <<FlashOp(p, 0), FlashOp(p, NextSeq(slots, p)),
           FlashOp(Other(p), 0), FlashOp(Other(p), SeedSeq(slots, p))>>

-----------------------------------------------------------------------------
(* The entry of the running partition is valid and stands for it. *)
RunningEntryCorrect(slots, running) ==
    slots[running] # 0 /\ PartitionOf(slots[running]) = running

(* needs_validation *)
NeedsValidation(slots, running) ==
    ~NoneValid(slots) /\ ~RunningEntryCorrect(slots, running)

(* mark_valid: nothing after a factory boot, nothing when both entries are *)
(* in order, otherwise both are written again.                             *)
MarkValidOps(slots, running) ==
    IF NoneValid(slots) \/ (RunningEntryCorrect(slots, running) /\ slots[Other(running)] # 0)
    THEN <<>> ELSE SetBootOps(slots, running)

-----------------------------------------------------------------------------
(* The ESP-IDF boot loader (external).  It starts from the partition of    *)
(* the valid entry with the highest number, or from the factory partition  *)
(* when no entry is valid, and goes down to the factory partition until it *)
(* finds an image that passes its own check.  ota_state is 0xFFFFFFFF in   *)
(* every entry set_boot_partition writes, so its rollback never acts.      *)
Selected(slots) == IF NoneValid(slots) THEN Factory ELSE PartitionOf(MaxSeq(slots))

Boots(slots, bootable) ==
    CASE Selected(slots) \in bootable -> Selected(slots)
      [] Selected(slots) \notin bootable /\ Selected(slots) = Ota1 /\ Ota0 \in bootable -> Ota0
      [] OTHER -> Factory
=============================================================================
