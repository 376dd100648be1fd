------------------------------- MODULE OtaBoot -------------------------------
(***************************************************************************)
(* A firmware update from the request to the reboot: perform_ota_update    *)
(* and handle_ota_request of the app, EspOtaFlash of launa-esp-ota, the    *)
(* boot loader, and the power loss that can come between any two flash     *)
(* operations.                                                             *)
(*                                                                         *)
(* The image in a partition is one of Images or NoImage, which is all that *)
(* is not a complete image: erased, being written, or truncated.  How the  *)
(* bytes get there is OtaWriter's subject.                                 *)
(***************************************************************************)
EXTENDS OtaData

CONSTANTS
    GoodImages,     \* complete images that reach the MQTT broker
    BadImages,      \* complete images that crash before they do
    NoImage,        \* the content of a partition without complete image
    NoCrc,          \* a URL without a crc parameter
    MaxUpdates,     \* bound on OTA requests
    MaxFaults       \* bound on power losses, flash errors, corrupt sectors

Images == GoodImages \cup BadImages

ASSUME ImageAssumption ==
    /\ GoodImages \cap BadImages = {}
    /\ NoImage \notin Images
    /\ NoCrc \notin Images \cup {NoImage}
    /\ GoodImages # {}
ASSUME BoundAssumption == MaxUpdates \in Nat /\ MaxFaults \in Nat

VARIABLES
    slots,      \* the two otadata entries
    part,       \* the image in each OTA partition
    booted,     \* the partition the boot loader started
    running,    \* EspOtaFlash.running, as detected at boot
    pc,         \* where the firmware is
    todo,       \* flash operations set_boot_partition has still to do
    url,        \* the image behind the requested URL and the image its crc names
    received,   \* what firmware_crc and bytes_written cover
    updates,    \* requests so far
    faults,     \* faults so far
    refused,    \* partitions whose image verify_hash refused, in a firmware that
                \* knew which partition it ran from
    everValid   \* otadata was valid at some boot

history == <<refused, everValid>>
vars == <<slots, part, booted, running, pc, todo, url, received, updates, faults, history>>

Locations == {"reset", "booting", "validating", "idle", "download", "verify",
              "finalizing", "rollback"}
NoUrl == [image |-> NoImage, crc |-> NoCrc]
Urls == [image : Images, crc : Images \cup {NoCrc}]

(* EspOtaFlash::new *)
Target == Other(running)
Bootable == {Factory} \cup {p \in Partitions : part[p] \in Images}

Init ==
    /\ slots = [i \in Slots |-> 0]
    /\ part = [p \in Partitions |-> NoImage]
    /\ booted = Factory
    /\ running = Ota0
    /\ pc = "reset"
    /\ todo = <<>>
    /\ url = NoUrl
    /\ received = NoImage
    /\ updates = 0
    /\ faults = 0
    /\ refused = {}
    /\ everValid = FALSE

-----------------------------------------------------------------------------
(* Power on or reset: the boot loader starts a partition and the firmware  *)
(* finds out from otadata which one it is (create_ota).                    *)
Boot ==
    /\ pc = "reset"
    /\ booted' = Boots(slots, Bootable)
    /\ running' = DetectRunning(slots)
    /\ pc' = "booting"
    /\ url' = NoUrl
    /\ received' = NoImage
    /\ everValid' = (everValid \/ ~NoneValid(slots))
    /\ UNCHANGED <<slots, part, todo, updates, faults, refused>>

Crashes == booted # Factory /\ part[booted] \notin GoodImages

(* A bad image panics before MQTT is connected, and the chip resets. *)
Crash ==
    /\ pc = "booting"
    /\ Crashes
    /\ pc' = "reset"
    /\ UNCHANGED <<slots, part, booted, running, todo, url, received, updates, faults,
                   history>>

(* MQTT is connected.  The boot validation runs if needs_validation asks   *)
(* for it and marks the firmware valid.                                    *)
Connect ==
    /\ pc = "booting"
    /\ ~Crashes
    /\ pc' = IF NeedsValidation(slots, running) THEN "validating" ELSE "idle"
    /\ todo' = IF NeedsValidation(slots, running)
               THEN MarkValidOps(slots, running) ELSE <<>>
    /\ UNCHANGED <<slots, part, booted, running, url, received, updates, faults, history>>

-----------------------------------------------------------------------------
RollBackToTarget ==
    /\ pc' = "rollback"
    /\ todo' = SetBootOps(slots, Target)
(* ota_rollback and the end of handle_ota_request: otadata is pointed at   *)
(* the running partition, then the chip is reset.                          *)
RollBack ==
    /\ pc' = "rollback"
    /\ todo' = SetBootOps(slots, running)

(* A request that fails before begin: the URL, the host, the connection,   *)
(* the HTTP status.  handle_ota_request rolls back and resets.             *)
RequestFails ==
    /\ pc = "idle"
    /\ updates < MaxUpdates
    /\ updates' = updates + 1
    /\ RollBack
    /\ UNCHANGED <<slots, part, booted, running, url, received, faults, history>>

(* begin: the target partition is erased. *)

Begin(u) ==
    /\ pc = "idle"
    /\ updates < MaxUpdates
    /\ updates' = updates + 1
    /\ part' = [part EXCEPT ![Target] = NoImage]
    /\ refused' = refused \ {Target}
    /\ url' = u
    /\ pc' = "download"
    /\ UNCHANGED <<slots, booted, running, todo, received, faults, everValid>>

(* The partition the firmware executes from is gone. *)
ErasedUnderfoot ==
    /\ pc = "download"
    /\ booted = Target
    /\ pc' = "reset"
    /\ UNCHANGED <<slots, part, booted, running, todo, url, received, updates, faults,
                   history>>

(* The body has been read to its end and written. *)
DownloadCompletes ==
    /\ pc = "download"
    /\ part' = [part EXCEPT ![Target] = url.image]
    /\ received' = url.image
    /\ pc' = "verify"
    /\ UNCHANGED <<slots, booted, running, todo, url, updates, faults, history>>

(* The connection was closed early: for the code this is the end too. *)
DownloadTruncated ==
    /\ pc = "download"
    /\ pc' = "verify"
    /\ UNCHANGED <<slots, part, booted, running, todo, url, received, updates, faults,
                   history>>

(* A read error, a refused header, an image too large, a flash error.  The *)
(* error may come before or after the last byte of the image.              *)
DownloadFails ==
    /\ pc = "download"
    /\ RollBack
    /\ \E content \in {NoImage, url.image} : part' = [part EXCEPT ![Target] = content]
    /\ UNCHANGED <<slots, booted, running, url, received, updates, faults, history>>

(* verify_hash, if the URL names a CRC, then finalize.  CRC-32 is taken to *)
(* tell any two images apart.                                              *)
HashMatches == url.crc = NoCrc \/ received = url.crc

Refuse ==
    /\ pc = "verify"
    /\ ~HashMatches
    /\ RollBack
    /\ refused' = IF booted = running THEN refused \cup {Target} ELSE refused
    /\ UNCHANGED <<slots, part, booted, running, url, received, updates, faults, everValid>>

Finalize ==
    /\ pc = "verify"
    /\ HashMatches
    /\ pc' = "finalizing"
    /\ todo' = SetBootOps(slots, Target)
    /\ UNCHANGED <<slots, part, booted, running, url, received, updates, faults, history>>

(* finalize gives up before set_boot_partition: not a single byte was      *)
(* received, or the last partial word could not be written.                *)
FinalizeFails ==
    /\ pc = "verify"
    /\ HashMatches
    /\ RollBack
    /\ part' = [part EXCEPT ![Target] = NoImage]
    /\ UNCHANGED <<slots, booted, running, url, received, updates, faults, history>>

-----------------------------------------------------------------------------
(* One flash operation of set_boot_partition. *)
FlashStep ==
    /\ todo # <<>>
    /\ slots' = [slots EXCEPT ![Head(todo).slot] = Head(todo).seq]
    /\ todo' = Tail(todo)
    /\ UNCHANGED <<part, booted, running, pc, url, received, updates, faults, history>>

(* set_boot_partition is done: after mark_valid the main loop starts, after*)
(* finalize and rollback the chip is reset.                                *)
NoResetAfterRollBack(loc) ==
    CASE loc = "validating" -> "idle" [] loc = "finalizing" -> "reset" [] OTHER -> loc
AfterSetBoot(loc) == IF loc = "validating" THEN "idle" ELSE "reset"

FlashDone ==
    /\ todo = <<>>
    /\ pc \in {"validating", "finalizing", "rollback"}
    /\ pc' = AfterSetBoot(pc)
    /\ UNCHANGED <<slots, part, booted, running, todo, url, received, updates, faults,
                   history>>

-----------------------------------------------------------------------------
(* Faults. *)
Fault == faults < MaxFaults /\ faults' = faults + 1

PowerLoss ==
    /\ Fault
    /\ pc # "reset"
    /\ pc' = "reset"
    /\ todo' = <<>>
    /\ UNCHANGED <<slots, part, booted, running, url, received, updates, history>>

(* A flash operation fails and set_boot_partition gives up.  finalize then *)
(* rolls back, rollback resets, mark_valid is only logged.                 *)
FlashError ==
    /\ Fault
    /\ todo # <<>>
    /\ IF pc = "finalizing"
       THEN RollBack
       ELSE /\ todo' = <<>>
            /\ pc' = IF pc = "rollback" THEN "reset" ELSE "idle"
    /\ UNCHANGED <<slots, part, booted, running, url, received, updates, history>>

(* One of the two sectors of otadata loses its content, at any time but    *)
(* during an update.                                                       *)
SectorLost(i) ==
    /\ Fault
    /\ pc \in {"reset", "booting", "idle"}
    /\ slots[i] # 0 /\ slots[Other(i)] # 0
    /\ slots' = [slots EXCEPT ![i] = 0]
    /\ UNCHANGED <<part, booted, running, pc, todo, url, received, updates, history>>

Progress ==
    \/ Boot
    \/ Crash
    \/ Connect
    \/ ErasedUnderfoot
    \/ DownloadCompletes
    \/ DownloadTruncated
    \/ DownloadFails
    \/ Refuse
    \/ Finalize
    \/ FinalizeFails
    \/ FlashStep
    \/ FlashDone

Next ==
    \/ Progress
    \/ RequestFails
    \/ \E u \in Urls : Begin(u)
    \/ PowerLoss
    \/ FlashError
    \/ \E i \in Slots : SectorLost(i)

Spec == Init /\ [][Next]_vars

-----------------------------------------------------------------------------
TypeOK ==
    /\ slots \in [Slots -> Nat]
    /\ part \in [Partitions -> Images \cup {NoImage}]
    /\ booted \in Partitions \cup {Factory}
    /\ running \in Partitions
    /\ pc \in Locations
    /\ todo \in Seq([slot : Slots, seq : Nat])
    /\ url \in Urls \cup {NoUrl}
    /\ received \in Images \cup {NoImage}
    /\ updates \in 0 .. MaxUpdates
    /\ faults \in 0 .. MaxFaults
    /\ refused \subseteq Partitions
    /\ everValid \in BOOLEAN

(* A valid entry stands for the partition whose slot it is in, whatever    *)
(* sequence of updates, roll backs and faults has written it: what         *)
(* needs_validation and mark_valid rely on (set_boot_partition).           *)
SlotsStandForPartitions ==
    \A i \in Slots : slots[i] = 0 \/ PartitionOf(slots[i]) = i

(* The entry the firmware was booted by is still there. *)
BootEntryIntact == slots[running] # 0 \/ (NoneValid(slots) /\ booted = Factory)

(* When finalize is done the new image is what the boot loader selects,    *)
(* on the first update from the factory image too, where the other slot is *)
(* seeded after the target's (finalize, set_boot_partition).               *)
UpdateTakesEffect ==
    pc = "finalizing" /\ todo = <<>> => Selected(slots) = Target

(* An update is one switch: no flash operation of finalize makes the boot  *)
(* loader select anything but what it selected before or the new image, so *)
(* that a power loss between two of them is harmless.  The exception is an *)
(* update after the running partition's entry was lost, which erases the   *)
(* only entry that is left (set_boot_partition).                           *)
UpdateSwitchesOnce ==
    [][pc = "finalizing" => \/ Selected(slots') \in {Selected(slots), Target}
                            \/ slots[running] = 0 /\ NoneValid(slots')]_vars

(* One fault never costs the device both entries: once it has booted with  *)
(* valid otadata it needs a second fault to fall back to the factory image *)
(* (set_boot_partition seeds the other slot).                              *)
OneFaultKeepsOtadata ==
    pc = "reset" /\ everValid /\ faults <= 1 => ~NoneValid(slots)

(* A power loss during the download leaves the running firmware booting,   *)
(* or the image that has just been completed (perform_ota_update).         *)
DownloadIsHarmless ==
    pc \in {"download", "verify"} /\ booted # Target /\ BootEntryIntact
        => Boots(slots, Bootable) \in {booted, Target}

(* Whatever happens to an update, the device comes back to its main loop,  *)
(* or it has booted an image that crashes (handle_ota_request, ota_rollback*)
(* and finalize all end in a reset).                                       *)
ComesBack == []<>(pc = "idle" \/ (pc = "booting" /\ Crashes))

(* An image that verify_hash has refused is not booted, whatever requests  *)
(* follow, as long as the hardware does not fail: the roll back leaves the *)
(* running partition selected (ota_rollback, set_boot_partition).  Not so  *)
(* on a factory boot, or after the boot loader has fallen back to another  *)
(* partition than otadata names: create_ota then names the wrong partition.*)
RefusedNeverBoots == faults = 0 => booted \notin refused

(* The otadata entries are sound in every state an update, a roll back or  *)
(* a fault leaves behind: typed, each in its own slot, and a finished      *)
(* update takes effect (set_boot_partition).                               *)
OtadataSound == TypeOK /\ SlotsStandForPartitions /\ UpdateTakesEffect

(* Faults are survived: one never costs both entries, and a power loss     *)
(* during a download leaves a firmware booting (perform_ota_update).       *)
FaultsSurvived == OneFaultKeepsOtadata /\ DownloadIsHarmless
=============================================================================
