------------------------------ MODULE OtaFlash ------------------------------
(***************************************************************************)
(* `xtask ota-flash` and the device it updates: the host serves the new    *)
(* image, publishes the command, publishes it again while no download      *)
(* starts, and then waits for the device to come back and to tell its      *)
(* version.  The device is OtaBoot.                                        *)
(*                                                                         *)
(* A command takes any time to reach the broker.  The device connects with *)
(* a clean session: what arrives while it is away, or while mqtt_task      *)
(* idles because of an earlier command, is lost.                           *)
(***************************************************************************)
EXTENDS OtaBoot, Sequences

CONSTANTS
    NewImage,       \* the image of the host, and its version
    MaxAttempts,    \* MAX_TRIGGER_ATTEMPTS
    MaxNotices      \* publishes on their way to the host

ASSUME FlashAssumption == NewImage \in GoodImages /\ MaxAttempts \in Nat \ {0}

VARIABLES
    host,       \* the flasher: its phase, attempts, came_online
    commands,   \* OTA commands on their way
    sent,       \* OtaProgress.bytes_sent: nothing, something, everything
    notices,    \* what the device published and the host has not read
    spoiled     \* a request failed or its download was cut short (history)
hostVars == <<host, commands, sent, notices, spoiled>>
flashVars == <<vars, hostVars>>

Online == "online"
NewHost(phase) == [phase |-> phase, attempts |-> 1, online |-> FALSE]
Over == {"verified", "unverified", "failed"}
Serving == host.phase \in {"trigger", "reboot"}

(* Without the flasher (off) updates come from elsewhere, as in OtaBoot. *)
FlashInit ==
    /\ Init
    /\ host \in {NewHost("off"), NewHost("trigger")}
    /\ commands = IF host.phase = "off" THEN 0 ELSE 1
    /\ sent = "nothing"
    /\ notices = <<>>
    /\ spoiled = FALSE

-----------------------------------------------------------------------------
(* The device. *)
Version == IF booted # Factory /\ part[booted] = NewImage THEN "new" ELSE "old"
(* A publish reaches the host or is lost on one of the two connections. *)
Publishes(notice) ==
    \/ UNCHANGED notices
    \/ Len(notices) < MaxNotices /\ notices' = Append(notices, notice)

(* mqtt_task hands the command to the main loop: the download begins, or   *)
(* the request fails, before or after the server wrote a first chunk.      *)
CommandArrives ==
    /\ commands > 0 /\ commands' = commands - 1
    /\ \/ Serving /\ Begin([image |-> NewImage, crc |-> NoCrc]) /\ sent' \in {sent, "something"}
       \/ RequestFails /\ (IF Serving THEN sent' \in {sent, "something"} ELSE sent' = sent)
    /\ spoiled' = (spoiled \/ pc' = "rollback")
    /\ UNCHANGED <<host, notices>>
CommandLost ==
    /\ commands > 0 /\ pc # "idle"
    /\ commands' = commands - 1 /\ UNCHANGED <<vars, host, sent, notices, spoiled>>
(* state and diagnostics hold the version; mqtt_task connects again at any *)
(* time.                                                                   *)
DevicePublishes ==
    /\ pc \in {"validating", "idle"} /\ Serving
    /\ Len(notices) < MaxNotices
    /\ \E notice \in {Online, Version} : notices' = Append(notices, notice)
    /\ UNCHANGED <<vars, host, commands, sent, spoiled>>

(* A step of OtaBoot, and what the host may see of it. *)
DeviceSteps ==
    /\ Progress
    /\ UNCHANGED <<host, commands>>
    /\ spoiled' = \/ spoiled
                  \/ pc' = "rollback"
                  \/ pc = "download" /\ pc' = "verify" /\ received' = NoImage
    /\ IF ~Serving THEN UNCHANGED <<sent, notices>>
       ELSE /\ IF pc = "booting" /\ pc' # "reset" THEN Publishes(Online) ELSE UNCHANGED notices
            /\ IF pc # "download" THEN sent' = sent
               ELSE IF part'[Target] = url.image THEN sent' = "everything"
               ELSE sent' \in {sent, "something"}
DeviceFails ==
    /\ PowerLoss \/ FlashError \/ \E i \in Slots : SectorLost(i)
    /\ UNCHANGED hostVars
OtherRequest ==
    /\ host.phase = "off"
    /\ RequestFails \/ \E u \in Urls : Begin(u)
    /\ UNCHANGED hostVars

-----------------------------------------------------------------------------
(* The host. *)
(* What comes after the end is not read. *)
Listens == notices' = IF host'.phase \in Over THEN <<>> ELSE notices
HostMoves(changed) == host' = changed /\ UNCHANGED <<vars, sent, spoiled>>

SeesDownload ==
    /\ host.phase = "trigger" /\ sent # "nothing"
    /\ HostMoves([host EXCEPT !.phase = "reboot"]) /\ UNCHANGED <<commands, notices>>
(* Phase 1 reads what comes, to keep the connection alive. *)
HostDrains ==
    /\ host.phase = "trigger" /\ notices # <<>>
    /\ notices' = Tail(notices) /\ UNCHANGED <<vars, host, commands, sent, spoiled>>
TriggerTimesOut ==
    /\ host.phase = "trigger" /\ sent = "nothing"
    /\ IF host.attempts < MaxAttempts
       THEN HostMoves([host EXCEPT !.attempts = @ + 1]) /\ commands' = commands + 1
       ELSE HostMoves([host EXCEPT !.phase = "failed"]) /\ UNCHANGED commands
    /\ Listens

AcceptsAnyVersion(version) == "verified"
(* The version is known: it is compared with the one that was built. *)
Verdict(version) == IF version = "new" THEN "verified" ELSE "failed"
HostReads ==
    /\ host.phase = "reboot" /\ notices # <<>>
    /\ HostMoves(IF Head(notices) = Online THEN [host EXCEPT !.online = TRUE]
                 ELSE IF host.online THEN [host EXCEPT !.phase = Verdict(Head(notices))]
                 ELSE host)
    /\ notices' = IF host'.phase \in Over THEN <<>> ELSE Tail(notices)
    /\ UNCHANGED commands
(* Without a version the flasher warns, and says that all went well. *)
RebootTimesOut ==
    /\ host.phase = "reboot"
    /\ HostMoves([host EXCEPT !.phase = IF host.online THEN "unverified" ELSE "failed"])
    /\ Listens /\ UNCHANGED commands

HostSteps == SeesDownload \/ HostDrains \/ TriggerTimesOut \/ HostReads \/ RebootTimesOut
FlashNext ==
    \/ DeviceSteps \/ DeviceFails \/ OtherRequest
    \/ CommandArrives \/ CommandLost \/ DevicePublishes
    \/ HostSteps
(* The chip executes and the network answers or fails within its timeouts; *)
(* the clocks of the host run.  Requests and faults are not assumed.       *)
FlashSpec ==
    /\ FlashInit /\ [][FlashNext]_flashVars
    /\ WF_flashVars(DeviceSteps)
    /\ WF_flashVars(TriggerTimesOut) /\ WF_flashVars(SeesDownload) /\ WF_flashVars(RebootTimesOut)

-----------------------------------------------------------------------------
(* What the flasher has verified stays: a command that it published again  *)
(* and that starts a second update of the same image is harmless, in that  *)
(* a power loss at any moment of it still leaves the new image booting.    *)
(* Requests that fail are excepted: create_ota may then take the wrong     *)
(* partition for the running one, and a download that is cut short is      *)
(* finalized, the URL having no CRC (ota_flash.rs, finalize).              *)
VerifiedStays ==
    host.phase = "verified" /\ faults = 0 /\ ~spoiled
        => \E p \in Partitions : Boots(slots, Bootable) = p /\ part[p] = NewImage

(* The flasher comes to an end, whatever the device does (its two time     *)
(* limits and the number of attempts).                                     *)
FlasherEnds == host.phase = "trigger" ~> host.phase \in Over

(* Neither side waits for ever: the device comes back to its main loop,    *)
(* the flasher to its verdict (handle_ota_request, ota_flash.rs).          *)
NothingHangs == ComesBack /\ FlasherEnds
=============================================================================
