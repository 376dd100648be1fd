-------------------------------- MODULE Boot --------------------------------
(***************************************************************************)
(* The device from power-up to its main loop, with what it keeps in flash  *)
(* and the tools a person runs on it: config-flash, which sends a          *)
(* configuration over the serial line, and provision, which burns the key. *)
(*                                                                         *)
(* dev.phase is where main is: boot, loaded (the panic handler has the NVS *)
(* pointer), early (the wait for a first configuration), clearing (of the  *)
(* crash flag), wifi (up to DHCP), window (the config-poll window),        *)
(* connecting (to the broker), main (the loop); saving and panicking write *)
(* to flash, one operation of todo at a time, and end in a reset.          *)
(* The watchdog (200 s) is fed in the main loop only: it may end a boot    *)
(* that had to wait (dev.late) at any point before.                        *)
(***************************************************************************)
EXTENDS AppConfig

CONSTANTS
    Files,          \* the configuration files the person has
    Nonces,         \* numbers the hardware draws
    FactoryKey,     \* the eFuse block as delivered
    NewKey,         \* the eFuse block that provision burns
    Messages,       \* panic messages, as sets of the phrases in them
    FifoLines,      \* lines that fit in the FIFO of the serial port (128 bytes)
    MaxAttempts,    \* connection attempts of mqtt_task before a reset (10)
    MaxOps,         \* bound on what the person and the network do
    MaxFaults       \* bound on faults

CrashKeys == {"magic", "reason", "message"}
(* The files that are filled in; what they say is right. *)
Configs == {c \in Files : Validate(c)}
ASSUME ConfigAssumption == \A c \in Files :
    /\ c \in [Keys -> Seq(0 .. 127)]
    /\ Validate(c) => ~IsPlaceholder(c) /\ ValidPort(c["mqtt_port"])
ASSUME HardwareAssumption ==
    /\ \A nonce \in Nonces : nonce \in Seq(0 .. 255) /\ Len(nonce) = NonceSize
    /\ \A block \in {FactoryKey, NewKey} : block \in Seq(0 .. 255) /\ Len(block) = 4
ASSUME BoundAssumption == FifoLines > 0 /\ MaxAttempts > 0

VARIABLES
    nvs,        \* the flash: Keys and CrashKeys
    efuse,      \* the eFuse block
    dev,        \* the running firmware
    fifo,       \* lines that wait in the serial port
    answer,     \* what config-flash has read
    host,       \* config-flash
    net,        \* the access point and the broker are there
    ops, faults,
    promised,   \* the configuration accepted last, NoConfig where something happened to it
    saved,      \* a whole configuration was written, and none with lines lost since
    recorded,   \* reasons of the panics that were recorded
    cuts,       \* times the record or the clearing of a crash was cut short
    alarms      \* the crash alarms queued: the reason, and how many were recorded then

store == <<nvs, efuse>>
serial == <<fifo, answer>>
world == <<host, net, ops, faults>>
ghosts == <<promised, saved, recorded, cuts, alarms>>
vars == <<store, dev, serial, world, ghosts>>

NoAlarm == ""
PoweredUp ==
    [phase |-> "boot", cfg |-> Default, handle |-> FALSE, alarm |-> NoAlarm,
     rx |-> NewReceiver, todo |-> <<>>, late |-> FALSE, attempt |-> 0]
Idle == [phase |-> "idle", cfg |-> NoConfig, next |-> 1, intact |-> FALSE]

Init ==
    /\ nvs = [k \in Keys \cup CrashKeys |-> Absent] /\ efuse = FactoryKey
    /\ dev = PoweredUp /\ fifo = <<>> /\ answer = ""
    /\ host = Idle /\ net = TRUE /\ ops = 0 /\ faults = 0
    /\ promised = NoConfig /\ saved = FALSE
    /\ recorded = <<>> /\ cuts = 0 /\ alarms = <<>>

Reset == dev' = PoweredUp /\ fifo' = <<>>
Enter(phase) == dev' = [dev EXCEPT !.phase = phase]
-----------------------------------------------------------------------------
(* Crash information.                                                      *)
Classify(message) ==
    IF message \cap {"out of memory", "allocation failed", "oom"} # {} THEN "oom"
    ELSE IF "stack overflow" \in message THEN "stack_overflow"
    ELSE IF "assertion" \in message THEN "assertion"
    ELSE IF message \cap {"index out of bounds", "range start index"} # {} THEN "index_out_of_bounds"
    ELSE IF message \cap {"overflow"} # {} THEN "arithmetic_overflow"
    ELSE "panic"
ReasonCode == [panic |-> 1, oom |-> 2, stack_overflow |-> 3, assertion |-> 4,
               index_out_of_bounds |-> 5, arithmetic_overflow |-> 6, unknown |-> 255]
FromU8(code) ==
    IF \E r \in DOMAIN ReasonCode : ReasonCode[r] = code
    THEN CHOOSE r \in DOMAIN ReasonCode : ReasonCode[r] = code ELSE "unknown"
CRASH_MAGIC == <<199>>

WriteCrashOps(message) ==
    <<NvsWrite("magic", CRASH_MAGIC), NvsWrite("reason", <<ReasonCode[Classify(message)]>>),
      NvsWrite("message", <<1>>)>>
(* The flag and its reason make a crash; the message may be missing. *)
ReadCrashInfo ==
    IF nvs["magic"] # CRASH_MAGIC \/ nvs["reason"] = Absent THEN NoAlarm ELSE FromU8(nvs["reason"][1])
ClearCrashOps == <<NvsWrite("message", Absent), NvsWrite("reason", Absent), NvsWrite("magic", Absent)>>

(* The panic handler: only the pointer set in main gives it the flash, a   *)
(* flag that is there is kept, and a full heap keeps it from writing.      *)
NvsPtrSet == dev.phase = "loaded"
Panic ==
    /\ dev.phase \notin {"boot", "panicking"} /\ faults < MaxFaults
    /\ \E message \in Messages, heapLeft \in BOOLEAN :
        IF NvsPtrSet /\ heapLeft /\ nvs["magic"] = Absent
        THEN /\ dev' = [dev EXCEPT !.phase = "panicking", !.todo = WriteCrashOps(message)]
             /\ recorded' = Append(recorded, Classify(message)) /\ UNCHANGED <<fifo, promised, cuts>>
        ELSE /\ Reset /\ recorded' = recorded
             /\ promised' = IF dev.phase = "saving" THEN NoConfig ELSE promised
             /\ cuts' = IF dev.phase = "clearing" THEN cuts + 1 ELSE cuts
    /\ faults' = faults + 1
    /\ UNCHANGED <<store, answer, host, net, ops, saved, alarms>>

-----------------------------------------------------------------------------
(* main, up to its loop.                                                   *)
LoadConfig ==
    /\ dev.phase = "boot"
    /\ dev' = [dev EXCEPT !.phase = "loaded", !.cfg = Load(nvs, efuse), !.handle = TRUE,
                          !.alarm = ReadCrashInfo]
    /\ UNCHANGED <<store, serial, world, ghosts>>
(* Without NVS: default configuration, and no flash handle for OTA. *)
NvsUnavailable ==
    /\ dev.phase = "boot" /\ faults < MaxFaults
    /\ Enter("wifi") /\ faults' = faults + 1
    /\ UNCHANGED <<store, serial, host, net, ops, ghosts>>
WaitForConfig ==
    /\ dev.phase = "loaded" /\ IsPlaceholder(dev.cfg)
    /\ Enter("early") /\ UNCHANGED <<store, serial, world, ghosts>>
(* The crash flag goes once it is read, the handle to OTA. *)
CanHandOver == (dev.phase = "loaded" /\ ~IsPlaceholder(dev.cfg)) \/ dev.phase = "early"
HandOverNoClear ==
    /\ CanHandOver
    /\ dev' = [dev EXCEPT !.phase = "clearing", !.rx = NewReceiver]
    /\ UNCHANGED <<store, serial, world, ghosts>>
HandOver ==
    /\ CanHandOver
    /\ dev' = [dev EXCEPT !.phase = "clearing", !.rx = NewReceiver,
                          !.todo = IF dev.alarm # NoAlarm THEN ClearCrashOps ELSE <<>>]
    /\ UNCHANGED <<store, serial, world, ghosts>>
(* One write to flash; a failed one is logged, and the next goes on. *)
FlashStep ==
    /\ dev.todo # <<>>
    /\ \E op \in {Head(dev.todo)} : nvs' = [nvs EXCEPT ![op.key] = op.value]
    /\ dev' = [dev EXCEPT !.todo = Tail(@)]
    /\ UNCHANGED <<efuse, serial, world, ghosts>>
FlashError ==
    /\ dev.todo # <<>> /\ faults < MaxFaults
    /\ dev' = [dev EXCEPT !.todo = Tail(@)] /\ faults' = faults + 1
    /\ promised' = IF dev.phase = "saving" THEN NoConfig ELSE promised
    /\ cuts' = IF dev.phase # "saving" THEN cuts + 1 ELSE cuts
    /\ UNCHANGED <<store, serial, host, net, ops, saved, recorded, alarms>>
FlashDone ==
    /\ dev.phase \in {"clearing", "saving", "panicking"} /\ dev.todo = <<>>
    /\ IF dev.phase = "clearing" THEN Enter("wifi") /\ fifo' = fifo ELSE Reset
    /\ saved' = (saved \/ (dev.phase = "saving" /\ promised # NoConfig))
    /\ UNCHANGED <<store, answer, world, promised, recorded, cuts, alarms>>

WifiWorks(cfg) ==
    \E c \in Configs : \A k \in {"wifi_ssid", "wifi_pass"} : cfg[k] = c[k]
BrokerWorks(cfg) ==
    \E c \in Configs : \A k \in {"mqtt_host", "mqtt_port"} \cup Credentials : cfg[k] = c[k]
(* init_wifi: an error resets after 5 s, an address lets main go on. *)
WifiFails ==
    /\ dev.phase = "wifi" /\ faults < MaxFaults
    /\ Reset /\ faults' = faults + 1
    /\ UNCHANGED <<store, answer, host, net, ops, ghosts>>
AwaitWifi ==
    /\ dev.phase = "wifi"
    /\ dev' = IF net /\ WifiWorks(dev.cfg) THEN [dev EXCEPT !.phase = "window"] ELSE [dev EXCEPT !.late = TRUE]
    /\ UNCHANGED <<store, serial, world, ghosts>>
CloseWindow ==
    /\ dev.phase = "window"
    /\ dev' = [dev EXCEPT !.phase = "connecting", !.rx = NewReceiver]
    /\ UNCHANGED <<store, serial, world, ghosts>>
WatchdogBitesAlways ==
    /\ dev.phase \in {"wifi", "window", "connecting", "main"}
    /\ Reset /\ UNCHANGED <<store, answer, world, ghosts>>
WatchdogBites ==
    /\ dev.late /\ dev.phase \in {"wifi", "window", "connecting"}
    /\ Reset /\ UNCHANGED <<store, answer, world, ghosts>>

Connected ==
    /\ dev' = [dev EXCEPT !.phase = "main", !.alarm = NoAlarm, !.late = FALSE] /\ fifo' = fifo
    /\ alarms' = IF dev.alarm = NoAlarm THEN alarms
               ELSE Append(alarms, [crash |-> Len(recorded), reason |-> dev.alarm])
ConnectFails ==
    /\ IF dev.attempt + 1 >= MaxAttempts THEN Reset
       ELSE dev' = [dev EXCEPT !.attempt = @ + 1, !.late = TRUE] /\ fifo' = fifo
    /\ alarms' = alarms
Connect ==
    /\ dev.phase = "connecting"
    /\ IF net /\ BrokerWorks(dev.cfg) THEN Connected ELSE ConnectFails
    /\ UNCHANGED <<store, answer, world, promised, saved, recorded, cuts>>

-----------------------------------------------------------------------------
(* The serial line.                                                        *)
Polls == dev.phase \in {"early", "window", "main"}
(* A configuration that arrives is saved, if there is a handle.  Without   *)
(* one CONFIG_OK promises nothing; it is never sent, as the placeholders   *)
(* the device then runs with do not get it past WiFi.                      *)
Accept(config, rx) ==
    IF dev.handle
    THEN \E nonce \in [Passwords -> Nonces] :
            dev' = [dev EXCEPT !.phase = "saving", !.todo = SaveOps(config, efuse, nonce)]
    ELSE dev' = [dev EXCEPT !.rx = rx, !.phase = IF @ = "window" THEN "connecting" ELSE @]
PollSerial ==
    /\ Polls
    /\ \E r \in {Poll(dev.rx, fifo)} :
        /\ fifo' = r.left
        /\ answer' = IF r.answer = "" \/ host.phase = "idle" THEN answer ELSE r.answer
        /\ IF r.config = NoConfig THEN dev' = [dev EXCEPT !.rx = r.rx] ELSE Accept(r.config, r.rx)
        /\ IF r.config = NoConfig \/ ~dev.handle THEN UNCHANGED <<promised, saved>>
           ELSE IF host.intact THEN promised' = host.cfg /\ saved' = saved
           ELSE promised' = NoConfig /\ saved' = FALSE
    /\ UNCHANGED <<store, world, recorded, cuts, alarms>>

(* config-flash resets the device, or not (--no-reset), and sends line     *)
(* after line.                                                             *)
StartFlash ==
    /\ host.phase = "idle" /\ ops < MaxOps
    /\ \E c \in Files, reset \in BOOLEAN :
        /\ Validate(c)
        /\ host' = [phase |-> "sending", cfg |-> c, next |-> 1, intact |-> FALSE]
        /\ IF reset THEN Reset /\ promised' = IF dev.phase = "saving" THEN NoConfig ELSE promised
           ELSE UNCHANGED <<dev, fifo, promised>>
        /\ cuts' = IF reset /\ dev.todo # <<>> THEN cuts + 1 ELSE cuts
    /\ answer' = "" /\ ops' = ops + 1
    /\ UNCHANGED <<store, net, faults, saved, recorded, alarms>>
Lines == ConfigLines(host.cfg)
(* A line every 150 ms: none comes while main does not wait, and the       *)
(* firmware that polls every 100 or 10 ms keeps up.  Otherwise the FIFO    *)
(* fills: the end of a line that does not fit is lost, and the next lines. *)
Untouched == dev.rx = NewReceiver /\ fifo = <<>>
SendLine ==
    /\ host.phase = "sending" /\ (Polls \/ dev.phase \in {"wifi", "connecting"})
    /\ dev.phase \in {"early", "window"} => fifo = <<>>
    /\ LET line == Lines[host.next]
           fits == Len(fifo) < FifoLines
           intact == IF host.next = 1 THEN Untouched ELSE host.intact
       IN  /\ fifo' = IF fits THEN Append(fifo, line)
                      ELSE IF Len(fifo) = FifoLines THEN Append(fifo, [line EXCEPT !.cut = TRUE])
                      ELSE fifo
           /\ host' = [host EXCEPT !.next = @ + 1, !.intact = intact /\ fits,
                                   !.phase = IF host.next = Len(Lines) THEN "awaiting" ELSE @]
    /\ UNCHANGED <<store, dev, answer, net, ops, faults, ghosts>>
(* It ends with the answer or without one, or is stopped in the middle. *)
EndFlash ==
    /\ \/ host.phase = "awaiting"
       \/ host.phase = "sending" /\ faults < MaxFaults
    /\ host' = [host EXCEPT !.phase = "idle", !.next = 1] /\ answer' = ""
    /\ faults' = IF host.phase = "sending" THEN faults + 1 ELSE faults
    /\ UNCHANGED <<store, dev, fifo, net, ops, ghosts>>
(* provision burns the key once; what was encrypted before is lost. *)
Provision ==
    /\ host.phase = "idle" /\ efuse # NewKey /\ ops < MaxOps
    /\ efuse' = NewKey /\ Reset /\ ops' = ops + 1
    /\ promised' = NoConfig /\ saved' = FALSE
    /\ cuts' = IF dev.todo # <<>> THEN cuts + 1 ELSE cuts
    /\ UNCHANGED <<nvs, answer, host, net, faults, recorded, alarms>>

-----------------------------------------------------------------------------
NetworkDrops == net /\ ops < MaxOps /\ net' = FALSE /\ ops' = ops + 1
                /\ UNCHANGED <<store, dev, serial, host, faults, ghosts>>
NetworkReturns == ~net /\ net' = TRUE /\ UNCHANGED <<store, dev, serial, host, ops, faults, ghosts>>
PowerLoss ==
    /\ dev.phase # "boot" /\ faults < MaxFaults
    /\ Reset /\ faults' = faults + 1
    /\ promised' = IF dev.phase = "saving" THEN NoConfig ELSE promised
    /\ cuts' = IF dev.phase \in {"clearing", "panicking"} THEN cuts + 1 ELSE cuts
    /\ UNCHANGED <<store, answer, host, net, ops, saved, recorded, alarms>>

Firmware ==
    \/ LoadConfig \/ WaitForConfig \/ HandOver \/ FlashStep \/ FlashDone
    \/ AwaitWifi \/ CloseWindow \/ Connect
Person == StartFlash \/ SendLine \/ EndFlash \/ Provision
Faults == Panic \/ NvsUnavailable \/ FlashError \/ WifiFails \/ PowerLoss
Next == Firmware \/ PollSerial \/ WatchdogBites \/ Person \/ Faults \/ NetworkDrops \/ NetworkReturns
Spec == Init /\ [][Next]_vars /\ WF_vars(Firmware) /\ WF_vars(WatchdogBites) /\ WF_vars(NetworkReturns)

-----------------------------------------------------------------------------
(* A configuration the device answered with CONFIG_OK is the one it runs   *)
(* with after the reset, key by key, unless a line of it was lost, the     *)
(* save was disturbed or the key was burned: the encrypted passwords come  *)
(* back, keys left out are the defaults.  A boot where NVS does not open   *)
(* (no handle) runs with the defaults instead and is left out.             *)
PromiseKept ==
    promised # NoConfig /\ dev.handle /\ dev.phase # "saving" => dev.cfg = promised

(* Once a whole configuration is in flash, no cut and no failed write of   *)
(* another one leaves a key with a value that is in neither of them, on    *)
(* any boot where NVS opens.                                               *)
NoKeyIsLost ==
    saved /\ dev.handle => \A k \in Keys : \E c \in Configs : dev.cfg[k] = c[k]

(* A configuration sent over the serial line is kept: as it was confirmed  *)
(* when all went well, and never less than key by key from one of those    *)
(* that were sent, whenever NVS opens (AppConfig::save, load).             *)
ConfigurationKept == PromiseKept /\ NoKeyIsLost

(* A crash is told at most once, and as what it was, unless the record or  *)
(* the clearing of it was disturbed: an alarm is about the crash recorded  *)
(* last, and no two are about the same one.  A crash may stay untold, as   *)
(* the record is cleared before the broker is reached (write_crash_info,   *)
(* read_crash_info, clear_crash_info).                                     *)
CrashToldOnce ==
    cuts = 0 => \A i \in 1 .. Len(alarms) :
        /\ alarms[i].crash \in 1 .. Len(recorded) /\ alarms[i].reason = recorded[alarms[i].crash]
        /\ \A j \in 1 .. i - 1 : alarms[j].crash < alarms[i].crash

(* With the network there and a configuration that works in flash the      *)
(* device gets to its main loop and stays, whatever happened before.       *)
Works(cfg) == WifiWorks(cfg) /\ BrokerWorks(cfg)
Recovers == <>[]net => <>[](Works(dev.cfg) => dev.phase = "main")

(* config-flash works at any time: the device never stops looking at its   *)
(* serial line.                                                            *)
PollsForEver == []<>Polls
=============================================================================
