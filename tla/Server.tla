------------------------------- MODULE Server -------------------------------
(***************************************************************************)
(* launa-server: the broker's bridge thread, which files what devices      *)
(* publish, the in-memory store with its file, the notifier that tells a   *)
(* webhook of devices that are offline for long, and the configuration     *)
(* endpoint.  The store is behind a lock and every access is one step; the *)
(* notifier holds no lock while it awaits the webhook.                     *)
(*                                                                         *)
(* Time is an age: offline_since is the time since it was set, counted up  *)
(* to the threshold.  Logs, diagnostics, alerts and sniffed frames only    *)
(* fill rings of their own and are left out.                               *)
(***************************************************************************)
EXTENDS Integers, Sequences, FiniteSets

CONSTANTS
    Devices,
    MonitoredSets,  \* values of monitored_devices a user chooses from
    Threshold,      \* offline_threshold_hours
    HistoryCap,     \* MAX_AVAILABILITY_ENTRIES (500)
    LinkCap,        \* bound on messages on their way to the bridge
    MaxChanges,     \* bound on changes of the devices
    MaxConfigs,     \* bound on changes of the configuration
    MaxRestarts,    \* bound on ends of the server process
    MaxFailures     \* bound on failed webhook requests

ASSUME ThresholdAssumption == Threshold \in Nat \ {0}
ASSUME CapAssumption == HistoryCap \in Nat \ {0} /\ LinkCap \in Nat
ASSUME MonitoredAssumption == MonitoredSets \subseteq SUBSET Devices /\ {} \in MonitoredSets

None == -1
Availabilities == {"online", "stale", "offline"}
Ages == 0 .. Threshold

VARIABLES
    up,             \* the server process runs
    status,         \* MemoryStore.devices: the status of each known device
    since,          \* MemoryStore.offline_since
    history,        \* MemoryStore.availability
    cfg,            \* MemoryStore.notification_config
    file,           \* the state file
    link,           \* messages the broker has for the bridge
    pc,             \* where Notifier::check awaits
    snap,           \* offline_devices
    todo,           \* devices it still has to report
    notified,       \* Notifier.notified
    told,           \* what the webhook's readers were told last
    alerted,        \* whether this process reads or has reported the present outage
                    \* of a device it monitors
    session,        \* devices connected to the broker
    changes, configs, restarts, failures

store == <<status, since, history, cfg>>
notifier == <<pc, snap, todo, notified>>
bounds == <<changes, configs, restarts, failures>>
vars == <<up, store, file, link, notifier, told, alerted, session, bounds>>

Store == [status |-> status, since |-> since, history |-> history, cfg |-> cfg]
EmptyStore ==
    [status |-> [d \in Devices |-> "unknown"], since |-> [d \in Devices |-> None],
     history |-> [d \in Devices |-> <<>>], cfg |-> [url |-> FALSE, monitored |-> {}]]
Load(s) ==
    status' = s.status /\ since' = s.since /\ history' = s.history /\ cfg' = s.cfg

Init ==
    /\ up = TRUE
    /\ status = EmptyStore.status /\ since = EmptyStore.since
    /\ history = EmptyStore.history /\ cfg = EmptyStore.cfg
    /\ file = EmptyStore
    /\ link = <<>>
    /\ pc = "sleep" /\ snap = {} /\ todo = {} /\ notified = {}
    /\ told = [d \in Devices |-> "nothing"]
    /\ alerted = [d \in Devices |-> "no"]
    /\ session = {}
    /\ changes = 0 /\ configs = 0 /\ restarts = 0 /\ failures = 0

-----------------------------------------------------------------------------
(* The devices and the broker. *)
Message(d, topic, value) == [device |-> d, topic |-> topic, value |-> value]
Messages ==
    [device : Devices, topic : {"availability"}, value : Availabilities]
        \cup [device : Devices, topic : {"boot"}, value : {"boot_id"}]

Forwards(ms) ==
    /\ up
    /\ Len(link) + Len(ms) <= LinkCap
    /\ changes < MaxChanges /\ changes' = changes + 1
    /\ link' = link \o ms
    /\ UNCHANGED <<up, store, file, notifier, told, alerted, configs, restarts, failures>>

(* A device connects: its availability and its boot id. *)
Connects(d) ==
    /\ session' = session \cup {d}
    /\ Forwards(<<Message(d, "availability", "online"), Message(d, "boot", "boot_id")>>)

(* A connected device announces that its spa is silent. *)
AnnouncesStale(d) ==
    /\ d \in session
    /\ UNCHANGED session
    /\ Forwards(<<Message(d, "availability", "stale")>>)

(* A device is gone: the broker publishes its will. *)
Dies(d) ==
    /\ d \in session
    /\ session' = session \ {d}
    /\ Forwards(<<Message(d, "availability", "offline")>>)

-----------------------------------------------------------------------------
(* The bridge and the store. *)
PushCapped(ring, item) ==
    Append(IF Len(ring) >= HistoryCap THEN Tail(ring) ELSE ring, item)

(* insert_availability: only changes are kept. *)
InsertAvailability(ring, value) ==
    IF ring # <<>> /\ ring[Len(ring)] = value THEN ring ELSE PushCapped(ring, value)

(* update_device_status: the first message that is not "online" starts the *)
(* clock of an outage, "online" ends it.                                   *)
StaleIsNoOutage(old, value) ==
    IF value # "offline" THEN None ELSE IF old = None THEN 0 ELSE old
OfflineRestarts(old, value) == IF value = "online" THEN None ELSE 0
OfflineSince(old, value) ==
    CASE value = "online" -> None
      [] value # "online" /\ old = None -> 0
      [] OTHER -> old

UpdateDeviceStatus(d, value) ==
    /\ status' = [status EXCEPT ![d] = value]
    /\ since' = [since EXCEPT ![d] = OfflineSince(@, value)]
    /\ alerted' = [alerted EXCEPT ![d] = IF value = "online" THEN "no" ELSE @]

(* A boot id says that the device is online. *)
HandleBoot(m) ==
    /\ m.topic = "boot"
    /\ UpdateDeviceStatus(m.device, "online")
    /\ UNCHANGED history

HandleAvailability(m) ==
    /\ m.topic = "availability"
    /\ UpdateDeviceStatus(m.device, m.value)
    /\ history' = [history EXCEPT ![m.device] = InsertAvailability(@, m.value)]

HandleForward ==
    /\ up
    /\ link # <<>>
    /\ HandleAvailability(Head(link)) \/ HandleBoot(Head(link))
    /\ link' = Tail(link)
    /\ UNCHANGED <<up, cfg, file, notifier, told, session, bounds>>

(* set_notifications; no devices listed stands for all of them.  Outages   *)
(* of a device that is left out are no longer followed.                    *)
MonitoredBy(c) == IF c.monitored = {} THEN Devices ELSE c.monitored
Monitored == MonitoredBy(cfg)

SetNotifications(url, monitored) ==
    /\ up
    /\ configs < MaxConfigs /\ configs' = configs + 1
    /\ cfg' = [url |-> url, monitored |-> monitored]
    /\ alerted' = [d \in Devices |-> IF d \in MonitoredBy(cfg') THEN alerted[d] ELSE "no"]
    /\ UNCHANGED <<up, status, since, history, file, link, notifier, told, session,
                   changes, restarts, failures>>

-----------------------------------------------------------------------------
(* The notifier. *)
(* get_long_offline_devices *)
LongOffline == {d \in Monitored : since[d] >= Threshold}

(* check, up to its first request: it works on what it reads here. *)
CheckBegins ==
    /\ up
    /\ pc = "sleep"
    /\ cfg.url
    /\ snap' = LongOffline
    /\ todo' = LongOffline \ notified
    /\ pc' = "offline"
    /\ alerted' = [d \in Devices |->
                      IF d \in todo' /\ alerted[d] = "no" THEN "reading" ELSE alerted[d]]
    /\ UNCHANGED <<up, store, file, link, notified, told, session, bounds>>

(* An alert is answered; one that fails is tried again by the next check.  *)
Fails == failures < MaxFailures /\ failures' = failures + 1

OfflineAlertNeverRetried(d) ==
    /\ todo' = todo \ {d}
    /\ notified' = notified \cup {d}
    /\ UNCHANGED alerted
    /\ \/ told' = [told EXCEPT ![d] = "offline"] /\ UNCHANGED failures
       \/ Fails /\ UNCHANGED told
OfflineAlertAnswered(d) ==
    /\ todo' = todo \ {d}
    /\ \/ /\ told' = [told EXCEPT ![d] = "offline"]
          /\ notified' = notified \cup {d}
          /\ alerted' = [alerted EXCEPT ![d] = IF @ = "reading" THEN "yes" ELSE @]
          /\ UNCHANGED failures
       \/ /\ Fails
          /\ UNCHANGED <<told, notified, alerted>>

SendOfflineAlert(d) ==
    /\ up
    /\ pc = "offline"
    /\ d \in todo
    /\ OfflineAlertAnswered(d)
    /\ UNCHANGED <<up, store, file, link, pc, snap, session, changes, configs, restarts>>

(* Those reported that were not offline when the check began are back. *)
EveryoneRecovered == notified
Recovered == notified \ snap

OfflineAlertsDone ==
    /\ up
    /\ pc = "offline" /\ todo = {}
    /\ todo' = Recovered
    /\ pc' = "back"
    /\ UNCHANGED <<up, store, file, link, snap, notified, told, alerted, session, bounds>>

(* This one is not tried again. *)
SendBackOnline(d) ==
    /\ up
    /\ pc = "back"
    /\ d \in todo
    /\ todo' = todo \ {d}
    /\ notified' = notified \ {d}
    /\ \/ told' = [told EXCEPT ![d] = "online"] /\ UNCHANGED failures
       \/ Fails /\ UNCHANGED told
    /\ UNCHANGED <<up, store, file, link, pc, snap, alerted, session, changes, configs, restarts>>

CheckEnds ==
    /\ up
    /\ pc = "back" /\ todo = {}
    /\ pc' = "sleep"
    /\ snap' = {}
    /\ UNCHANGED <<up, store, file, link, todo, notified, told, alerted, session, bounds>>

-----------------------------------------------------------------------------
(* The process ends, by a signal, which saves the store, or by a crash.    *)
(* The sessions and the messages of the broker go with it.                 *)
Ends ==
    /\ up
    /\ restarts < MaxRestarts /\ restarts' = restarts + 1
    /\ up' = FALSE
    /\ link' = <<>>
    /\ session' = {}
    /\ pc' = "sleep" /\ snap' = {} /\ todo' = {} /\ notified' = {}
    /\ alerted' = [d \in Devices |-> "no"]
    /\ Load(EmptyStore)
    /\ UNCHANGED <<told, changes, configs, failures>>

Shutdown == Ends /\ file' = Store
Crash == Ends /\ UNCHANGED file

Start ==
    /\ ~up
    /\ up' = TRUE
    /\ Load(file)
    /\ UNCHANGED <<file, link, notifier, told, alerted, session, bounds>>

Older(ages) ==
    [d \in Devices |-> IF ages[d] \in 0 .. Threshold - 1 THEN ages[d] + 1 ELSE ages[d]]

(* An hour passes. *)
Advance ==
    /\ since' = Older(since)
    /\ file' = [file EXCEPT !.since = Older(@)]
    /\ UNCHANGED <<up, status, history, cfg, link, notifier, told, alerted, session, bounds>>

Next ==
    \/ \E d \in Devices : Connects(d) \/ AnnouncesStale(d) \/ Dies(d)
    \/ HandleForward
    \/ \E url \in BOOLEAN, monitored \in MonitoredSets : SetNotifications(url, monitored)
    \/ CheckBegins \/ OfflineAlertsDone \/ CheckEnds
    \/ \E d \in Devices : SendOfflineAlert(d) \/ SendBackOnline(d)
    \/ Shutdown \/ Crash \/ Start
    \/ Advance

Spec == Init /\ [][Next]_vars

(* The bridge thread and the notifier's task run, the service manager      *)
(* starts the process again and time passes.  Every request is answered or *)
(* fails: an assumption about the webhook, the client sets no timeout.     *)
Fairness ==
    /\ WF_vars(HandleForward)
    /\ WF_vars(CheckBegins) /\ WF_vars(OfflineAlertsDone) /\ WF_vars(CheckEnds)
    /\ WF_vars(\E d \in Devices : SendOfflineAlert(d) \/ SendBackOnline(d))
    /\ WF_vars(Start)
    /\ WF_vars(Advance)
FairSpec == Spec /\ Fairness

-----------------------------------------------------------------------------
Rings == {ring \in Seq(Availabilities) : Len(ring) <= HistoryCap}
Stores ==
    [status : [Devices -> Availabilities \cup {"unknown"}],
     since : [Devices -> Ages \cup {None}],
     history : [Devices -> Rings],
     cfg : [url : BOOLEAN, monitored : SUBSET Devices]]

TypeOK ==
    /\ up \in BOOLEAN
    /\ status \in [Devices -> Availabilities \cup {"unknown"}]
    /\ since \in [Devices -> Ages \cup {None}]
    /\ history \in [Devices -> Rings]
    /\ cfg \in [url : BOOLEAN, monitored : SUBSET Devices]
    /\ file \in Stores
    /\ link \in Seq(Messages) /\ Len(link) <= LinkCap
    /\ pc \in {"sleep", "offline", "back"}
    /\ snap \subseteq Devices /\ todo \subseteq Devices /\ notified \subseteq Devices
    /\ told \in [Devices -> {"nothing", "offline", "online"}]
    /\ alerted \in [Devices -> {"no", "reading", "yes"}]
    /\ session \subseteq Devices

(* A store, the one in memory and the one in the file, has an outage clock *)
(* exactly for the devices it lists as not online, and a history without   *)
(* repetitions, however messages, shutdowns and crashes mix                *)
(* (update_device_status, insert_availability, save, load).                *)
ClockMatches(st, si) ==
    \A d \in Devices : si[d] # None <=> st[d] \in {"stale", "offline"}
NoRepeats(ring) == \A i \in 1 .. Len(ring) - 1 : ring[i] # ring[i + 1]
StoreConsistent ==
    /\ ClockMatches(status, since) /\ ClockMatches(file.status, file.since)
    /\ \A d \in Devices : NoRepeats(history[d]) /\ NoRepeats(file.history[d])

(* The clock of an outage is never set back while the outage lasts, by a   *)
(* device that is first stale and then offline in particular               *)
(* (update_device_status).                                                 *)
OutageClockRuns ==
    [][\A d \in Devices :
          up /\ up' /\ since[d] # None /\ since'[d] # None => since'[d] >= since[d]]_vars

(* A step that files a device as reported: once for each outage, unless    *)
(* the device is left out of the monitored ones in between (check).        *)
ReportedOnce == \A d \in notified' \ notified : alerted[d] # "yes"

(* A step that tells of a return: the device was online since the report   *)
(* of its outage, or was left out of the monitored ones since (check).     *)
ReturnIsTrue ==
    \A d \in Devices : told[d] = "offline" /\ told'[d] = "online" => alerted[d] # "yes"

(* The readers of the webhook are told each outage once and its end only   *)
(* when it is over, though devices come and go and the webhook is switched *)
(* off and on while the notifier awaits between what it read and what it   *)
(* sends (check).                                                          *)
AlertsAreTrue == [][ReportedOnce /\ ReturnIsTrue]_vars

(* A device the store lists as not online for good is reported in the end, *)
(* though requests fail and the process is restarted (check, load).        *)
OutageIsTold ==
    \A d \in Devices :
        <>[](up /\ since[d] # None /\ cfg.url /\ d \in Monitored) => <>[](told[d] = "offline")
=============================================================================
