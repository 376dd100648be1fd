---------------------------- MODULE ServerProofs ----------------------------
(***************************************************************************)
(* Proofs about Server for any set of devices, any threshold, any capacity *)
(* of the histories and any bounds.                                        *)
(***************************************************************************)
EXTENDS Server, SequenceTheorems, TLAPS

(* What of the store and its file the steps rely on. *)
StoreType ==
    /\ status \in [Devices -> Availabilities \cup {"unknown"}]
    /\ since \in [Devices -> Ages \cup {None}]
    /\ history \in [Devices -> Rings]
    /\ cfg \in [url : BOOLEAN, monitored : SUBSET Devices]
StoreInv == StoreType /\ file \in Stores /\ link \in Seq(Messages) /\ StoreConsistent

-----------------------------------------------------------------------------
(* Time passes: a clock that runs goes on, one that does not stays so.     *)
LEMMA OlderKeeps ==
    ASSUME NEW ages \in [Devices -> Ages \cup {None}]
    PROVE  /\ Older(ages) \in [Devices -> Ages \cup {None}]
           /\ \A d \in Devices : Older(ages)[d] = None <=> ages[d] = None
BY ThresholdAssumption DEF Older, Ages, None

(* A message starts the clock of an outage, keeps it or ends the outage.   *)
LEMMA OfflineSinceKeeps ==
    ASSUME NEW old \in Ages \cup {None}, NEW value \in Availabilities
    PROVE  /\ OfflineSince(old, value) \in Ages \cup {None}
           /\ OfflineSince(old, value) # None <=> value \in {"stale", "offline"}
BY ThresholdAssumption DEF OfflineSince, Ages, None, Availabilities

(* A capped ring without repetitions stays one. *)
LEMMA InsertKeeps ==
    ASSUME NEW ring \in Rings, NoRepeats(ring), NEW value \in Availabilities
    PROVE  /\ InsertAvailability(ring, value) \in Rings
           /\ NoRepeats(InsertAvailability(ring, value))
<1> DEFINE kept == IF Len(ring) >= HistoryCap THEN Tail(ring) ELSE ring
<1>1. CASE ring # <<>> /\ ring[Len(ring)] = value
    BY <1>1 DEF InsertAvailability
<1>2. CASE ~(ring # <<>> /\ ring[Len(ring)] = value)
    <2>1. ring \in Seq(Availabilities) /\ Len(ring) \in Nat /\ Len(ring) <= HistoryCap
        BY DEF Rings
    <2>2. /\ kept \in Seq(Availabilities) /\ Len(kept) \in Nat /\ Len(kept) + 1 <= HistoryCap
          /\ NoRepeats(kept)
          /\ kept # <<>> => kept[Len(kept)] # value
        <3>1. CASE Len(ring) >= HistoryCap
            <4>1. ring # <<>> /\ kept = Tail(ring)
                BY <3>1, <2>1, CapAssumption
            <4>2. /\ Tail(ring) \in Seq(Availabilities) /\ Len(Tail(ring)) = Len(ring) - 1
                  /\ \A i \in 1 .. Len(Tail(ring)) : Tail(ring)[i] = ring[i + 1]
                BY <4>1, <2>1, HeadTailProperties
            <4>3. NoRepeats(Tail(ring))
                BY <4>2, <2>1 DEF NoRepeats
            <4>4. Tail(ring) # <<>> => Len(Tail(ring)) >= 1
                BY <4>2
            <4>5. Tail(ring) # <<>> => Tail(ring)[Len(Tail(ring))] = ring[Len(ring)]
                BY <4>2, <4>4, <2>1
            <4>6. Len(Tail(ring)) \in Nat /\ Len(Tail(ring)) + 1 <= HistoryCap
                BY <4>2, <2>1, CapAssumption
            <4> HIDE DEF kept
            <4> QED
                BY <4>1, <4>2, <4>3, <4>5, <4>6, <1>2
        <3>2. CASE ~(Len(ring) >= HistoryCap)
            BY <3>2, <1>2, <2>1, CapAssumption
        <3> QED
            BY <3>1, <3>2
    <2> HIDE DEF kept
    <2>3. /\ Append(kept, value) \in Seq(Availabilities)
          /\ Len(Append(kept, value)) = Len(kept) + 1
          /\ \A i \in 1 .. Len(kept) : Append(kept, value)[i] = kept[i]
          /\ Append(kept, value)[Len(kept) + 1] = value
        BY <2>2, AppendProperties
    <2>4. NoRepeats(Append(kept, value))
        <3> SUFFICES ASSUME NEW i \in 1 .. Len(kept)
                     PROVE  Append(kept, value)[i] # Append(kept, value)[i + 1]
            BY <2>2, <2>3 DEF NoRepeats
        <3>1. CASE i = Len(kept)
            BY <3>1, <2>2, <2>3
        <3>2. CASE i # Len(kept)
            BY <3>2, <2>2, <2>3 DEF NoRepeats
        <3> QED
            BY <3>1, <3>2
    <2>5. InsertAvailability(ring, value) = Append(kept, value)
        BY <1>2 DEF InsertAvailability, PushCapped, kept
    <2> QED
        BY <2>2, <2>3, <2>4, <2>5 DEF Rings
<1> QED
    BY <1>1, <1>2

-----------------------------------------------------------------------------
(* The empty store, the one of a first start, is consistent. *)
LEMMA EmptyStoreInv ==
    /\ EmptyStore \in Stores
    /\ ClockMatches(EmptyStore.status, EmptyStore.since)
    /\ \A d \in Devices : NoRepeats(EmptyStore.history[d])
<1>1. <<>> \in Rings /\ NoRepeats(<<>>)
    BY CapAssumption DEF Rings, NoRepeats
<1>2. EmptyStore.history \in [Devices -> Rings]
    BY <1>1 DEF EmptyStore
<1>3. EmptyStore.cfg \in [url : BOOLEAN, monitored : SUBSET Devices]
    BY DEF EmptyStore
<1>4. /\ EmptyStore.status \in [Devices -> Availabilities \cup {"unknown"}]
      /\ EmptyStore.since \in [Devices -> Ages \cup {None}]
    BY DEF EmptyStore
<1>5. EmptyStore \in Stores
    BY <1>2, <1>3, <1>4 DEF EmptyStore, Stores
<1>6. ClockMatches(EmptyStore.status, EmptyStore.since)
    BY DEF EmptyStore, ClockMatches
<1>7. \A d \in Devices : EmptyStore.history[d] = <<>>
    BY DEF EmptyStore
<1> QED
    BY <1>1, <1>5, <1>6, <1>7

LEMMA InitStoreInv == Init => StoreInv
<1> SUFFICES ASSUME Init PROVE StoreInv
    OBVIOUS
<1> USE DEF Init
<1>1. StoreType
    BY EmptyStoreInv DEF StoreType, Stores
<1>2. file \in Stores /\ link \in Seq(Messages)
    BY EmptyStoreInv
<1>3. StoreConsistent
    BY EmptyStoreInv DEF StoreConsistent
<1> QED
    BY <1>1, <1>2, <1>3 DEF StoreInv

(* A message changes one device, and changes it consistently. *)
LEMMA UpdateKeeps ==
    ASSUME StoreInv, NEW d \in Devices, NEW value \in Availabilities,
           UpdateDeviceStatus(d, value)
    PROVE  /\ status' \in [Devices -> Availabilities \cup {"unknown"}]
           /\ since' \in [Devices -> Ages \cup {None}]
           /\ ClockMatches(status', since')
<1>1. /\ status \in [Devices -> Availabilities \cup {"unknown"}]
      /\ since \in [Devices -> Ages \cup {None}]
      /\ ClockMatches(status, since)
    BY DEF StoreInv, StoreType, StoreConsistent
<1>2. /\ status' = [status EXCEPT ![d] = value]
      /\ since' = [since EXCEPT ![d] = OfflineSince(since[d], value)]
    BY DEF UpdateDeviceStatus
<1>3. /\ OfflineSince(since[d], value) \in Ages \cup {None}
      /\ OfflineSince(since[d], value) # None <=> value \in {"stale", "offline"}
    BY <1>1, OfflineSinceKeeps
<1> QED
    BY <1>1, <1>2, <1>3 DEF ClockMatches

LEMMA HandleForwardKeeps == StoreInv /\ HandleForward => StoreInv'
<1> SUFFICES ASSUME StoreInv, HandleForward PROVE StoreInv'
    OBVIOUS
<1> DEFINE m == Head(link)
<1>1. link \in Seq(Messages) /\ link # <<>> /\ UNCHANGED <<cfg, file>> /\ link' = Tail(link)
    BY DEF StoreInv, HandleForward
<1>2. m \in Messages /\ link' \in Seq(Messages)
    BY <1>1, HeadTailProperties
<1>3. m.device \in Devices /\ (m.topic = "availability" => m.value \in Availabilities)
    BY <1>2 DEF Messages
<1>4. HandleAvailability(m) \/ HandleBoot(m)
    BY DEF HandleForward
<1> HIDE DEF m
<1>5. /\ status' \in [Devices -> Availabilities \cup {"unknown"}]
      /\ since' \in [Devices -> Ages \cup {None}]
      /\ ClockMatches(status', since')
    <2>1. CASE HandleAvailability(m)
        BY <2>1, <1>3, UpdateKeeps DEF HandleAvailability
    <2>2. CASE HandleBoot(m)
        <3>1. UpdateDeviceStatus(m.device, "online") /\ "online" \in Availabilities
            BY <2>2 DEF HandleBoot, Availabilities
        <3> QED
            BY <3>1, <1>3, UpdateKeeps
    <2> QED
        BY <2>1, <2>2, <1>4
<1>6. history' \in [Devices -> Rings] /\ \A d \in Devices : NoRepeats(history'[d])
    <2>1. history \in [Devices -> Rings] /\ \A d \in Devices : NoRepeats(history[d])
        BY DEF StoreInv, StoreType, StoreConsistent
    <2>2. CASE HandleAvailability(m)
        <3> DEFINE ring == InsertAvailability(history[m.device], m.value)
        <3>1. ring \in Rings /\ NoRepeats(ring)
            BY <2>1, <2>2, <1>3, InsertKeeps DEF HandleAvailability
        <3>2. history' = [history EXCEPT ![m.device] = ring]
            BY <2>2 DEF HandleAvailability
        <3> HIDE DEF ring
        <3> QED
            BY <2>1, <3>1, <3>2, <1>3
    <2>3. CASE HandleBoot(m)
        BY <2>1, <2>3 DEF HandleBoot
    <2> QED
        BY <2>2, <2>3, <1>4
<1> QED
    BY <1>1, <1>2, <1>5, <1>6 DEF StoreInv, StoreType, StoreConsistent

(* What a step sends to the bridge is well formed. *)
LEMMA DevicesKeep ==
    ASSUME StoreInv, NEW d \in Devices, Connects(d) \/ AnnouncesStale(d) \/ Dies(d)
    PROVE  StoreInv'
<1>1. /\ Message(d, "boot", "boot_id") \in Messages
      /\ \A v \in Availabilities : Message(d, "availability", v) \in Messages
    BY DEF Message, Messages
<1>2. PICK ms \in Seq(Messages) : Forwards(ms)
    <2>1. CASE Connects(d)
        <3>1. <<Message(d, "availability", "online"), Message(d, "boot", "boot_id")>>
                  \in Seq(Messages)
            BY <1>1 DEF Availabilities
        <3> QED
            BY <2>1, <3>1 DEF Connects
    <2>2. CASE AnnouncesStale(d)
        <3>1. <<Message(d, "availability", "stale")>> \in Seq(Messages)
            BY <1>1 DEF Availabilities
        <3> QED
            BY <2>2, <3>1 DEF AnnouncesStale
    <2>3. CASE Dies(d)
        <3>1. <<Message(d, "availability", "offline")>> \in Seq(Messages)
            BY <1>1 DEF Availabilities
        <3> QED
            BY <2>3, <3>1 DEF Dies
    <2> QED
        BY <2>1, <2>2, <2>3
<1>3. link \in Seq(Messages) /\ link' = link \o ms /\ UNCHANGED <<store, file>>
    BY <1>2 DEF Forwards, StoreInv
<1>4. link' \in Seq(Messages)
    BY <1>2, <1>3, ConcatProperties
<1> QED
    BY <1>3, <1>4 DEF StoreInv, StoreType, StoreConsistent, store

(* Loading a consistent store makes the one in memory consistent. *)
LEMMA LoadKeeps ==
    ASSUME NEW s \in Stores, ClockMatches(s.status, s.since),
           \A d \in Devices : NoRepeats(s.history[d]), Load(s)
    PROVE  /\ StoreType'
           /\ ClockMatches(status', since')
           /\ \A d \in Devices : NoRepeats(history'[d])
<1>1. /\ s.status \in [Devices -> Availabilities \cup {"unknown"}]
      /\ s.since \in [Devices -> Ages \cup {None}]
      /\ s.history \in [Devices -> Rings]
      /\ s.cfg \in [url : BOOLEAN, monitored : SUBSET Devices]
    BY DEF Stores
<1>2. status' = s.status /\ since' = s.since /\ history' = s.history /\ cfg' = s.cfg
    BY DEF Load
<1> QED
    BY <1>1, <1>2 DEF StoreType

LEMMA EndsKeeps == StoreInv /\ (Shutdown \/ Crash) => StoreInv'
<1> SUFFICES ASSUME StoreInv, Shutdown \/ Crash PROVE StoreInv'
    OBVIOUS
<1>1. Load(EmptyStore) /\ link' = <<>>
    BY DEF Shutdown, Crash, Ends
<1>2. /\ StoreType'
      /\ ClockMatches(status', since')
      /\ \A d \in Devices : NoRepeats(history'[d])
    BY <1>1, EmptyStoreInv, LoadKeeps
<1>3. /\ file' \in Stores
      /\ ClockMatches(file'.status, file'.since)
      /\ \A d \in Devices : NoRepeats(file'.history[d])
    <2>1. CASE Shutdown
        <3>1. /\ file'.status = status /\ file'.since = since /\ file'.history = history
              /\ file' = Store
            BY <2>1 DEF Shutdown, Store
        <3>2. Store \in Stores
            BY DEF StoreInv, StoreType, Store, Stores
        <3> QED
            BY <3>1, <3>2 DEF StoreInv, StoreConsistent
    <2>2. CASE Crash
        BY <2>2 DEF Crash, StoreInv, StoreConsistent
    <2> QED
        BY <2>1, <2>2
<1>4. link' \in Seq(Messages)
    BY <1>1
<1> QED
    BY <1>2, <1>3, <1>4 DEF StoreInv, StoreConsistent

LEMMA StartKeeps == StoreInv /\ Start => StoreInv'
<1> SUFFICES ASSUME StoreInv, Start PROVE StoreInv'
    OBVIOUS
<1>1. /\ file \in Stores
      /\ ClockMatches(file.status, file.since)
      /\ \A d \in Devices : NoRepeats(file.history[d])
    BY DEF StoreInv, StoreConsistent
<1>2. Load(file) /\ UNCHANGED <<file, link>>
    BY DEF Start
<1>3. /\ StoreType'
      /\ ClockMatches(status', since')
      /\ \A d \in Devices : NoRepeats(history'[d])
    BY <1>1, <1>2, LoadKeeps
<1> QED
    BY <1>1, <1>2, <1>3 DEF StoreInv, StoreConsistent

LEMMA AdvanceKeeps == StoreInv /\ Advance => StoreInv'
<1> SUFFICES ASSUME StoreInv, Advance PROVE StoreInv'
    OBVIOUS
<1>1. /\ since \in [Devices -> Ages \cup {None}]
      /\ file.since \in [Devices -> Ages \cup {None}]
      /\ file \in Stores
    BY DEF StoreInv, StoreType, Stores
<1>2. /\ since' = Older(since)
      /\ file' = [file EXCEPT !.since = Older(file.since)]
      /\ UNCHANGED <<status, history, cfg, link>>
    BY DEF Advance
<1>3. /\ Older(since) \in [Devices -> Ages \cup {None}]
      /\ \A d \in Devices : Older(since)[d] = None <=> since[d] = None
      /\ Older(file.since) \in [Devices -> Ages \cup {None}]
      /\ \A d \in Devices : Older(file.since)[d] = None <=> file.since[d] = None
    BY <1>1, OlderKeeps
<1>4. /\ file' \in Stores /\ file'.status = file.status
      /\ file'.history = file.history /\ file'.since = Older(file.since)
    BY <1>1, <1>2, <1>3 DEF Stores
<1>5. ClockMatches(status', since') /\ ClockMatches(file'.status, file'.since)
    BY <1>2, <1>3, <1>4 DEF StoreInv, StoreConsistent, ClockMatches
<1>6. \A d \in Devices : NoRepeats(history'[d]) /\ NoRepeats(file'.history[d])
    BY <1>2, <1>4 DEF StoreInv, StoreConsistent
<1> QED
    BY <1>2, <1>3, <1>4, <1>5, <1>6 DEF StoreInv, StoreType, StoreConsistent

(* The configuration is no part of what is consistent; the notifier only   *)
(* reads the store.                                                        *)
LEMMA SetNotificationsKeeps ==
    ASSUME StoreInv, NEW url \in BOOLEAN, NEW monitored \in MonitoredSets,
           SetNotifications(url, monitored)
    PROVE  StoreInv'
BY MonitoredAssumption DEF SetNotifications, StoreInv, StoreType, StoreConsistent

LEMMA NotifierKeeps ==
    ASSUME StoreInv,
           \/ CheckBegins \/ OfflineAlertsDone \/ CheckEnds
           \/ \E d \in Devices : SendOfflineAlert(d) \/ SendBackOnline(d)
    PROVE  StoreInv'
<1>1. UNCHANGED <<store, file, link>>
    BY DEF CheckBegins, OfflineAlertsDone, CheckEnds, SendOfflineAlert, SendBackOnline
<1> QED
    BY <1>1 DEF StoreInv, StoreType, StoreConsistent, store

LEMMA NextKeepsStoreInv == StoreInv /\ [Next]_vars => StoreInv'
<1> SUFFICES ASSUME StoreInv, [Next]_vars PROVE StoreInv'
    OBVIOUS
<1>1. CASE \E d \in Devices : Connects(d) \/ AnnouncesStale(d) \/ Dies(d)
    BY <1>1, DevicesKeep
<1>2. CASE HandleForward
    BY <1>2, HandleForwardKeeps
<1>3. CASE \E url \in BOOLEAN, monitored \in MonitoredSets : SetNotifications(url, monitored)
    BY <1>3, SetNotificationsKeeps
<1>4. CASE \/ CheckBegins \/ OfflineAlertsDone \/ CheckEnds
           \/ \E d \in Devices : SendOfflineAlert(d) \/ SendBackOnline(d)
    BY <1>4, NotifierKeeps
<1>5. CASE Shutdown \/ Crash
    BY <1>5, EndsKeeps
<1>6. CASE Start
    BY <1>6, StartKeeps
<1>7. CASE Advance
    BY <1>7, AdvanceKeeps
<1>8. CASE UNCHANGED vars
    BY <1>8 DEF vars, store, StoreInv, StoreType, StoreConsistent
<1> QED
    BY <1>1, <1>2, <1>3, <1>4, <1>5, <1>6, <1>7, <1>8 DEF Next

(* However messages, shutdowns, crashes and restarts mix, the store in     *)
(* memory and the one in the file have an outage clock exactly for the     *)
(* devices they list as not online and histories without repetitions       *)
(* (update_device_status, insert_availability, save, load).                *)
THEOREM StoreIsConsistent == Spec => []StoreConsistent
<1>1. StoreInv => StoreConsistent
    BY DEF StoreInv
<1> QED
    BY <1>1, InitStoreInv, NextKeepsStoreInv, PTL DEF Spec

-----------------------------------------------------------------------------
(* The clock of an outage is never set back while the process runs and the *)
(* outage lasts (update_device_status).                                    *)
THEOREM OutageClockNeverRestarts == Spec => OutageClockRuns
<1>1. ASSUME StoreInv, [Next]_vars, NEW d \in Devices, up, up',
             since[d] # None, since'[d] # None
      PROVE  since'[d] >= since[d]
    <2>1. since \in [Devices -> Ages \cup {None}] /\ since[d] \in Int
        BY ThresholdAssumption, <1>1 DEF StoreInv, StoreType, Ages, None
    <2>2. CASE UNCHANGED since
        BY <2>1, <2>2
    <2>3. CASE HandleForward
        <3>1. \/ UNCHANGED since
              \/ \E e \in Devices, v \in Availabilities : UpdateDeviceStatus(e, v)
            <4>1. Head(link) \in Messages
                BY <1>1, <2>3, HeadTailProperties DEF StoreInv, HandleForward
            <4> QED
                BY <2>3, <4>1 DEF HandleForward, HandleBoot, HandleAvailability, Messages,
                    Availabilities
        <3>2. ASSUME NEW e \in Devices, NEW v \in Availabilities, UpdateDeviceStatus(e, v)
              PROVE  since'[d] = since[d]
            BY <3>2, <1>1, <2>1 DEF UpdateDeviceStatus, OfflineSince, None, Availabilities
        <3> QED
            BY <3>1, <3>2, <2>1, <2>2
    <2>4. CASE Advance
        BY <2>4, <2>1, <1>1, ThresholdAssumption DEF Advance, Older, Ages, None
    <2>5. CASE Shutdown \/ Crash \/ Start
        BY <2>5, <1>1 DEF Shutdown, Crash, Ends, Start
    <2> QED
        BY <2>2, <2>3, <2>4, <2>5, <1>1
            DEF Next, vars, store, Connects, AnnouncesStale, Dies, Forwards, SetNotifications,
                CheckBegins, OfflineAlertsDone, CheckEnds, SendOfflineAlert, SendBackOnline
<1>2. StoreInv /\ [Next]_vars =>
          [\A d \in Devices :
              up /\ up' /\ since[d] # None /\ since'[d] # None => since'[d] >= since[d]]_vars
    BY <1>1
<1> QED
    BY <1>2, InitStoreInv, NextKeepsStoreInv, PTL DEF Spec, OutageClockRuns

-----------------------------------------------------------------------------
(* What the notifier relies on while it awaits the webhook.  A device whose *)
(* present outage is read or reported is still monitored and still long     *)
(* offline; one whose outage is reported is filed as reported, and was      *)
(* offline when the check that runs began: so it is not among those this    *)
(* check takes for back.                                                    *)
FollowedIsOffline ==
    \A d \in Devices :
        alerted[d] \in {"reading", "yes"} => up /\ d \in Monitored /\ since[d] >= Threshold
ReportedIsFiled == \A d \in Devices : alerted[d] = "yes" => d \in notified
ReportedIsInSnapshot ==
    \A d \in Devices : alerted[d] = "yes" /\ pc \in {"offline", "back"} => d \in snap
CheckPlan ==
    /\ pc \in {"sleep", "offline", "back"}
    /\ pc = "offline" => todo \subseteq snap
    /\ pc = "back" => todo \cap snap = {}
NotifierInv ==
    /\ StoreInv
    /\ alerted \in [Devices -> {"no", "reading", "yes"}]
    /\ FollowedIsOffline
    /\ ReportedIsFiled
    /\ ReportedIsInSnapshot
    /\ CheckPlan

LEMMA InitNotifierInv == Init => NotifierInv
<1> SUFFICES ASSUME Init PROVE NotifierInv
    OBVIOUS
<1>1. StoreInv
    BY InitStoreInv
<1> QED
    BY <1>1 DEF Init, NotifierInv, FollowedIsOffline, ReportedIsFiled, ReportedIsInSnapshot,
        CheckPlan

(* A message ends the outage it follows or leaves its clock alone. *)
LEMMA ForwardKeepsNotifier == NotifierInv /\ HandleForward => NotifierInv'
<1> SUFFICES ASSUME NotifierInv, HandleForward PROVE NotifierInv'
    OBVIOUS
<1>1. StoreInv'
    BY HandleForwardKeeps DEF NotifierInv
<1>2. PICK e \in Devices, v \in Availabilities : UpdateDeviceStatus(e, v)
    <2>1. Head(link) \in Messages
        BY HeadTailProperties DEF NotifierInv, StoreInv, HandleForward
    <2> QED
        BY <2>1 DEF HandleForward, HandleBoot, HandleAvailability, Messages, Availabilities
<1>3. /\ since' = [since EXCEPT ![e] = OfflineSince(since[e], v)]
      /\ alerted' = [alerted EXCEPT ![e] = IF v = "online" THEN "no" ELSE alerted[e]]
    BY <1>2 DEF UpdateDeviceStatus
<1>4. UNCHANGED <<up, cfg, pc, snap, todo, notified>>
    BY DEF HandleForward, notifier
<1>5. /\ since \in [Devices -> Ages \cup {None}]
      /\ alerted \in [Devices -> {"no", "reading", "yes"}]
    BY DEF NotifierInv, StoreInv, StoreType
<1>6. \A d \in Devices : /\ alerted'[d] \in {"no", alerted[d]}
                         /\ alerted'[d] # "no" => since'[d] = since[d] \/ since[d] = None
    BY <1>3, <1>5 DEF OfflineSince
<1>7. FollowedIsOffline'
    <2>1. \A d \in Devices : since[d] >= Threshold => since[d] # None
        BY <1>5, ThresholdAssumption DEF Ages, None
    <2>2. Monitored' = Monitored
        BY <1>4 DEF Monitored, MonitoredBy
    <2> QED
        BY <1>4, <1>5, <1>6, <2>1, <2>2 DEF NotifierInv, FollowedIsOffline
<1>8. alerted' \in [Devices -> {"no", "reading", "yes"}]
    BY <1>3, <1>5
<1> QED
    BY <1>1, <1>4, <1>5, <1>6, <1>7, <1>8
        DEF NotifierInv, ReportedIsFiled, ReportedIsInSnapshot, CheckPlan

(* A check that begins finds the device of every reported outage again. *)
LEMMA CheckBeginsKeepsNotifier == NotifierInv /\ CheckBegins => NotifierInv'
<1> SUFFICES ASSUME NotifierInv, CheckBegins PROVE NotifierInv'
    OBVIOUS
<1>1. StoreInv'
    BY NotifierKeeps DEF NotifierInv
<1>2. /\ up /\ up' /\ pc' = "offline" /\ snap' = LongOffline
      /\ todo' = LongOffline \ notified
      /\ UNCHANGED <<status, since, history, cfg, notified>>
      /\ alerted' = [d \in Devices |->
                        IF d \in todo' /\ alerted[d] = "no" THEN "reading" ELSE alerted[d]]
    BY DEF CheckBegins, store
<1>3. alerted \in [Devices -> {"no", "reading", "yes"}] /\ Monitored' = Monitored
    BY <1>2 DEF NotifierInv, Monitored, MonitoredBy
<1>4. \A d \in Devices :
          alerted'[d] \in {"reading", "yes"} => d \in Monitored /\ since[d] >= Threshold
    BY <1>2, <1>3 DEF NotifierInv, FollowedIsOffline, LongOffline
<1>5. \A d \in Devices : alerted'[d] = "yes" <=> alerted[d] = "yes"
    BY <1>2, <1>3
<1>6. \A d \in Devices : alerted[d] = "yes" => d \in LongOffline
    BY DEF NotifierInv, FollowedIsOffline, LongOffline
<1>7. alerted' \in [Devices -> {"no", "reading", "yes"}]
    BY <1>2, <1>3
<1> QED
    BY <1>1, <1>2, <1>3, <1>4, <1>5, <1>6, <1>7
        DEF NotifierInv, FollowedIsOffline, ReportedIsFiled, ReportedIsInSnapshot, CheckPlan

LEMMA OfflineAlertKeepsNotifier ==
    ASSUME NotifierInv, NEW d \in Devices, SendOfflineAlert(d)
    PROVE  NotifierInv'
<1>1. StoreInv'
    BY NotifierKeeps DEF NotifierInv
<1>2. /\ pc = "offline" /\ d \in todo /\ todo' = todo \ {d}
      /\ UNCHANGED <<up, status, since, history, cfg, pc, snap>>
    BY DEF SendOfflineAlert, OfflineAlertAnswered, store
<1>3. alerted \in [Devices -> {"no", "reading", "yes"}] /\ Monitored' = Monitored
    BY <1>2 DEF NotifierInv, Monitored, MonitoredBy
<1>4. \/ /\ notified' = notified \cup {d}
         /\ alerted' = [alerted EXCEPT ![d] = IF alerted[d] = "reading" THEN "yes" ELSE alerted[d]]
      \/ UNCHANGED <<notified, alerted>>
    BY DEF SendOfflineAlert, OfflineAlertAnswered
<1>5. d \in snap
    BY <1>2 DEF NotifierInv, CheckPlan
<1>6. alerted' \in [Devices -> {"no", "reading", "yes"}]
    BY <1>3, <1>4
<1>7. \A e \in Devices : /\ e # d => alerted'[e] = alerted[e]
                         /\ alerted'[e] = "no" <=> alerted[e] = "no"
    BY <1>3, <1>4
<1>8. FollowedIsOffline'
    BY <1>2, <1>3, <1>6, <1>7 DEF NotifierInv, FollowedIsOffline
<1>9. ReportedIsFiled'
    BY <1>3, <1>4 DEF NotifierInv, ReportedIsFiled
<1> QED
    BY <1>1, <1>2, <1>3, <1>5, <1>6, <1>7, <1>8, <1>9
        DEF NotifierInv, ReportedIsInSnapshot, CheckPlan

(* A device that is told to be back is in no present outage that was told. *)
LEMMA BackIsBack ==
    ASSUME NotifierInv, NEW d \in Devices, SendBackOnline(d)
    PROVE  alerted[d] # "yes"
<1>1. pc = "back" /\ d \in todo
    BY DEF SendBackOnline
<1> QED
    BY <1>1 DEF NotifierInv, CheckPlan, ReportedIsInSnapshot

LEMMA BackOnlineKeepsNotifier ==
    ASSUME NotifierInv, NEW d \in Devices, SendBackOnline(d)
    PROVE  NotifierInv'
<1>1. StoreInv'
    BY NotifierKeeps DEF NotifierInv
<1>2. /\ todo' = todo \ {d} /\ notified' = notified \ {d}
      /\ UNCHANGED <<up, status, since, history, cfg, pc, snap, alerted>>
    BY DEF SendBackOnline, store
<1>3. Monitored' = Monitored
    BY <1>2 DEF Monitored, MonitoredBy
<1> QED
    BY <1>1, <1>2, <1>3, BackIsBack
        DEF NotifierInv, FollowedIsOffline, ReportedIsFiled, ReportedIsInSnapshot, CheckPlan

(* The steps between the alerts, and those that leave the notifier alone.  *)
LEMMA CheckGoesOnKeepsNotifier ==
    NotifierInv /\ (OfflineAlertsDone \/ CheckEnds) => NotifierInv'
<1> SUFFICES ASSUME NotifierInv, OfflineAlertsDone \/ CheckEnds PROVE NotifierInv'
    OBVIOUS
<1>1. StoreInv'
    BY NotifierKeeps DEF NotifierInv
<1>2. UNCHANGED <<up, status, since, history, cfg, notified, alerted>>
    BY DEF OfflineAlertsDone, CheckEnds, store
<1>3. \/ pc = "offline" /\ pc' = "back" /\ todo' = notified \ snap /\ snap' = snap
      \/ pc' = "sleep"
    BY DEF OfflineAlertsDone, CheckEnds, Recovered
<1>4. Monitored' = Monitored
    BY <1>2 DEF Monitored, MonitoredBy
<1> QED
    BY <1>1, <1>2, <1>3, <1>4
        DEF NotifierInv, FollowedIsOffline, ReportedIsFiled, ReportedIsInSnapshot, CheckPlan

LEMMA SetNotificationsKeepsNotifier ==
    ASSUME NotifierInv, NEW url \in BOOLEAN, NEW monitored \in MonitoredSets,
           SetNotifications(url, monitored)
    PROVE  NotifierInv'
<1>1. StoreInv'
    BY SetNotificationsKeeps DEF NotifierInv
<1>2. /\ UNCHANGED <<up, since, pc, snap, todo, notified>>
      /\ alerted' = [d \in Devices |-> IF d \in Monitored' THEN alerted[d] ELSE "no"]
    BY DEF SetNotifications, notifier, Monitored
<1>3. alerted \in [Devices -> {"no", "reading", "yes"}]
    BY DEF NotifierInv
<1>4. /\ alerted' \in [Devices -> {"no", "reading", "yes"}]
      /\ \A d \in Devices : alerted'[d] # "no" => d \in Monitored' /\ alerted'[d] = alerted[d]
    BY <1>2, <1>3
<1> QED
    BY <1>1, <1>2, <1>3, <1>4
        DEF NotifierInv, FollowedIsOffline, ReportedIsFiled, ReportedIsInSnapshot, CheckPlan

LEMMA AdvanceKeepsNotifier == NotifierInv /\ Advance => NotifierInv'
<1> SUFFICES ASSUME NotifierInv, Advance PROVE NotifierInv'
    OBVIOUS
<1>1. StoreInv'
    BY AdvanceKeeps DEF NotifierInv
<1>2. UNCHANGED <<up, cfg, pc, snap, todo, notified, alerted>> /\ since' = Older(since)
    BY DEF Advance, notifier
<1>3. Monitored' = Monitored
    BY <1>2 DEF Monitored, MonitoredBy
<1>4. since \in [Devices -> Ages \cup {None}]
    BY DEF NotifierInv, StoreInv, StoreType
<1>5. \A d \in Devices : since[d] >= Threshold => since'[d] >= Threshold
    BY <1>2, <1>4, ThresholdAssumption DEF Older, Ages, None
<1> QED
    BY <1>1, <1>2, <1>3, <1>5
        DEF NotifierInv, FollowedIsOffline, ReportedIsFiled, ReportedIsInSnapshot, CheckPlan

LEMMA ProcessKeepsNotifier == NotifierInv /\ (Shutdown \/ Crash \/ Start) => NotifierInv'
<1> SUFFICES ASSUME NotifierInv, Shutdown \/ Crash \/ Start PROVE NotifierInv'
    OBVIOUS
<1>1. StoreInv'
    BY EndsKeeps, StartKeeps DEF NotifierInv
<1>2. CASE Shutdown \/ Crash
    BY <1>1, <1>2 DEF Shutdown, Crash, Ends, NotifierInv, FollowedIsOffline, ReportedIsFiled,
        ReportedIsInSnapshot, CheckPlan
<1>3. CASE Start
    <2>1. ~up /\ UNCHANGED <<pc, snap, todo, notified, alerted>>
        BY <1>3 DEF Start, notifier
    <2>2. \A d \in Devices : alerted[d] = "no"
        BY <2>1 DEF NotifierInv, FollowedIsOffline
    <2> QED
        BY <1>1, <2>1, <2>2 DEF NotifierInv, FollowedIsOffline, ReportedIsFiled,
            ReportedIsInSnapshot, CheckPlan
<1> QED
    BY <1>2, <1>3

LEMMA DevicesKeepNotifier ==
    ASSUME NotifierInv, NEW d \in Devices, Connects(d) \/ AnnouncesStale(d) \/ Dies(d)
    PROVE  NotifierInv'
<1>1. StoreInv'
    BY DevicesKeep DEF NotifierInv
<1>2. UNCHANGED <<up, since, cfg, pc, snap, todo, notified, alerted>>
    BY DEF Connects, AnnouncesStale, Dies, Forwards, store, notifier
<1> QED
    BY <1>1, <1>2 DEF NotifierInv, FollowedIsOffline, ReportedIsFiled, ReportedIsInSnapshot,
        CheckPlan, Monitored, MonitoredBy

LEMMA NextKeepsNotifierInv == NotifierInv /\ [Next]_vars => NotifierInv'
<1> SUFFICES ASSUME NotifierInv, [Next]_vars PROVE NotifierInv'
    OBVIOUS
<1>1. CASE \E d \in Devices : Connects(d) \/ AnnouncesStale(d) \/ Dies(d)
    BY <1>1, DevicesKeepNotifier
<1>2. CASE HandleForward
    BY <1>2, ForwardKeepsNotifier
<1>3. CASE \E url \in BOOLEAN, monitored \in MonitoredSets : SetNotifications(url, monitored)
    BY <1>3, SetNotificationsKeepsNotifier
<1>4. CASE CheckBegins
    BY <1>4, CheckBeginsKeepsNotifier
<1>5. CASE OfflineAlertsDone \/ CheckEnds
    BY <1>5, CheckGoesOnKeepsNotifier
<1>6. CASE \E d \in Devices : SendOfflineAlert(d) \/ SendBackOnline(d)
    BY <1>6, OfflineAlertKeepsNotifier, BackOnlineKeepsNotifier
<1>7. CASE Shutdown \/ Crash \/ Start
    BY <1>7, ProcessKeepsNotifier
<1>8. CASE Advance
    BY <1>8, AdvanceKeepsNotifier
<1>9. CASE UNCHANGED vars
    BY <1>9 DEF vars, store, notifier, NotifierInv, StoreInv, StoreType, StoreConsistent,
        FollowedIsOffline, ReportedIsFiled, ReportedIsInSnapshot, CheckPlan, Monitored,
        MonitoredBy
<1> QED
    BY <1>1, <1>2, <1>3, <1>4, <1>5, <1>6, <1>7, <1>8, <1>9 DEF Next

(* However devices come and go, the configuration changes, requests fail   *)
(* and the process restarts while the notifier awaits between what it read *)
(* and what it sends, an outage is told once and its end only when it is   *)
(* over (check).                                                           *)
THEOREM AlertsAreCorrect == Spec => AlertsAreTrue
<1>1. ASSUME NotifierInv, [Next]_vars, NEW d \in notified' \ notified
      PROVE  alerted[d] # "yes"
    <2>1. CASE \E e \in Devices : SendOfflineAlert(e)
        BY <2>1, <1>1 DEF NotifierInv, ReportedIsFiled, SendOfflineAlert, OfflineAlertAnswered
    <2> QED
        BY <2>1, <1>1 DEF Next, vars, notifier, Connects, AnnouncesStale, Dies, Forwards,
            HandleForward, SetNotifications, CheckBegins, OfflineAlertsDone, CheckEnds,
            SendBackOnline, Shutdown, Crash, Ends, Start, Advance
<1>2. ASSUME NotifierInv, [Next]_vars, NEW d \in Devices, told[d] = "offline",
             told'[d] = "online"
      PROVE  alerted[d] # "yes"
    <2>1. told' # told
        BY <1>2
    <2>2. CASE \E e \in Devices : SendOfflineAlert(e)
        <3>1. PICK e \in Devices : told' = [told EXCEPT ![e] = "offline"]
            BY <2>1, <2>2 DEF SendOfflineAlert, OfflineAlertAnswered
        <3> QED
            BY <3>1, <1>2
    <2>3. CASE \E e \in Devices : SendBackOnline(e)
        <3>1. PICK e \in Devices : SendBackOnline(e)
            BY <2>3
        <3>2. told' = [told EXCEPT ![e] = "online"]
            BY <2>1, <3>1 DEF SendBackOnline
        <3>3. e = d
            BY <3>2, <1>2
        <3> QED
            BY <3>1, <3>3, <1>2, BackIsBack
    <2> QED
        BY <2>1, <2>2, <2>3, <1>2 DEF Next, vars, Connects, AnnouncesStale, Dies, Forwards,
            HandleForward, SetNotifications, CheckBegins, OfflineAlertsDone, CheckEnds,
            Shutdown, Crash, Ends, Start, Advance
<1>3. NotifierInv /\ [Next]_vars => [ReportedOnce /\ ReturnIsTrue]_vars
    BY <1>1, <1>2 DEF ReportedOnce, ReturnIsTrue
<1> QED
    BY <1>3, InitNotifierInv, NextKeepsNotifierInv, PTL DEF Spec, AlertsAreTrue
=============================================================================
