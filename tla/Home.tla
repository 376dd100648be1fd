-------------------------------- MODULE Home --------------------------------
(***************************************************************************)
(* The server between the device, the web page and Google Home: the bridge *)
(* files state reports and entries in rings, the handlers of the web page  *)
(* and of Google read them, and what Google asks for goes through the      *)
(* command channel and the broker to the device, which parses it like any  *)
(* other command (Vocabulary).                                             *)
(*                                                                         *)
(* Every read of the store is under its lock and changes nothing, so the   *)
(* answers are operators over the state.  Times are ages: the age of the   *)
(* newest sample, 1 for TEMP_SAMPLE_MIN_INTERVAL_SECS or more.  A Google   *)
(* id is the part after the device id.  The server is configured for the   *)
(* scale of the spa.                                                       *)
(***************************************************************************)
EXTENDS Vocabulary, SequencesExt

CONSTANTS
    Fields,         \* the fields of COMPONENT_FIELDS the spa has, in that order
    EventCap,       \* MAX_COMPONENT_ENTRIES (10000)
    SampleCap,      \* MAX_TEMPERATURE_ENTRIES (50000)
    EntryTopics,    \* the topics of entries that are looked at
    EntryCap,       \* MAX_*_ENTRIES of the other rings (200 to 1000)
    Limits,         \* limits of the page's requests
    InitialSpas,    \* spas, with their scale and the range of their target
    WaterTemps,     \* per scale, temperatures a spa may report
    Setpoints,      \* targets a Google user asks for, in Celsius
    Configs,        \* accessory configurations a user sends
    PipeCap,        \* bound on messages on their way
    Operated,       \* Google ids the users operate
    MaxOps          \* bound on changes at the spa, entries and requests

COMPONENT_FIELDS ==
    <<<<"is_heating">>>> \o [i \in 1 .. 6 |-> Name("pump", i)]
      \o <<<<"circ_pump">>, <<"blower">>>> \o [i \in 1 .. 4 |-> Name("light", i)] \o <<<<"mister">>>>
Components == ToSet(Fields)

ASSUME FieldsAssumption == Fields \in Seq(ToSet(COMPONENT_FIELDS))
ASSUME TopicsAssumption == EntryTopics \subseteq {"log", "diagnostics", "alert", "sniff"}
ASSUME RingAssumption ==
    /\ EventCap \in Nat /\ EventCap > Len(Fields) /\ SampleCap \in Nat \ {0}
    /\ EntryCap \in Nat \ {0} /\ Limits \subseteq Nat
(* A spa reports its temperature in a byte of half or whole degrees. *)
ASSUME SpaAssumption ==
    /\ InitialSpas \subseteq [on : [Components -> BOOLEAN], temp : Int, set : Int, scale : Scales,
                              range : {"High", "Low"}]
    /\ \A s \in InitialSpas : s.temp % (Unit \div 2) = 0
    /\ \A scale \in Scales : \A t \in WaterTemps[scale] : t \in Int /\ t % (Unit \div 2) = 0
ASSUME UserAssumption ==
    /\ Setpoints \subseteq Int
    /\ Configs \subseteq [pumps : Int, lights : Int, blower : BOOLEAN, mister : BOOLEAN]

UnknownTemp == -1000
NoSetpoint == -1

VARIABLES
    spa,            \* what the spa is: its on components, temp and set; scale, range
    link,           \* messages the broker has for the bridge
    samples,        \* MemoryStore.temperatures
    age,            \* of the newest sample
    events,         \* MemoryStore.component_events
    rings,          \* MemoryStore.logs, diagnostics, alerts and sniff_frames
    config,         \* MemoryStore.accessory_config
    channel,        \* MQTT_CMD_CHANNEL
    toDevice,       \* commands the broker has for the device
    reported,       \* the report the bridge handled last
    entries,        \* entries sent, per topic
    cleared,        \* entries sent when the ring was cleared
    asked,          \* the target asked for last, NoSetpoint once it is lost or refused
    ops             \* changes at the spa, entries and requests so far

store == <<samples, age, events, rings, config>>
vars == <<spa, link, store, channel, toDevice, reported, entries, cleared, asked, ops>>

Init ==
    /\ spa \in InitialSpas
    /\ link = <<>> /\ channel = <<>> /\ toDevice = <<>>
    /\ samples = <<>> /\ age = 0 /\ events = <<>>
    /\ rings = [t \in EntryTopics |-> <<>>]
    /\ config = [pumps |-> 2, lights |-> 1, blower |-> TRUE, mister |-> FALSE]
    /\ reported = NothingYet
    /\ entries = [t \in EntryTopics |-> 0] /\ cleared = entries
    /\ asked = NoSetpoint
    /\ ops = 0

-----------------------------------------------------------------------------
(* The store. *)
PushCapped(ring, item, cap) ==
    Append(IF Len(ring) >= cap THEN Tail(ring) ELSE ring, item)

(* recent, and the reversal of its callers. *)
RecentEntries(ring, limit) ==
    Reverse(SubSeq(ring, IF Len(ring) > limit THEN Len(ring) - limit + 1 ELSE 1, Len(ring)))

(* The rings of entries: how one is filed, and what is shown of a ring. *)
FileEntry(ring, entry) == PushCapped(ring, entry, EntryCap)
PageEntries(t, limit) == RecentEntries(rings[t], limit)

(* insert_temperature_sample: a value that differs by TEMP_MIN_DELTA, a    *)
(* target that differs, or a sample old enough to be followed by another.  *)
TempMinDelta == 400
SampleChanged(last, temp, set) ==
    \/ temp # UnknownTemp
         /\ (last.temp = UnknownTemp \/ temp - last.temp \notin 1 - TempMinDelta .. TempMinDelta - 1)
    \/ set # last.set
InsertTemperatureSample(temp, set) ==
    IF samples = <<>> \/ age >= 1 \/ SampleChanged(samples[Len(samples)], temp, set)
    THEN /\ samples' = PushCapped(samples, [temp |-> temp, set |-> set], SampleCap)
         /\ age' = 0
    ELSE UNCHANGED <<samples, age>>

(* The state of a component by its last event, if the ring has one: what   *)
(* insert_component_changes compares with and Google is answered.          *)
EventsOf(ring, c) == {i \in DOMAIN ring : ring[i].component = c}
FirstState(ring, c, default) ==
    IF EventsOf(ring, c) = {} THEN default ELSE ring[Min(EventsOf(ring, c))].state
LastState(ring, c, default) ==
    IF EventsOf(ring, c) = {} THEN default ELSE ring[Max(EventsOf(ring, c))].state

(* insert_component_changes goes through the fields in order; each event   *)
(* it adds may push the oldest one out.                                    *)
AddIfReportDiffers(ring, c, on) ==
    IF reported # NothingYet /\ reported.on[c] = on THEN ring
    ELSE PushCapped(ring, [component |-> c, state |-> on], EventCap)
AddIfChanged(ring, c, on) ==
    IF LastState(ring, c, ~on) = on THEN ring
    ELSE PushCapped(ring, [component |-> c, state |-> on], EventCap)
ChangesOfFields(ring, on) ==
    LET after[k \in 0 .. Len(Fields)] ==
            IF k = 0 THEN ring
            ELSE CHOOSE added \in {AddIfChanged(r, Fields[k], on[Fields[k]]) : r \in {after[k - 1]}} :
                     TRUE
    IN  after
InsertComponentChanges(ring, on) == ChangesOfFields(ring, on)[Len(Fields)]

-----------------------------------------------------------------------------
(* The spa and the device. *)
Operation == ops < MaxOps /\ ops' = ops + 1
Sends(m) == Len(link) < PipeCap /\ link' = Append(link, m)

(* Someone at the panel, or the spa itself. *)
ComponentChanges(c) ==
    /\ Operation
    /\ spa' = [spa EXCEPT !.on[c] = ~@]
    /\ UNCHANGED <<link, store, channel, toDevice, reported, entries, cleared, asked>>
WaterChanges(t) ==
    /\ Operation
    /\ spa' = [spa EXCEPT !.temp = t]
    /\ UNCHANGED <<link, store, channel, toDevice, reported, entries, cleared, asked>>

(* status_to_json on the state topic. *)
DocumentKeepsTarget ==
    [topic |-> "state", temp |-> spa.temp, on |-> spa.on,
     set |-> IF reported = NothingYet THEN spa.set ELSE reported.set]
Document == [topic |-> "state", temp |-> spa.temp, set |-> spa.set, on |-> spa.on]
ReportState ==
    /\ Sends(Document)
    /\ UNCHANGED <<spa, store, channel, toDevice, reported, entries, cleared, asked, ops>>

SendEntry(t) ==
    /\ Operation
    /\ entries' = [entries EXCEPT ![t] = @ + 1]
    /\ Sends([topic |-> t, entry |-> entries[t] + 1])
    /\ UNCHANGED <<spa, store, channel, toDevice, reported, cleared, asked>>

-----------------------------------------------------------------------------
(* The bridge. *)
HandleState(m) ==
    /\ m.topic = "state"
    /\ InsertTemperatureSample(m.temp, m.set)
    /\ \E filed \in {InsertComponentChanges(events, m.on)} : events' = filed
    /\ reported' = m
    /\ UNCHANGED rings

(* handle_log and the insertion of diagnostics, an alert or a frame. *)
HandleEntry(m) ==
    /\ m.topic \in EntryTopics
    /\ rings' = [rings EXCEPT ![m.topic] = FileEntry(@, m.entry)]
    /\ UNCHANGED <<samples, age, events, reported>>

HandleForward ==
    /\ link # <<>>
    /\ HandleState(Head(link)) \/ HandleEntry(Head(link))
    /\ link' = Tail(link)
    /\ UNCHANGED <<spa, config, channel, toDevice, entries, cleared, asked, ops>>

-----------------------------------------------------------------------------
(* The web page. *)
(* clear_logs and its like; entries on their way are filed afterwards. *)
ClearRing(t) ==
    /\ rings[t] # <<>>
    /\ Operation
    /\ rings' = [rings EXCEPT ![t] = <<>>]
    /\ cleared' = [cleared EXCEPT ![t] = Last(rings[t])]
    /\ UNCHANGED <<spa, link, samples, age, events, config, channel, toDevice, reported,
                   entries, asked>>

Clamp(n, low, high) == IF n < low THEN low ELSE IF n > high THEN high ELSE n
SetConfig(c) ==
    /\ Operation
    /\ config' = [c EXCEPT !.pumps = Clamp(@, 1, 6), !.lights = Clamp(@, 1, 4)]
    /\ UNCHANGED <<spa, link, samples, age, events, rings, channel, toDevice, reported,
                   entries, cleared, asked>>

-----------------------------------------------------------------------------
(* Google Home. *)
(* sync_response: the ids that are offered. *)
Sync(c) ==
    {<<"thermostat">>, <<"circ_pump">>}
      \cup {Name("pump", i) : i \in 1 .. c.pumps} \cup {Name("light", i) : i \in 1 .. c.lights}
      \cup {<<x>> : x \in {y \in {"blower", "mister"} : c[y]}}

(* parse_google_device_id *)
DeviceType(id) == id[1]
IsSwitch(id) == DeviceType(id) \in {"pump", "light", "blower", "mister", "circ_pump"}

FirstOfItsKind(id) == IF Len(id) = 2 THEN Name(id[1], 1) ELSE id
(* query_handler: the component a switch stands for, the answer for it and *)
(* the answer for the thermostat, in tenths of a degree Celsius.           *)
QueryComponent(id) == id
QueryOn(id) == LastState(events, QueryComponent(id), FALSE)

Tenths(v) == (v + Unit \div 20) \div (Unit \div 10)
InCelsius(v) ==
    IF v = UnknownTemp THEN 0
    ELSE IF spa.scale = "Celsius" THEN v ELSE ((v - 32 * Unit) * 5) \div 9
QueryThermostat ==
    IF samples = <<>> THEN [status |-> "OFFLINE"]
    ELSE [status |-> "SUCCESS", ambient |-> Tenths(InCelsius(Last(samples).temp)),
          setpoint |-> Tenths(InCelsius(Last(samples).set))]

(* execute_command.  A target is rounded to a whole degree of the spa.     *)
RoundDegree(v) == (v + Unit \div 2) \div Unit
SetpointPayload(v) ==
    Number(Unit * RoundDegree(IF spa.scale = "Celsius" THEN v ELSE (v * 9) \div 5 + 32 * Unit))
TopicSuffix(id) == IF DeviceType(id) = "circ_pump" THEN <<"circulation_pump">> ELSE id

Execution(id, sub, payload) == [id |-> id, sub |-> sub, payload |-> payload]
SetpointExecution(id, v) == Execution(id, <<"set_temperature">>, SetpointPayload(v))
ModeExecution(id, mode) ==
    Execution(id, <<"heat_mode">>, Word(IF mode = "off" THEN "rest" ELSE "ready"))
OnOffExecution(id, on) == Execution(id, TopicSuffix(id), Word(IF on THEN "true" ELSE "false"))

(* publish_mqtt_command *)
Executes(x) ==
    /\ Operation
    /\ Len(channel) < PipeCap
    /\ channel' = Append(channel, x)
    /\ UNCHANGED <<spa, link, store, toDevice, reported, entries, cleared>>
ExecuteSetpoint(id, v) ==
    DeviceType(id) = "thermostat" /\ Executes(SetpointExecution(id, v)) /\ asked' = v
ExecuteMode(id, mode) ==
    DeviceType(id) = "thermostat" /\ Executes(ModeExecution(id, mode)) /\ UNCHANGED asked
ExecuteOnOff(id, on) ==
    IsSwitch(id) /\ Executes(OnOffExecution(id, on)) /\ UNCHANGED asked

Forgets(x) == asked' = IF x.sub = <<"set_temperature">> THEN NoSetpoint ELSE asked

(* The thread gh-mqtt-pub.  A command the broker does not take is lost. *)
PublishHead ==
    /\ channel' = Tail(channel)
    /\ \/ /\ Len(toDevice) < PipeCap
          /\ toDevice' = Append(toDevice, Head(channel))
          /\ UNCHANGED asked
       \/ UNCHANGED toDevice /\ Forgets(Head(channel))
Publish ==
    /\ channel # <<>>
    /\ PublishHead
    /\ UNCHANGED <<spa, link, store, reported, entries, cleared, ops>>

(* The device, and the spa it commands: a toggle of one of the spa's       *)
(* components, a target.  Others change nothing the server is told.        *)
ComponentOfItem(item) ==
    CASE item \in Pumps -> Name("pump", item)
      [] item = Blower -> <<"blower">>
      [] item \in Lights -> Name("light", item - 7)
      [] OTHER -> <<"none">>
SpaDoes(bytes) ==
    CASE bytes[1] = 17 /\ ComponentOfItem(ItemOfCode(bytes[2])) \in Components ->
            [spa EXCEPT !.on[ComponentOfItem(ItemOfCode(bytes[2]))] = ~@]
      [] bytes[1] = 32 -> [spa EXCEPT !.set = FromWire(bytes[2], spa.scale).value]
      [] OTHER -> spa
DeviceTakes ==
    /\ toDevice # <<>>
    /\ toDevice' = Tail(toDevice)
    /\ \E r \in {ClientAccepts(Head(toDevice).sub, Head(toDevice).payload,
                               [msg |-> "status", scale |-> spa.scale, range |-> spa.range])} :
          IF r.result = "Valid"
          THEN spa' = SpaDoes(EncodeCommand(r.cmd)) /\ UNCHANGED asked
          ELSE UNCHANGED spa /\ Forgets(Head(toDevice))
    /\ UNCHANGED <<link, store, channel, reported, entries, cleared, ops>>

(* Half a minute passes. *)
Advance ==
    /\ samples # <<>> /\ age = 0 /\ age' = 1
    /\ UNCHANGED <<spa, link, samples, events, rings, config, channel, toDevice, reported,
                   entries, cleared, asked, ops>>

Next ==
    \/ \E c \in Components : ComponentChanges(c)
    \/ \E t \in WaterTemps[spa.scale] \cup {UnknownTemp} : WaterChanges(t)
    \/ ReportState \/ HandleForward \/ Advance
    \/ \E t \in EntryTopics : SendEntry(t) \/ ClearRing(t)
    \/ \E c \in Configs : SetConfig(c)
    \/ \E id \in Operated \cap Sync(config) :
          \/ \E v \in Setpoints : ExecuteSetpoint(id, v)
          \/ \E mode \in {"heat", "off"} : ExecuteMode(id, mode)
          \/ \E on \in BOOLEAN : ExecuteOnOff(id, on)
    \/ Publish \/ DeviceTakes

(* The device reports periodically; the bridge and the publisher are       *)
(* threads of their own.                                                   *)
Spec ==
    /\ Init /\ [][Next]_vars
    /\ WF_vars(ReportState) /\ WF_vars(HandleForward)
    /\ WF_vars(Publish) /\ WF_vars(DeviceTakes)

-----------------------------------------------------------------------------
(* A component that is answered wrongly after a report is answered rightly *)
(* after the next one: the event of a component that does not change can   *)
(* be pushed out of the ring by changes of others, and the next report     *)
(* must file it again (insert_component_changes, query_handler).           *)
Wrong(c) == reported # NothingYet /\ QueryOn(c) # reported.on[c]
MissedEventIsMended ==
    [][HandleForward /\ reported' # reported => \A c \in Components : Wrong(c) => ~Wrong(c)']_vars

(* A component whose last report said off is never answered on, whatever   *)
(* was pushed out of the ring (get_latest_component_state).                *)
NeverFalselyOn == \A c \in Components : Wrong(c) => reported.on[c]

(* The thermostat is answered with the temperature and the target of the   *)
(* last report, unless that report did not know the temperature, though    *)
(* samples that differ too little are not filed                            *)
(* (insert_temperature_sample, query_handler).                             *)
ThermostatIsCurrent ==
    reported # NothingYet =>
        /\ QueryThermostat.status = "SUCCESS"
        /\ QueryThermostat.setpoint = Tenths(InCelsius(reported.set))
        /\ reported.temp # UnknownTemp =>
              QueryThermostat.ambient = Tenths(InCelsius(reported.temp))

(* The page is shown the newest entries that were filed since the ring was *)
(* cleared, without a gap, newest first, as many as it asks for and the    *)
(* ring holds (recent, push_capped and the clear_ functions).              *)
Filed(t) ==
    entries[t] - Cardinality({i \in DOMAIN link : link[i].topic = t})
PageShowsNewest ==
    \A t \in EntryTopics, limit \in Limits :
        LET shown == PageEntries(t, limit)
            kept == Min({limit, EntryCap, Filed(t) - cleared[t]})
        IN  shown = [i \in 1 .. kept |-> Filed(t) - i + 1]

(* Everything offered to Google is of use: a switch stands for a component *)
(* of the reports and each of its commands is one the device accepts       *)
(* (sync_response, query_handler, execute_command, parse_command).         *)
OfferedIsUnderstood ==
    \A id \in Sync(config) :
        \/ DeviceType(id) = "thermostat"
        \/ /\ IsSwitch(id)
           /\ QueryComponent(id) \in ToSet(COMPONENT_FIELDS)
           /\ \A on \in BOOLEAN :
                 LET x == OnOffExecution(id, on) IN ParseCommand(x.sub, x.payload).result = "Valid"

(* A command of Google changes at most the component its answer is about,  *)
(* and a target no component at all (execute_command, query_handler).      *)
TogglesItsOwn ==
    [][DeviceTakes =>
          \A c \in Components :
              spa'.on[c] # spa.on[c] =>
                  IsSwitch(Head(toDevice).id) /\ QueryComponent(Head(toDevice).id) = c]_vars

(* A target that was not lost or refused is, once it is reported, answered *)
(* to within the half degree it is rounded by, in the order it was asked   *)
(* for (execute_command, query_handler).                                   *)
Close(tenths, v) == tenths * (Unit \div 10) - v \in -(Unit \div 2) - 50 .. Unit \div 2 + 50
ShowsAsked ==
    QueryThermostat.status = "SUCCESS" /\ Close(QueryThermostat.setpoint, asked)
SetpointSettles ==
    asked # NoSetpoint /\ channel = <<>> /\ toDevice = <<>> /\ reported # NothingYet
        /\ reported.set = spa.set => ShowsAsked

(* A target is in the end shown, lost, refused or replaced (publish        *)
(* thread, bridge).                                                        *)
SetpointShown == \A v \in Setpoints : asked = v ~> (asked # v \/ ShowsAsked)

(* Google and the page are served from what the device reported, though    *)
(* the rings push out what is still asked for, and whatever Google is      *)
(* offered has its effect (query_handler, sync_response, recent).          *)
HomeInv ==
    /\ NeverFalselyOn
    /\ ThermostatIsCurrent
    /\ PageShowsNewest
    /\ OfferedIsUnderstood
    /\ SetpointSettles
=============================================================================
