----------------------------- MODULE Vocabulary -----------------------------
(***************************************************************************)
(* The words of the device on MQTT: the sub-topics of the command topic    *)
(* and what is accepted on them, the fields of the state document, and the *)
(* entities announced to Home Assistant.                                   *)
(*                                                                         *)
(* A text is kept by what it says: a number (in thousandths), a time, a    *)
(* preference, or another word.                                            *)
(***************************************************************************)
EXTENDS Payloads

Number(v) == [is |-> "number", v |-> v]
Word(w) == [is |-> "word", w |-> w]
Time(h, m) == [is |-> "time", h |-> h, m |-> m, is24h |-> FALSE]
JsonTime(h, m, is24h) == [is |-> "time", h |-> h, m |-> m, is24h |-> is24h]
NamedPreference(code, v) == [is |-> "preference", code |-> code, v |-> v]
FrameCount(n) == [is |-> "frames", n |-> n]
Empty == [is |-> "empty"]

(* Option::None where a status, an answer or a document is expected. *)
NothingYet == [msg |-> "none"]

-----------------------------------------------------------------------------
(* ToggleItem::code, by the sub-topic that toggles the item. *)
Name(prefix, i) == <<prefix, i>>
PlainCode ==
    [blower |-> 12, mister |-> 14, circulation_pump |-> 61, heat_mode |-> 81, temp_range |-> 80,
     hold_mode |-> 60, soak_mode |-> 29, normal_operation |-> 1, clear_notification |-> 3]
ToggleTopics ==
    {Name("pump", i) : i \in 1 .. 6} \cup {Name("light", i) : i \in 1 .. 4}
      \cup {Name("aux", i) : i \in 1 .. 2} \cup {<<w>> : w \in DOMAIN PlainCode}
ToggleCode ==
    [t \in ToggleTopics |->
        CASE t[1] = "pump" -> 3 + t[2]
          [] t[1] = "light" -> 16 + t[2]
          [] t[1] = "aux" -> 21 + t[2]
          [] OTHER -> PlainCode[t[1]]]
Timers == {Name("timer", i) : i \in 1 .. 6}
AllowedSubtopics == DOMAIN ToggleCode \cup Timers
    \cup {<<"set_temperature">>, <<"set_time">>, <<"set_preference">>}

AbsoluteMaxF == 108
AbsoluteMaxC == 42
Valid(cmd) == [result |-> "Valid", cmd |-> cmd]
Refused(why) == [result |-> why]

(* f32 plus a half, as u8: rounded, and 255 at most. *)
RoundToByte(v) == LET r == (v + Unit \div 2) \div Unit IN IF r > 255 THEN 255 ELSE r

(* parse_set_temperature, parse_pump_timer, parse_set_time,               *)
(* parse_set_preference and parse_toggle.                                 *)
ParseSetTemperature(p) ==
    CASE p.is # "number" -> Refused("InvalidPayload")
      [] p.is = "number" /\ p.v \notin 0 .. 255 * Unit -> Refused("InvalidPayload")
      [] p.is = "number" /\ RoundToByte(p.v) = 0 -> Refused("TemperatureOutOfRange")
      [] p.is = "number" /\ RoundToByte(p.v) > AbsoluteMaxF -> Refused("TemperatureOutOfRange")
      [] OTHER -> Valid([kind |-> "SetTemperature", temp |-> RoundToByte(p.v)])
ParsePumpTimer(p, pump) ==
    IF p.is = "number" /\ p.v % Unit = 0 /\ p.v \in Unit .. 120 * Unit
    THEN [result |-> "TimerPump", minutes |-> p.v \div Unit, pump |-> pump]
    ELSE Refused("InvalidPayload")
ParseSetTime(p) ==
    IF p.is = "time" /\ p.h \in 0 .. 23 /\ p.m \in 0 .. 59
    THEN Valid([kind |-> "SetTime", hour |-> p.h, minute |-> p.m, is24h |-> p.is24h])
    ELSE Refused("InvalidPayload")
ParseSetPreference(p) ==
    IF p.is = "preference" THEN Valid([kind |-> "SetPreference", code |-> p.code, v |-> p.v])
    ELSE Refused("InvalidPayload")
ParseToggle(p, code) ==
    IF p = Empty THEN Refused("InvalidPayload") ELSE Valid([kind |-> "ToggleItem", code |-> code])

ParseCommand(sub, p) ==
    CASE sub \notin AllowedSubtopics -> Refused("UnknownSubtopic")
      [] sub \in AllowedSubtopics /\ sub \in Timers -> ParsePumpTimer(p, sub[2])
      [] sub \in AllowedSubtopics /\ sub \in DOMAIN ToggleCode -> ParseToggle(p, ToggleCode[sub])
      [] sub \in AllowedSubtopics /\ sub = <<"set_temperature">> -> ParseSetTemperature(p)
      [] sub \in AllowedSubtopics /\ sub = <<"set_time">> -> ParseSetTime(p)
      [] sub \in AllowedSubtopics /\ sub = <<"set_preference">> -> ParseSetPreference(p)

(* validate_set_temperature *)
LowestF == [High |-> 80, Low |-> 50]
HighestF == [High |-> 104, Low |-> 80]
LowestC == [High |-> 26, Low |-> 10]
HighestC == [High |-> 40, Low |-> 26]
LowestOf(scale, range) == IF scale = "Celsius" THEN LowestC[range] ELSE LowestF[range]
HighestOf(scale, range) == IF scale = "Celsius" THEN HighestC[range] ELSE HighestF[range]
ValidTemperature(t, scale, range) ==
    /\ t <= IF scale = "Celsius" THEN AbsoluteMaxC ELSE AbsoluteMaxF
    /\ t \in LowestOf(scale, range) .. HighestOf(scale, range)

(* The command handler of mqtt_task and parse_command of mqtt_client.  A   *)
(* temperature is checked as a whole number and then sent, in Celsius, in  *)
(* half degrees.  last is the last status seen.                            *)
WireFromRounded(p, temp, scale) == IF scale = "Celsius" THEN 2 * temp ELSE temp
WireTemperature(p, temp, scale) ==
    IF scale = "Celsius" THEN RoundToByte(2 * p.v) ELSE temp
ClientAccepts(sub, p, last) ==
    LET r == ParseCommand(sub, p)
    IN  CASE sub = <<"sniff">> ->
                Valid([kind |-> "Sniff", n |-> IF p.is = "frames" THEN p.n ELSE 0])
          [] sub = <<"reboot">> -> Valid([kind |-> "Reboot"])
          [] sub \notin {<<"sniff">>, <<"reboot">>} /\ r.result = "Valid" ->
                IF r.cmd.kind # "SetTemperature" THEN r
                ELSE IF last = NothingYet THEN Refused("NoStatusYet")
                ELSE IF ValidTemperature(r.cmd.temp, last.scale, last.range)
                THEN Valid([r.cmd EXCEPT !.temp = WireTemperature(p, @, last.scale)])
                ELSE Refused("TemperatureOutOfRange")
          [] OTHER -> r

(* Command::encode, the bytes for the spa; <<>> is an error or a command   *)
(* that is not for the spa.                                                *)
EncodeCommand(c) ==
    CASE c.kind = "ToggleItem" -> <<17, c.code, 0>>
      [] c.kind = "SetTemperature" -> IF c.temp > AbsoluteMaxF THEN <<>> ELSE <<32, c.temp>>
      [] c.kind = "SetTime" ->
            IF c.hour > 23 \/ c.minute > 59 THEN <<>>
            ELSE <<33, c.hour + Flag(c.is24h, 128), c.minute>>
      [] c.kind = "SetPreference" -> <<39, c.code, c.v>>
      [] c.kind = "FaultLogRequest" -> <<34, 32, c.entry, 0>>
      [] c.kind = "FilterCyclesRequest" -> <<34, 1, 0, 0>>
      [] c.kind = "InformationRequest" -> <<34, 2, 0, 0>>
      [] c.kind = "ConfigurationRequest" -> <<4>>
      [] OTHER -> <<>>

(* The spa's reading of a toggle code: apply_toggle_by_code. *)
ItemOfCode(code) ==
    CASE code \in 4 .. 9 -> code - 3
      [] code = 12 -> Blower
      [] code \in 17 .. 20 -> code - 9
      [] code = 60 -> HoldMode
      [] code = 81 -> HeatingModeItem
      [] code = 80 -> TempRangeItem
      [] OTHER -> UntrackedItem
SpaTakes(s, bytes) ==
    CASE bytes # <<>> /\ bytes[1] = 17 -> ApplyToggle(s, ItemOfCode(bytes[2]))
      [] bytes # <<>> /\ bytes[1] = 32 -> SetTargetTemp(s, FromWire(bytes[2], s.scale))
      [] OTHER -> s

-----------------------------------------------------------------------------
(* status_to_json *)
StateDocument(st) ==
    [pump |-> [i \in 1 .. 6 |-> st.pumps[i] \in {1, 2}], light |-> st.lights,
     current_temp |-> st.temp, set_temp |-> st.set.value, is_heating |-> st.heating,
     blower |-> st.blower, circ_pump |-> st.circ, mister |-> st.mister, hold_mode |-> st.hold,
     heating_mode |-> st.mode, temp_range |-> st.range, temp_scale |-> st.scale,
     time_format |-> st.is24h, hour |-> st.hour, minute |-> st.minute,
     notification_type |-> st.notification, locks |-> st.locks, m8_cycle_time |-> st.m8]
(* Fields that come from the device: last_fault, firmware_version,         *)
(* sniff_mode, wifi_rssi and registration_state.                           *)
DeviceFields == {"last_fault", "firmware_version"}

(* status_changed: every field of the document that comes from the spa but *)
(* for the clock.                                                          *)
ComparedFields ==
    {"temp", "set", "heating", "pumps", "lights", "blower", "circ", "mister", "hold", "mode",
     "range", "holdMinutes", "scale", "is24h", "notification", "locks", "m8"}
StatusChangedNoLights(prev, now) ==
    prev = NothingYet \/ \E f \in ComparedFields \ {"lights"} : prev[f] # now[f]
StatusChanged(prev, now) == prev = NothingYet \/ \E f \in ComparedFields : prev[f] # now[f]

-----------------------------------------------------------------------------
(* DiscoveryBuilder.  An entity has its kind and object id (its topic),    *)
(* the sub-topic it writes, the fields it shows and the texts it sends.    *)
Entity(kind, id, writes, shows, sends) ==
    [kind |-> kind, id |-> id, writes |-> writes, shows |-> shows, sends |-> sends]
OnOff == {Word("true"), Word("false")}
NoTopic == <<>>
Sensor(id, field) == Entity("sensor", id, NoTopic, {field}, {})
Switch(id, field) == Entity("switch", id, id, {field}, OnOff)
Optimistic(id) == Entity("switch", id, id, {}, OnOff)
Select(id, field, options) == Entity("select", id, id, {field}, {Word(o) : o \in options})
NumberInput(min, max, step) ==
    {Number(min * Unit + k * step) : k \in 0 .. ((max - min) * Unit) \div step}
SetTemperatureEntity(celsius) ==
    Entity("number", <<"set_temperature">>, <<"set_temperature">>, {"set_temp"},
           IF celsius THEN NumberInput(10, 40, Unit \div 2) ELSE NumberInput(50, 104, Unit))

WaterEntities(celsius) ==
    {Sensor(<<"temperature">>, "current_temp"), SetTemperatureEntity(celsius),
     Entity("binary_sensor", <<"heating">>, NoTopic, {"is_heating"}, {})}
      \cup {Switch(Name("pump", i), "pump") : i \in 1 .. 6}
      \cup {Entity("light", Name("light", i), Name("light", i), {"light"}, OnOff) : i \in 1 .. 4}
      \cup {Entity("fan", <<"blower">>, <<"blower">>, {}, OnOff)}
ModeEntities ==
    {Select(<<"heat_mode">>, "heating_mode", {"ready", "rest", "ready_in_rest"}),
     Select(<<"temp_range">>, "temp_range", {"high", "low"}),
     Switch(<<"circulation_pump">>, "circ_pump"),
     Switch(<<"hold_mode">>, "hold_mode"), Switch(<<"mister">>, "mister")}
      \cup {Optimistic(id) : id \in {Name("aux", 1), Name("aux", 2), <<"soak_mode">>,
                <<"normal_operation">>, <<"clear_notification">>}}
DeviceEntities ==
    {Sensor(<<"fault">>, "last_fault"), Sensor(<<"firmware_version">>, "firmware_version"),
     Entity("sensor", <<"diagnostics">>, NoTopic, {}, {}),
     Entity("sensor", <<"alert">>, NoTopic, {}, {}),
     Optimistic(<<"sniff">>),
     Entity("button", <<"reboot">>, <<"reboot">>, {}, {Word("ON")}),
     Entity("sensor", <<"clock">>, NoTopic, {"hour", "minute"}, {}),
     Entity("text", <<"set_time">>, <<"set_time">>, {},
            {Time(h, m) : h \in {0, 23}, m \in {0, 59}})}

Entities ==
    [celsius \in BOOLEAN |-> WaterEntities(celsius) \cup ModeEntities \cup DeviceEntities]
=============================================================================
