---------------------------- MODULE SpaPanelProofs ----------------------------
(***************************************************************************)
(* Theorems about the spa as its owner sees it, for every clock, weather,  *)
(* vocabulary on the web page and spa that SpasAssumption allows.          *)
(***************************************************************************)
EXTENDS SpaPanel, FiniteSetTheorems, SequenceTheorems, TLAPS

-----------------------------------------------------------------------------
(* Temperatures.  SpanBytes are the bytes of a set temperature that lie in *)
(* the span of the two ranges.                                             *)

SpanBytes(scale) == IF scale = "Celsius" THEN 19 .. 81 ELSE 50 .. 104
Targets(scale) == {FromWire(byte, scale) : byte \in SpanBytes(scale)}

(* A target of the span is one (SpaState::default).                        *)
LEMMA WireTargetsInSpan ==
    ASSUME NEW scale \in Scales PROVE WireTargets(scale) \subseteq Targets(scale)
  <1> SUFFICES ASSUME NEW t \in WireTargets(scale) PROVE t \in Targets(scale)
    OBVIOUS
  <1>1. PICK byte \in 0 .. 255 :
              /\ t = FromWire(byte, scale)
              /\ t.value \in LowestOf(scale, "Low") * Unit .. HighestOf(scale, "High") * Unit
    BY DEF WireTargets
  <1>2. byte \in SpanBytes(scale)
    <2>1. CASE scale = "Celsius"
      BY <1>1, <2>1 DEF FromWire, Temperature, SpanBytes, LowestOf, HighestOf,
           LowestC, HighestC, Unit
    <2>2. CASE scale = "Fahrenheit"
      BY <1>1, <2>2 DEF FromWire, Temperature, SpanBytes, LowestOf, HighestOf,
           LowestF, HighestF, Unit
    <2> QED BY <2>1, <2>2 DEF Scales
  <1> QED BY <1>1, <1>2 DEF Targets

(* A byte of the span decodes to a target, is sent as it is and comes back *)
(* from it (Temperature::to_wire, from_wire, Command::encode).             *)
LEMMA SpanByte ==
    ASSUME NEW scale \in Scales, NEW byte \in SpanBytes(scale)
    PROVE  LET t == FromWire(byte, scale)
           IN  /\ byte \in 1 .. AbsoluteMaxF
               /\ t \in [value : Int, scale : {scale}]
               /\ t.value \in LowestOf(scale, "Low") * Unit - Unit \div 2
                                .. HighestOf(scale, "High") * Unit + Unit \div 2
               /\ ToWire(t) = byte
  BY DEF SpanBytes, FromWire, ToWire, Temperature, LowestOf, HighestOf, LowestC, HighestC,
         LowestF, HighestF, Unit, AbsoluteMaxF, Scales, NegativeError, OverflowError

-----------------------------------------------------------------------------
(* The bytes of a status.                                                  *)

LEMMA Powers ==
    /\ 2 ^ 0 = 1 /\ 2 ^ 1 = 2 /\ 2 ^ 2 = 4 /\ 2 ^ 4 = 16 /\ 2 ^ 6 = 64 /\ 2 ^ 7 = 128
  OBVIOUS

(* Four fields of two bits come back out of their byte (pump_bits.rs).     *)
LEMMA Unpack ==
    ASSUME NEW a \in 0 .. 3, NEW b \in 0 .. 3, NEW c \in 0 .. 3, NEW d \in 0 .. 3
    PROVE  LET byte == PackPairs(a, b, c, d)
           IN  /\ Bits(byte, 0, 2) = a /\ Bits(byte, 2, 2) = b
               /\ Bits(byte, 4, 2) = c /\ Bits(byte, 6, 2) = d
  BY Powers DEF PackPairs, Bits

LEMMA PairsOfPumps ==
    ASSUME NEW low, NEW high
    PROVE  LET raw == DecodePumpRaw(low, high)
           IN  /\ raw[1] = Bits(low, 0, 2) /\ raw[2] = Bits(low, 2, 2)
               /\ raw[3] = Bits(low, 4, 2) /\ raw[4] = Bits(low, 6, 2)
               /\ raw[5] = Bits(high, 0, 2) /\ raw[6] = Bits(high, 2, 2)
  BY DEF DecodePumpRaw

LEMMA PairsOfLights ==
    ASSUME NEW byte
    PROVE  LET raw == DecodeLights(byte)
           IN  /\ raw[1] = (Bits(byte, 0, 2) # 0) /\ raw[2] = (Bits(byte, 2, 2) # 0)
               /\ raw[3] = (Bits(byte, 4, 2) # 0) /\ raw[4] = (Bits(byte, 6, 2) # 0)
  BY DEF DecodeLights

(* A frame is its prefix and the 24 bytes after it, which is what the      *)
(* device parses (handle_status).                                          *)
LEMMA PrefixDropped ==
    ASSUME NEW p, NEW body, Len(p) = 25, p[1] = 19, Tail(p) = body, ~(Len(body) < 24)
    PROVE  HandleStatus(p) = ParseStatus(body)
  BY Zenon DEF HandleStatus

LEMMA PrefixIsTaken ==
    ASSUME NEW body, DOMAIN body = 1 .. 24, body = [k \in 1 .. 24 |-> body[k]]
    PROVE  HandleStatus(<<19>> \o body) = ParseStatus(body)
  <1> DEFINE S == {19} \cup {body[k] : k \in 1 .. 24}
  <1>1. body \in Seq(S) /\ Len(body) = 24
    <2>1. body \in [1 .. 24 -> S]
      OBVIOUS
    <2> QED BY <2>1, SeqDef
  <1>2. <<19>> \in Seq(S)
    OBVIOUS
  <1> DEFINE p == <<19>> \o body
  <1>3. p \in Seq(S) /\ Len(p) = 25 /\ p[1] = 19 /\ \A k \in 1 .. 24 : p[k + 1] = body[k]
    BY <1>1, <1>2
  <1>4. Tail(p) \in Seq(S) /\ Len(Tail(p)) = 24 /\ \A k \in 1 .. 24 : Tail(p)[k] = body[k]
    BY <1>3
  <1>5. Tail(p) = body
    BY <1>1, <1>4
  <1> HIDE DEF p
  <1>6. Len(p) = 25 /\ p[1] = 19 /\ ~(Len(body) < 24) /\ Tail(p) = body
    BY <1>1, <1>3, <1>5
  <1>7. HandleStatus(p) = ParseStatus(body)
    BY <1>6, PrefixDropped
  <1> QED BY <1>7 DEF p
LEMMA SentIsParsed ==
    ASSUME NEW s, NEW c
    PROVE  HandleStatus(GenerateStatus(s, c)) = ParseStatus(StatusPayload(s, c))
  <1> DEFINE body == StatusPayload(s, c)
  <1>1. DOMAIN body = 1 .. 24 /\ body = [k \in 1 .. 24 |-> body[k]]
    BY DEF StatusPayload
  <1> HIDE DEF body
  <1>2. HandleStatus(<<19>> \o body) = ParseStatus(body)
    BY <1>1, PrefixIsTaken
  <1> QED BY <1>2 DEF body, GenerateStatus

-----------------------------------------------------------------------------
(* The spa.                                                                *)

Modes == {"Ready", "Rest", "ReadyInRest"}
Ranges == {"High", "Low"}
SpaRecords ==
    [items : [TrackedItems -> ItemStates], mode : Modes, range : Ranges,
     set : [value : Int, scale : Scales], setHigh : [value : Int, scale : Scales],
     setLow : [value : Int, scale : Scales], scale : Scales, temp : Int,
     heating : BOOLEAN, circ : BOOLEAN]
SpaFits(s) ==
    /\ s \in SpaRecords
    /\ {s.setHigh, s.setLow} \subseteq Targets(s.scale)
    /\ s.set = IF s.range = "High" THEN s.setHigh ELSE s.setLow
    /\ \A i \in TrackedItems \ Pumps : s.items[i] <= 1

(* The clock, the fault and the rest that the water does not hold.         *)
OtherRecords ==
    [hour : 0 .. HoursPerDay - 1, minute : 0 .. MinutesPerHour - 1,
     fault : [active : BOOLEAN, left : Nat, code : Codes \cup {27}], priming : Nat,
     unknown : BOOLEAN, mister : BOOLEAN]

LEMMA TargetsTyped ==
    ASSUME NEW scale \in Scales
    PROVE  Targets(scale) \subseteq [value : Int, scale : Scales]
  BY SpanByte DEF Targets

LEMMA ItemsOfThePanel ==
    /\ Pumps = 1 .. 6 /\ TrackedItems = 0 .. 11 /\ UntrackedItem = 12
    /\ HoldMode = 0 /\ Blower = 7 /\ HeatingModeItem = 13 /\ TempRangeItem = 14
  BY PayloadAssumption DEF Pumps, TrackedItems, UntrackedItem, HoldMode, Blower,
     HeatingModeItem, TempRangeItem

(* The spa a run starts with (SpaState::default).                          *)
LEMMA DefaultFits ==
    ASSUME NEW s \in InitialSpas PROVE SpaFits(s)
  <1>1. /\ s.temp \in Int /\ s.scale \in Scales
        /\ {s.setHigh, s.setLow} \subseteq WireTargets(s.scale)
        /\ s = DefaultSpa(s.temp, s.setHigh, s.setLow, s.scale)
    BY SpasAssumption
  <1>2. {s.setHigh, s.setLow} \subseteq Targets(s.scale)
    BY <1>1, WireTargetsInSpan
  <1>3. {s.setHigh, s.setLow} \subseteq [value : Int, scale : Scales]
    BY <1>1, <1>2, TargetsTyped
  <1>4. DefaultSpa(s.temp, s.setHigh, s.setLow, s.scale) \in SpaRecords
    BY <1>1, <1>3 DEF DefaultSpa, SpaRecords, ItemStates, Modes, Ranges
  <1>5. s \in SpaRecords
    BY <1>1, <1>4, Zenon
  <1> DEFINE d == DefaultSpa(s.temp, s.setHigh, s.setLow, s.scale)
  <1>6. d.set = s.setHigh /\ d.range = "High" /\ d.items = [i \in TrackedItems |-> 0]
    BY DEF DefaultSpa
  <1>7. s.set = s.setHigh /\ s.range = "High" /\ s.items = [i \in TrackedItems |-> 0]
    BY <1>1, <1>6, Zenon
  <1> QED BY <1>2, <1>5, <1>7 DEF SpaFits

-----------------------------------------------------------------------------
(* What may happen to the spa.                                             *)

(* A target is set in the active range (set_target_temp).                  *)
LEMMA TargetFits ==
    ASSUME NEW s, SpaFits(s), NEW t \in Targets(s.scale)
    PROVE  LET after == SetTargetTemp(s, t) IN SpaFits(after) /\ after.scale = s.scale
  <1>1. t \in [value : Int, scale : Scales]
    BY TargetsTyped DEF SpaFits, SpaRecords
  <1>2. CASE s.range = "High"
    BY <1>1, <1>2 DEF SpaFits, SpaRecords, SetTargetTemp, Ranges
  <1>3. CASE s.range # "High"
    BY <1>1, <1>3 DEF SpaFits, SpaRecords, SetTargetTemp, Ranges
  <1> QED BY <1>2, <1>3

(* The range is switched: the target is saved and the other one restored   *)
(* (apply_toggle_by_code).                                                 *)
LEMMA RangeFits ==
    ASSUME NEW s, SpaFits(s)
    PROVE  LET after == SwitchRange(s) IN SpaFits(after) /\ after.scale = s.scale
  <1>1. CASE s.range = "High"
    BY <1>1 DEF SpaFits, SpaRecords, SwitchRange, SetTargetTemp, FlipTempRange, Ranges
  <1>2. CASE s.range # "High"
    BY <1>2 DEF SpaFits, SpaRecords, SwitchRange, SetTargetTemp, FlipTempRange, Ranges
  <1> QED BY <1>1, <1>2

LEMMA ToggleFits ==
    ASSUME NEW s, SpaFits(s), NEW item \in 0 .. 14
    PROVE  LET after == ApplyToggle(s, item) IN SpaFits(after) /\ after.scale = s.scale
  <1> USE ItemsOfThePanel
  <1>1. CASE item \in Pumps
    <2>1. CyclePump(s.items[item]) \in ItemStates
      BY <1>1 DEF SpaFits, SpaRecords, ItemStates, CyclePump
    <2>2. ApplyToggle(s, item) = [s EXCEPT !.items[item] = CyclePump(@)]
      BY <1>1 DEF ApplyToggle
    <2> QED BY <1>1, <2>1, <2>2 DEF SpaFits, SpaRecords
  <1>2. CASE item \in TrackedItems \ Pumps
    <2>1. 1 - s.items[item] \in 0 .. 1
      BY <1>2 DEF SpaFits, SpaRecords, ItemStates
    <2>2. ApplyToggle(s, item) = [s EXCEPT !.items[item] = 1 - @]
      BY <1>2 DEF ApplyToggle
    <2> QED BY <1>2, <2>1, <2>2 DEF SpaFits, SpaRecords, ItemStates
  <1>3. CASE item = HeatingModeItem
    <2>1. CycleHeatingMode(s.mode) \in Modes
      BY DEF SpaFits, SpaRecords, Modes, CycleHeatingMode
    <2>2. ApplyToggle(s, item) = [s EXCEPT !.mode = CycleHeatingMode(@)]
      BY <1>3 DEF ApplyToggle
    <2> QED BY <2>1, <2>2 DEF SpaFits, SpaRecords
  <1>4. CASE item = TempRangeItem
    BY <1>4, RangeFits DEF ApplyToggle
  <1>5. CASE item = UntrackedItem
    BY <1>5 DEF ApplyToggle
  <1> QED BY <1>1, <1>2, <1>3, <1>4, <1>5

(* A second passes: only the temperature and the heater change             *)
(* (simulate_physics).                                                     *)
LEMMA RunningTyped ==
    ASSUME NEW s, SpaFits(s) PROVE RunningPumps(s) \in Nat
  <1>1. IsFiniteSet({i \in Pumps : s.items[i] # 0})
    <2>1. IsFiniteSet(1 .. 6)
      <3>1. 1 \in Int /\ 6 \in Int
        OBVIOUS
      <3> QED BY <3>1, FS_Interval, Zenon
    <2>2. {i \in Pumps : s.items[i] # 0} \subseteq 1 .. 6
      BY ItemsOfThePanel
    <2> QED BY <2>1, <2>2, FS_Subset
  <1>2. Cardinality({i \in Pumps : s.items[i] # 0}) \in Nat
    BY <1>1, FS_CardinalityType
  <1> QED BY <1>2 DEF RunningPumps

LEMMA TempTyped ==
    ASSUME NEW s, SpaFits(s) PROVE TempAfter(s) \in Int
  <1> USE PhysicsAssumption
  <1>1. SetPoint(s) \in Int
    BY DEF SpaFits, SpaRecords, SetPoint, ToFahrenheit, Unit
  <1>2. HeatTarget(s) \in Int
    BY <1>1 DEF HeatTarget, Hysteresis, Unit
  <1>3. s.temp \in Int
    BY DEF SpaFits, SpaRecords
  <1>4. HeatStep(s.temp, HeatTarget(s)) \in Int
    BY <1>2, <1>3 DEF HeatStep, Larger, Smaller, Epsilon, Unit
  <1>5. CoolStep(s.temp) \in Int
    BY <1>3 DEF CoolStep, Larger, Epsilon, Unit
  <1>6. PumpHeat * RunningPumps(s) \in Int
    BY RunningTyped
  <1> QED BY <1>2, <1>3, <1>4, <1>5, <1>6 DEF TempAfter

LEMMA PhysicsFits ==
    ASSUME NEW s, SpaFits(s)
    PROVE  LET after == SimulatePhysics(s) IN SpaFits(after) /\ after.scale = s.scale
  <1> DEFINE heats == (StillHeats(s) /\ ~ReachesTarget(s)) \/ Restarts(s)
  <1>1. TempAfter(s) \in Int /\ heats \in BOOLEAN
    BY TempTyped DEF StillHeats, ReachesTarget, Restarts
  <1>2. SimulatePhysics(s) = [s EXCEPT !.temp = TempAfter(s), !.heating = heats]
    BY DEF SimulatePhysics
  <1> HIDE DEF heats
  <1>3. PICK h \in BOOLEAN : SimulatePhysics(s) = [s EXCEPT !.temp = TempAfter(s), !.heating = h]
    BY <1>1, <1>2, Zenon
  <1> DEFINE after == SimulatePhysics(s)
  <1>4. after \in SpaRecords
    BY <1>1, <1>3 DEF SpaFits, SpaRecords
  <1>5. /\ after.scale = s.scale /\ after.items = s.items /\ after.range = s.range
        /\ after.set = s.set /\ after.setHigh = s.setHigh /\ after.setLow = s.setLow
    BY <1>3 DEF SpaFits, SpaRecords
  <1> HIDE DEF after
  <1>6. SpaFits(after) /\ after.scale = s.scale
    BY <1>4, <1>5 DEF SpaFits
  <1> QED BY <1>6 DEF after

-----------------------------------------------------------------------------
(* The commands.                                                           *)

(* What may be said on the command topic: the texts of the web page and    *)
(* those of the entities.                                                  *)
Texts == {t.text : t \in WebTexts} \cup UNION {e.sends : e \in Entities[TRUE] \cup Entities[FALSE]}

(* The commands the device lets through to a spa of the given scale.       *)
PanelCommands(scale) ==
    [kind : {"ToggleItem"}, code : {ToggleCode[sub] : sub \in ToggleTopics}]
      \cup [kind : {"SetTemperature"}, temp : SpanBytes(scale)]
      \cup [kind : {"SetTime"}, hour : 0 .. 23, minute : 0 .. 59, is24h : {p.is24h : p \in Texts}]
      \cup [kind : {"SetPreference"}, code : {p.code : p \in Texts}, v : {p.v : p \in Texts}]
      \cup [kind : {"Sniff"}, n : {p.n : p \in Texts} \cup {0}]
      \cup [kind : {"Reboot"}]

(* Each of them can be encoded, and the spa stays what it should be when   *)
(* it takes it (Command::encode, process_frame).                           *)
LEMMA CommandTaken ==
    ASSUME NEW s, SpaFits(s), NEW c \in PanelCommands(s.scale)
    PROVE  /\ ForTheSpa(c) => EncodeCommand(c) # <<>>
           /\ LET after == SpaTakes(s, EncodeCommand(c))
              IN  SpaFits(after) /\ after.scale = s.scale
  <1> DEFINE bytes == EncodeCommand(c)
  <1>1. CASE c.kind = "ToggleItem"
    <2>1. bytes = <<17, c.code, 0>>
      BY <1>1 DEF EncodeCommand
    <2>2. ItemOfCode(c.code) \in 0 .. 14
      BY ItemsOfThePanel DEF ItemOfCode
    <2>3. SpaTakes(s, bytes) = ApplyToggle(s, ItemOfCode(c.code))
      BY <2>1 DEF SpaTakes
    <2> QED BY <2>1, <2>2, <2>3, ToggleFits
  <1>2. CASE c.kind = "SetTemperature"
    <2>1. s.scale \in Scales /\ c.temp \in SpanBytes(s.scale)
      BY <1>2 DEF PanelCommands, SpaFits, SpaRecords
    <2>2. FromWire(c.temp, s.scale) \in Targets(s.scale) /\ c.temp \in 1 .. AbsoluteMaxF
      BY <2>1, SpanByte DEF Targets
    <2>3. bytes = <<32, c.temp>>
      <3>1. ~(c.temp > AbsoluteMaxF)
        BY <2>2 DEF AbsoluteMaxF
      <3> QED BY <1>2, <3>1 DEF EncodeCommand
    <2>4. SpaTakes(s, bytes) = SetTargetTemp(s, FromWire(c.temp, s.scale))
      BY <2>3 DEF SpaTakes
    <2> QED BY <2>2, <2>3, <2>4, TargetFits
  <1>3. CASE c.kind = "SetTime"
    <2>1. bytes = <<33, c.hour + Flag(c.is24h, 128), c.minute>>
      <3>1. ~(c.hour > 23) /\ ~(c.minute > 59)
        BY <1>3 DEF PanelCommands
      <3> QED BY <1>3, <3>1 DEF EncodeCommand
    <2> QED BY <2>1 DEF SpaTakes
  <1>4. CASE c.kind = "SetPreference"
    <2>1. bytes = <<39, c.code, c.v>>
      BY <1>4 DEF EncodeCommand
    <2> QED BY <2>1 DEF SpaTakes
  <1>5. CASE c.kind \in {"Sniff", "Reboot"}
    BY <1>5 DEF EncodeCommand, SpaTakes, ForTheSpa
  <1>6. c.kind \in {"ToggleItem", "SetTemperature", "SetTime", "SetPreference", "Sniff", "Reboot"}
    BY DEF PanelCommands
  <1> QED BY <1>1, <1>2, <1>3, <1>4, <1>5, <1>6

-----------------------------------------------------------------------------
(* What is said and what is let through.                                   *)

(* Rounding to a byte, without the cap (parse_set_temperature).            *)
LEMMA Rounded ==
    ASSUME NEW v \in Int, v <= 255000
    PROVE  RoundToByte(v) = (v + 500) \div 1000
  <1>1. (v + 500) \div 1000 <= 255
    BY SMT
  <1> QED BY <1>1, SMT DEF RoundToByte, Unit

(* A number that the handler of mqtt_task lets through is the byte of a    *)
(* target (parse_set_temperature, validate_set_temperature).               *)
KnowsScale(st, scale) == st = NothingYet \/ (st.scale = scale /\ st.range \in Ranges)
SentByte(byte, v, scale) ==
    /\ byte \in SpanBytes(scale)
    /\ v \in Int
    /\ scale = "Celsius" => byte = (2 * v + 500) \div 1000
    /\ scale = "Fahrenheit" => byte = (v + 500) \div 1000 /\ v >= 49500

LEMMA RoundedAccepted ==
    ASSUME NEW scale \in Scales, NEW range \in Ranges, NEW v \in Int, 0 <= v, v <= 255000,
           ValidTemperature(RoundToByte(v), scale, range)
    PROVE  SentByte(IF scale = "Celsius" THEN RoundToByte(2 * v) ELSE RoundToByte(v), v, scale)
  <1> DEFINE temp == (v + 500) \div 1000
  <1>1. temp \in Int /\ RoundToByte(v) = temp
    BY Rounded, SMT
  <1>2. CASE scale = "Celsius"
    <2>1. 10 <= temp /\ temp <= 40
      BY <1>1, <1>2, SMT DEF ValidTemperature, LowestOf, HighestOf, LowestC, HighestC, Ranges
    <2>2. 9500 <= v /\ v < 40500
      BY <2>1, SMT
    <2> DEFINE w == 2 * v
    <2>3. w \in Int /\ w <= 255000 /\ 19000 <= w /\ w < 81000
      BY <2>2, SMT
    <2> HIDE DEF w
    <2>4. RoundToByte(w) = (w + 500) \div 1000
      BY <2>3, Rounded, SMT
    <2>5. (w + 500) \div 1000 \in Int /\ 19 <= (w + 500) \div 1000 /\ (w + 500) \div 1000 <= 81
      BY <2>3, SMT
    <2> QED BY <1>2, <2>4, <2>5, SMT DEF SpanBytes, SentByte, w
  <1>3. CASE scale = "Fahrenheit"
    <2>1. 50 <= temp /\ temp <= 104
      BY <1>1, <1>3, SMT DEF ValidTemperature, LowestOf, HighestOf, LowestF, HighestF, Ranges
    <2>2. 49500 <= v
      BY <2>1, SMT
    <2> QED BY <1>1, <1>3, <2>1, <2>2, SMT DEF SpanBytes, SentByte
  <1> QED BY <1>2, <1>3, SMT DEF Scales

LEMMA NumberAccepted ==
    ASSUME NEW scale \in Scales, NEW range \in Ranges, NEW p,
           ParseSetTemperature(p).result = "Valid",
           ValidTemperature(ParseSetTemperature(p).cmd.temp, scale, range)
    PROVE  SentByte(WireTemperature(p, ParseSetTemperature(p).cmd.temp, scale), p.v, scale)
  <1>1. /\ p.v \in 0 .. 255 * Unit
        /\ ParseSetTemperature(p).cmd.temp = RoundToByte(p.v)
    BY SMT DEF ParseSetTemperature, Refused, Valid
  <1>2. p.v \in Int /\ 0 <= p.v /\ p.v <= 255000
    <2>1. Unit \in Int /\ 255 * Unit = 255000
      BY SMT DEF Unit
    <2>2. p.v \in Int /\ 0 <= p.v /\ p.v <= 255 * Unit
      BY <1>1, <2>1, SMT
    <2> QED BY <2>1, <2>2, SMT
  <1> QED BY <1>1, <1>2, RoundedAccepted, SMT DEF WireTemperature

(* The sub-topics are of seven sorts, and none is of two (parse_command).  *)
LEMMA Subtopics ==
    /\ \A sub \in ToggleTopics : sub \notin Timers
    /\ <<"set_temperature">> \notin Timers \cup ToggleTopics
    /\ <<"set_time">> \notin Timers \cup ToggleTopics
    /\ <<"set_preference">> \notin Timers \cup ToggleTopics
    /\ <<"sniff">> \notin ToggleTopics /\ <<"reboot">> \notin ToggleTopics
    /\ <<"sniff">> # <<"reboot">>
    /\ \A a \in {"sniff", "reboot", "set_temperature", "set_time", "set_preference"} :
         \A b \in {"sniff", "reboot", "set_temperature", "set_time", "set_preference"} :
            a # b => <<a>> # <<b>>
  BY DEF ToggleTopics, Timers, Name, PlainCode

LEMMA CommandAccepted ==
    ASSUME NEW scale \in Scales, NEW st, KnowsScale(st, scale), NEW sub, NEW p \in Texts,
           ClientAccepts(sub, p, st).result = "Valid"
    PROVE  ClientAccepts(sub, p, st).cmd \in PanelCommands(scale)
  <1> DEFINE r == ParseCommand(sub, p)
  <1>1. CASE sub = <<"sniff">>
    <2>1. ClientAccepts(sub, p, st).cmd = [kind |-> "Sniff", n |-> IF p.is = "frames" THEN p.n ELSE 0]
      BY <1>1 DEF ClientAccepts, Valid
    <2> QED BY <2>1 DEF PanelCommands
  <1>2. CASE sub = <<"reboot">>
    <2>1. ClientAccepts(sub, p, st).cmd = [kind |-> "Reboot"]
      BY <1>2, Subtopics DEF ClientAccepts, Valid
    <2> QED BY <2>1 DEF PanelCommands
  <1>3. CASE sub \notin {<<"sniff">>, <<"reboot">>}
    <2>1. r.result = "Valid"
      BY <1>3 DEF ClientAccepts
    <2>2. CASE r.cmd.kind # "SetTemperature"
      <3>1. ClientAccepts(sub, p, st) = r
        BY <1>3, <2>1, <2>2 DEF ClientAccepts
      <3>2. CASE sub \in ToggleTopics
        <4>1. r = ParseToggle(p, ToggleCode[sub])
          BY <3>2, Subtopics DEF ParseCommand, AllowedSubtopics, ToggleCode
        <4>2. r.cmd = [kind |-> "ToggleItem", code |-> ToggleCode[sub]]
          BY <2>1, <4>1 DEF ParseToggle, Refused, Valid
        <4> QED BY <3>1, <3>2, <4>2 DEF PanelCommands
      <3>3. CASE sub = <<"set_time">>
        <4>1. r = ParseSetTime(p)
          BY <3>3, Subtopics DEF ParseCommand, AllowedSubtopics, ToggleCode
        <4>2. /\ p.h \in 0 .. 23 /\ p.m \in 0 .. 59
              /\ r.cmd = [kind |-> "SetTime", hour |-> p.h, minute |-> p.m, is24h |-> p.is24h]
          BY <2>1, <4>1 DEF ParseSetTime, Refused, Valid
        <4> QED BY <3>1, <4>2 DEF PanelCommands
      <3>4. CASE sub = <<"set_preference">>
        <4>1. r = ParseSetPreference(p)
          BY <3>4, Subtopics DEF ParseCommand, AllowedSubtopics, ToggleCode
        <4>2. r.cmd = [kind |-> "SetPreference", code |-> p.code, v |-> p.v]
          BY <2>1, <4>1 DEF ParseSetPreference, Refused, Valid
        <4> QED BY <3>1, <4>2 DEF PanelCommands
      <3>5. CASE sub = <<"set_temperature">>
        <4>1. r = ParseSetTemperature(p)
          BY <3>5, Subtopics DEF ParseCommand, AllowedSubtopics, ToggleCode
        <4> QED BY <2>1, <2>2, <4>1 DEF ParseSetTemperature, Refused, Valid
      <3>6. CASE sub \in Timers
        <4>1. r = ParsePumpTimer(p, sub[2])
          BY <3>6, Subtopics DEF ParseCommand, AllowedSubtopics, ToggleCode
        <4> QED BY <2>1, <4>1 DEF ParsePumpTimer, Refused
      <3>7. CASE sub \notin AllowedSubtopics
        BY <2>1, <3>7 DEF ParseCommand, Refused
      <3> QED BY <3>2, <3>3, <3>4, <3>5, <3>6, <3>7 DEF AllowedSubtopics, ToggleCode
    <2>3. CASE r.cmd.kind = "SetTemperature"
      <3>1. /\ st # NothingYet /\ ValidTemperature(r.cmd.temp, st.scale, st.range)
            /\ ClientAccepts(sub, p, st) =
                  Valid([r.cmd EXCEPT !.temp = WireTemperature(p, @, st.scale)])
        BY <1>3, <2>1, <2>3 DEF ClientAccepts, Refused
      <3>2. r = ParseSetTemperature(p)
        BY <2>1, <2>3, Subtopics DEF ParseCommand, ParseToggle, ParseSetTime, ParsePumpTimer,
             ParseSetPreference, Refused, Valid, AllowedSubtopics, ToggleCode
      <3>3. r.cmd = [kind |-> "SetTemperature", temp |-> RoundToByte(p.v)]
        BY <2>1, <3>2 DEF ParseSetTemperature, Refused, Valid
      <3>4. WireTemperature(p, r.cmd.temp, scale) \in SpanBytes(scale)
        BY <2>1, <3>1, <3>2, NumberAccepted DEF KnowsScale, SentByte
      <3>5. ClientAccepts(sub, p, st).cmd =
               [kind |-> "SetTemperature", temp |-> WireTemperature(p, r.cmd.temp, scale)]
        BY <3>1, <3>3 DEF KnowsScale, Valid
      <3> QED BY <3>4, <3>5 DEF PanelCommands
    <2> QED BY <2>2, <2>3
  <1> QED BY <1>1, <1>2, <1>3

-----------------------------------------------------------------------------
(* The entities.                                                           *)

(* What an entity sends is a word on a topic that is toggled or that the   *)
(* device keeps for itself, a number of half or whole degrees, or a time   *)
(* (DiscoveryBuilder::build_messages).                                     *)
SaysWord(e, p) == e.writes \in ToggleTopics \cup {<<"sniff">>, <<"reboot">>} /\ p.is = "word"
SaysNumber(e, p) ==
    /\ e.writes = <<"set_temperature">>
    /\ p.is = "number" /\ p.v \in Int /\ 0 <= p.v /\ p.v <= 255000
    /\ p.v % 1000 = 0 \/ (p.v % 500 = 0 /\ p.v <= 40000)
SaysTime(e, p) ==
    e.writes = <<"set_time">> /\ p.is = "time" /\ p.h \in 0 .. 23 /\ p.m \in 0 .. 59

LEMMA Inputs ==
    /\ \A k \in Int : LET v == 10 * Unit + k * (Unit \div 2)
                      IN  0 <= k /\ k <= 60 =>
                             v \in Int /\ 0 <= v /\ v % 500 = 0 /\ v <= 40000
    /\ \A k \in Int : LET v == 50 * Unit + k * Unit
                      IN  0 <= k /\ k <= 54 =>
                             v \in Int /\ 0 <= v /\ v % 1000 = 0 /\ v <= 255000
  BY SMT DEF Unit

LEMMA NumbersSaid ==
    ASSUME NEW celsius \in BOOLEAN, NEW p \in SetTemperatureEntity(celsius).sends
    PROVE  SaysNumber(SetTemperatureEntity(celsius), p)
  <1>1. CASE celsius
    <2>1. p \in NumberInput(10, 40, Unit \div 2)
      BY <1>1 DEF SetTemperatureEntity, Entity
    <2>2. PICK k \in 0 .. ((40 - 10) * Unit) \div (Unit \div 2) :
                p = Number(10 * Unit + k * (Unit \div 2))
      BY <2>1, Zenon DEF NumberInput
    <2>3. k \in Int /\ 0 <= k /\ k <= 60
      BY <2>2, SMT DEF Unit
    <2> QED BY <2>2, <2>3, Inputs DEF SaysNumber, SetTemperatureEntity, Entity, Number
  <1>2. CASE ~celsius
    <2>1. p \in NumberInput(50, 104, Unit)
      BY <1>2 DEF SetTemperatureEntity, Entity
    <2>2. PICK k \in 0 .. ((104 - 50) * Unit) \div Unit : p = Number(50 * Unit + k * Unit)
      BY <2>1, Zenon DEF NumberInput
    <2>3. k \in Int /\ 0 <= k /\ k <= 54
      BY <2>2, SMT DEF Unit
    <2> QED BY <2>2, <2>3, Inputs DEF SaysNumber, SetTemperatureEntity, Entity, Number
  <1> QED BY <1>1, <1>2

LEMMA TopicsToggled ==
    /\ \A i \in 1 .. 6 : Name("pump", i) \in ToggleTopics
    /\ \A i \in 1 .. 4 : Name("light", i) \in ToggleTopics
    /\ Name("aux", 1) \in ToggleTopics /\ Name("aux", 2) \in ToggleTopics
    /\ \A w \in {"blower", "mister", "circulation_pump", "heat_mode", "temp_range",
                 "hold_mode", "soak_mode", "normal_operation", "clear_notification"} :
          <<w>> \in ToggleTopics
  BY DEF ToggleTopics, PlainCode

LEMMA EntitySays ==
    ASSUME NEW celsius \in BOOLEAN, NEW e \in Entities[celsius], NEW p \in e.sends
    PROVE  SaysWord(e, p) \/ SaysNumber(e, p) \/ SaysTime(e, p)
  <1>1. CASE e \in WaterEntities(celsius)
    <2>1. CASE e = SetTemperatureEntity(celsius)
      BY <2>1, NumbersSaid
    <2>2. CASE e = Sensor(<<"temperature">>, "current_temp")
      BY <2>2 DEF Sensor, Entity
    <2>3. CASE e = Entity("binary_sensor", <<"heating">>, NoTopic, {"is_heating"}, {})
      BY <2>3 DEF Entity
    <2>4. CASE e \in {Switch(Name("pump", i), "pump") : i \in 1 .. 6}
      BY <2>4, TopicsToggled DEF Switch, Entity, OnOff, Word, SaysWord
    <2>5. CASE e \in {Entity("light", Name("light", i), Name("light", i), {"light"}, OnOff) : i \in 1 .. 4}
      BY <2>5, TopicsToggled DEF Entity, OnOff, Word, SaysWord
    <2>6. CASE e = Entity("fan", <<"blower">>, <<"blower">>, {}, OnOff)
      BY <2>6, TopicsToggled DEF Entity, OnOff, Word, SaysWord
    <2> QED BY <1>1, <2>1, <2>2, <2>3, <2>4, <2>5, <2>6, Zenon DEF WaterEntities
  <1>2. CASE e \in ModeEntities
    <2>1. CASE e = Select(<<"heat_mode">>, "heating_mode", {"ready", "rest", "ready_in_rest"})
      BY <2>1, TopicsToggled DEF Select, Entity, Word, SaysWord
    <2>2. CASE e = Select(<<"temp_range">>, "temp_range", {"high", "low"})
      BY <2>2, TopicsToggled DEF Select, Entity, Word, SaysWord
    <2>3. CASE e = Switch(<<"circulation_pump">>, "circ_pump")
      BY <2>3, TopicsToggled DEF Switch, Entity, OnOff, Word, SaysWord
    <2>4. CASE e = Switch(<<"hold_mode">>, "hold_mode")
      BY <2>4, TopicsToggled DEF Switch, Entity, OnOff, Word, SaysWord
    <2>5. CASE e = Switch(<<"mister">>, "mister")
      BY <2>5, TopicsToggled DEF Switch, Entity, OnOff, Word, SaysWord
    <2>6. CASE e \in {Optimistic(id) : id \in {Name("aux", 1), Name("aux", 2), <<"soak_mode">>,
                <<"normal_operation">>, <<"clear_notification">>}}
      BY <2>6, TopicsToggled DEF Optimistic, Entity, OnOff, Word, SaysWord
    <2> QED BY <1>2, <2>1, <2>2, <2>3, <2>4, <2>5, <2>6, Zenon DEF ModeEntities
  <1>3. CASE e \in DeviceEntities
    <2>1. CASE e.sends = {}
      BY <2>1
    <2>2. CASE e = Optimistic(<<"sniff">>)
      BY <2>2 DEF Optimistic, Entity, OnOff, Word, SaysWord
    <2>3. CASE e = Entity("button", <<"reboot">>, <<"reboot">>, {}, {Word("ON")})
      BY <2>3 DEF Entity, Word, SaysWord
    <2>4. CASE e = Entity("text", <<"set_time">>, <<"set_time">>, {},
                          {Time(h, m) : h \in {0, 23}, m \in {0, 59}})
      BY <2>4 DEF Entity, Time, SaysTime
    <2> QED BY <1>3, <2>1, <2>2, <2>3, <2>4 DEF DeviceEntities, Sensor, Entity
  <1> QED BY <1>1, <1>2, <1>3 DEF Entities

-----------------------------------------------------------------------------
(* A status tells the spa (generate_status_frame, StatusUpdate::parse).    *)

LEMMA PayloadBytes ==
    ASSUME NEW s, NEW c
    PROVE  LET p == StatusPayload(s, c)
           IN  /\ p[1] = Flag(s.items[HoldMode] = 1, 5)
               /\ p[2] = (IF c.fault.active THEN 2 ELSE Flag(c.priming > 0, 1))
               /\ p[3] = ReportedTemp(s, c) /\ p[4] = c.hour /\ p[5] = c.minute
               /\ p[6] = ModeBits[s.mode]
               /\ p[10] = Flag(s.scale = "Celsius", 1) + 2
               /\ p[11] = Flag(s.heating, 48) + Flag(s.range = "High", 4)
               /\ p[12] = PackPairs(s.items[1], s.items[2], s.items[3], s.items[4])
               /\ p[13] = PackPairs(s.items[5], s.items[6], 0, 0)
               /\ p[14] = Flag(s.circ, 2) + Flag(s.items[Blower] = 1, 12)
               /\ p[15] = PackPairs(3 * s.items[8], 3 * s.items[9], 3 * s.items[10], 3 * s.items[11])
               /\ p[16] = Flag(c.mister, 1) /\ p[21] = ToWire(s.set)
  BY DEF StatusPayload

LEMMA ItemsTyped ==
    ASSUME NEW s, SpaFits(s)
    PROVE  /\ \A i \in 1 .. 6 : s.items[i] \in 0 .. 2
           /\ \A i \in 7 .. 11 : s.items[i] \in 0 .. 1
           /\ s.items[HoldMode] \in 0 .. 1
  BY ItemsOfThePanel DEF SpaFits, SpaRecords, ItemStates

LEMMA PumpsTold ==
    ASSUME NEW s, SpaFits(s), NEW c, NEW i \in 1 .. 6
    PROVE  ParseStatus(StatusPayload(s, c)).pumps[i] = s.items[i]
  <1> DEFINE p == StatusPayload(s, c)
             raw == DecodePumpRaw(p[12], p[13])
  <1>1. /\ p[12] = PackPairs(s.items[1], s.items[2], s.items[3], s.items[4])
        /\ p[13] = PackPairs(s.items[5], s.items[6], 0, 0)
    BY PayloadBytes
  <1>2. \A k \in 1 .. 6 : s.items[k] \in 0 .. 3 /\ s.items[k] # 3
    BY ItemsTyped
  <1> HIDE DEF p
  <1>3. /\ raw[1] = s.items[1] /\ raw[2] = s.items[2] /\ raw[3] = s.items[3]
        /\ raw[4] = s.items[4] /\ raw[5] = s.items[5] /\ raw[6] = s.items[6]
    BY <1>1, <1>2, Unpack, PairsOfPumps
  <1>4. raw[i] = s.items[i] /\ raw[i] # 3
    BY <1>2, <1>3
  <1>5. ParseStatus(p).pumps = [k \in 1 .. 6 |-> IF raw[k] = 3 THEN 0 ELSE raw[k]]
    BY DEF ParseStatus
  <1> HIDE DEF raw
  <1> QED BY <1>4, <1>5 DEF p

LEMMA LightsTold ==
    ASSUME NEW s, SpaFits(s), NEW c, NEW i \in 1 .. 4
    PROVE  ParseStatus(StatusPayload(s, c)).lights[i] = (s.items[7 + i] = 1)
  <1> DEFINE p == StatusPayload(s, c)
             raw == DecodeLights(p[15])
  <1>1. p[15] = PackPairs(3 * s.items[8], 3 * s.items[9], 3 * s.items[10], 3 * s.items[11])
    BY PayloadBytes
  <1>2. \A k \in 8 .. 11 : 3 * s.items[k] \in 0 .. 3 /\ (3 * s.items[k] # 0 <=> s.items[k] = 1)
    BY ItemsTyped
  <1> HIDE DEF p
  <1>3. /\ Bits(p[15], 0, 2) = 3 * s.items[8] /\ Bits(p[15], 2, 2) = 3 * s.items[9]
        /\ Bits(p[15], 4, 2) = 3 * s.items[10] /\ Bits(p[15], 6, 2) = 3 * s.items[11]
    BY <1>1, <1>2, Unpack
  <1>4. /\ raw[1] = (s.items[8] = 1) /\ raw[2] = (s.items[9] = 1)
        /\ raw[3] = (s.items[10] = 1) /\ raw[4] = (s.items[11] = 1)
    BY <1>2, <1>3, PairsOfLights
  <1>5. raw[i] = (s.items[7 + i] = 1)
    BY <1>4
  <1>6. ParseStatus(p).lights = raw
    BY DEF ParseStatus
  <1> HIDE DEF raw
  <1> QED BY <1>5, <1>6 DEF p

(* The temperature, to half a step (Temperature::to_wire).                 *)
LEMMA Between ==
    ASSUME NEW a \in Int, NEW b \in Int, NEW v \in Int
    PROVE  v \in a .. b <=> a <= v /\ v <= b
  OBVIOUS

LEMMA TempTold ==
    ASSUME NEW scale \in Scales, NEW temp \in Int,
           NEW wire, wire = ToWire(Temperature(temp, scale)),
           NEW told, told = IF wire < 0 \/ wire > 255 THEN 255 ELSE wire,
           NEW shows, shows = IF told = 255 THEN None ELSE FromWire(told, scale).value
    PROVE  IF temp \notin Tellable(scale) THEN shows = None
           ELSE shows - temp \in -HalfStep(scale) .. HalfStep(scale)
  <1> DEFINE h == HalfStep(scale)
             top == 255 * StepOf(scale) - HalfStep(scale) - 1
  <1> HIDE DEF h, top
  <1>1. CASE scale = "Celsius"
    <2>1. h = 250 /\ top = 127249
      BY <1>1, SMT DEF h, top, HalfStep, StepOf, Unit
    <2> DEFINE q == (2 * temp + 500) \div 1000
    <2>2. q \in Int /\ 1000 * q <= 2 * temp + 500 /\ 2 * temp + 500 < 1000 * q + 1000
      BY SMT
    <2>3. wire = IF 2 * temp + 500 < 0 THEN -1 ELSE IF 2 * temp + 500 > 255000 THEN 256 ELSE q
      BY <1>1, SMT DEF ToWire, Temperature, Unit, NegativeError, OverflowError
    <2>4. told # 255 => FromWire(told, scale).value = told * 500
      BY <1>1, SMT DEF FromWire, Temperature, Unit
    <2> HIDE DEF q
    <2>5. CASE -250 <= temp /\ temp <= 127249
      <3>1. told = q /\ told # 255 /\ told \in Int
        BY <2>2, <2>3, <2>5, SMT
      <3>2. shows = 500 * q
        BY <2>2, <2>4, <3>1, SMT
      <3>3. shows - temp \in Int /\ -h <= shows - temp /\ shows - temp <= h
        BY <2>1, <2>2, <3>2, SMT
      <3>4. temp \in -h .. top
        <4>1. -h \in Int /\ top \in Int /\ -h <= temp /\ temp <= top
          BY <2>1, <2>5, SMT
        <4> QED BY <4>1, Between, Zenon
      <3>5. shows - temp \in -h .. h
        <4>1. h \in Int /\ -h \in Int
          BY <2>1, SMT
        <4> QED BY <3>3, <4>1, Between, Zenon
      <3> QED BY <3>4, <3>5 DEF Tellable, h, top
    <2>6. CASE ~(-250 <= temp /\ temp <= 127249)
      <3>1. told = 255
        BY <2>2, <2>3, <2>6, SMT
      <3>2. temp \notin -h .. top
        <4>1. -h \in Int /\ top \in Int /\ ~(-h <= temp /\ temp <= top)
          BY <2>1, <2>6, SMT
        <4> QED BY <4>1, Between, Zenon
      <3> QED BY <3>1, <3>2 DEF Tellable, h, top
    <2> QED BY <2>5, <2>6
  <1>2. CASE scale = "Fahrenheit"
    <2>1. h = 500 /\ top = 254499
      BY <1>2, SMT DEF h, top, HalfStep, StepOf, Unit
    <2> DEFINE q == (temp + 500) \div 1000
    <2>2. q \in Int /\ 1000 * q <= temp + 500 /\ temp + 500 < 1000 * q + 1000
      BY SMT
    <2>3. wire = IF temp + 500 < 0 THEN -1 ELSE IF temp + 500 > 255000 THEN 256 ELSE q
      BY <1>2, SMT DEF ToWire, Temperature, Unit, NegativeError, OverflowError
    <2>4. told # 255 => FromWire(told, scale).value = told * 1000
      BY <1>2, SMT DEF FromWire, Temperature, Unit
    <2> HIDE DEF q
    <2>5. CASE -500 <= temp /\ temp <= 254499
      <3>1. told = q /\ told # 255 /\ told \in Int
        BY <2>2, <2>3, <2>5, SMT
      <3>2. shows = 1000 * q
        BY <2>2, <2>4, <3>1, SMT
      <3>3. shows - temp \in Int /\ -h <= shows - temp /\ shows - temp <= h
        BY <2>1, <2>2, <3>2, SMT
      <3>4. temp \in -h .. top
        <4>1. -h \in Int /\ top \in Int /\ -h <= temp /\ temp <= top
          BY <2>1, <2>5, SMT
        <4> QED BY <4>1, Between, Zenon
      <3>5. shows - temp \in -h .. h
        <4>1. h \in Int /\ -h \in Int
          BY <2>1, SMT
        <4> QED BY <3>3, <4>1, Between, Zenon
      <3> QED BY <3>4, <3>5 DEF Tellable, h, top
    <2>6. CASE ~(-500 <= temp /\ temp <= 254499)
      <3>1. told = 255
        BY <2>2, <2>3, <2>6, SMT
      <3>2. temp \notin -h .. top
        <4>1. -h \in Int /\ top \in Int /\ ~(-h <= temp /\ temp <= top)
          BY <2>1, <2>6, SMT
        <4> QED BY <4>1, Between, Zenon
      <3> QED BY <3>1, <3>2 DEF Tellable, h, top
    <2> QED BY <2>5, <2>6
  <1> QED BY <1>1, <1>2 DEF Scales

LEMMA StatusTold ==
    ASSUME NEW s, SpaFits(s), NEW c \in OtherRecords
    PROVE  /\ Agrees(ParseStatus(StatusPayload(s, c)), s, c)
           /\ KnowsScale(ParseStatus(StatusPayload(s, c)), s.scale)
  <1> DEFINE p == StatusPayload(s, c)
             st == ParseStatus(p)
             temp == Convert(Temperature(s.temp, "Fahrenheit"), s.scale).value
  <1>1. /\ p[1] = Flag(s.items[HoldMode] = 1, 5)
        /\ p[2] = (IF c.fault.active THEN 2 ELSE Flag(c.priming > 0, 1))
        /\ p[3] = ReportedTemp(s, c) /\ p[4] = c.hour /\ p[5] = c.minute
        /\ p[6] = ModeBits[s.mode]
        /\ p[10] = Flag(s.scale = "Celsius", 1) + 2
        /\ p[11] = Flag(s.heating, 48) + Flag(s.range = "High", 4)
        /\ p[14] = Flag(s.circ, 2) + Flag(s.items[Blower] = 1, 12)
        /\ p[16] = Flag(c.mister, 1) /\ p[21] = ToWire(s.set)
    BY PayloadBytes
  <1>2. /\ \A i \in 1 .. 6 : st.pumps[i] = s.items[i]
        /\ \A i \in 1 .. 4 : st.lights[i] = (s.items[7 + i] = 1)
    BY PumpsTold, LightsTold
  <1>3. /\ s.scale \in Scales /\ s.range \in Ranges /\ s.mode \in Modes /\ s.temp \in Int
        /\ s.heating \in BOOLEAN /\ s.circ \in BOOLEAN
        /\ c.fault.active \in BOOLEAN /\ c.priming \in Nat /\ c.mister \in BOOLEAN
    BY DEF SpaFits, SpaRecords, OtherRecords
  <1>4. s.items[Blower] \in 0 .. 1 /\ s.items[HoldMode] \in 0 .. 1
    BY ItemsTyped, ItemsOfThePanel
  <1> HIDE DEF p
  <1>5. st.scale = s.scale
    <2>1. Bits(p[10], 0, 1) = Flag(s.scale = "Celsius", 1)
      BY <1>1, <1>3, Powers DEF Bits, Flag
    <2> QED BY <1>3, <2>1 DEF ParseStatus, Flag, Scales
  <1>6. st.mode = s.mode
    <2>1. ModeBits[s.mode] \in 0 .. 3 /\ ModeBits[s.mode] % 4 = ModeBits[s.mode]
      BY <1>3 DEF Modes, ModeBits
    <2> QED BY <1>1, <1>3, <2>1 DEF ParseStatus, Modes, ModeBits
  <1>7. st.range = s.range /\ st.heating = s.heating
    <2>1. Bits(p[11], 2, 1) = Flag(s.range = "High", 1) /\ Bits(p[11], 4, 2) = Flag(s.heating, 3)
      BY <1>1, <1>3, Powers DEF Bits, Flag
    <2> QED BY <1>3, <2>1 DEF ParseStatus, Flag, Ranges
  <1>8. st.circ = s.circ /\ st.blower = (s.items[Blower] = 1)
    <2>1. Bits(p[14], 1, 1) = Flag(s.circ, 1) /\ Bits(p[14], 2, 2) = Flag(s.items[Blower] = 1, 3)
      BY <1>1, <1>3, <1>4, Powers DEF Bits, Flag
    <2> QED BY <1>3, <1>4, <2>1 DEF ParseStatus, Flag
  <1>9. /\ st.hold = (s.items[HoldMode] = 1) /\ st.hour = c.hour /\ st.minute = c.minute
        /\ st.mister = c.mister
    BY <1>1, <1>3, <1>4 DEF ParseStatus, Flag
  <1>10. st.priming = (c.priming > 0 /\ ~c.fault.active)
    BY <1>1, <1>3 DEF ParseStatus, Flag
  <1>11. st.set = s.set
    <2>1. PICK byte \in SpanBytes(s.scale) : s.set = FromWire(byte, s.scale)
      BY <1>3 DEF SpaFits, Targets, Ranges
    <2>2. p[21] = byte
      BY <1>1, <1>3, <2>1, SpanByte
    <2>3. st.set = FromWire(p[21], st.scale)
      BY DEF ParseStatus
    <2> QED BY <1>5, <2>1, <2>2, <2>3
  <1>12. IF c.unknown \/ temp \notin Tellable(s.scale) THEN st.temp = None
         ELSE st.temp - temp \in -HalfStep(s.scale) .. HalfStep(s.scale)
    <2> DEFINE wire == ToWire(Temperature(temp, s.scale))
               told == IF wire < 0 \/ wire > 255 THEN 255 ELSE wire
               shows == IF told = 255 THEN None ELSE FromWire(told, s.scale).value
    <2>1. temp \in Int /\ Convert(Temperature(s.temp, "Fahrenheit"), s.scale) = Temperature(temp, s.scale)
      BY <1>3 DEF Convert, Temperature, ToCelsius, ToFahrenheit, Unit
    <2>2. p[3] = IF c.unknown THEN 255 ELSE told
      BY <1>1, <2>1 DEF ReportedTemp
    <2>3. st.temp = IF p[3] = 255 THEN None ELSE FromWire(p[3], st.scale).value
      BY DEF ParseStatus
    <2>4. IF temp \notin Tellable(s.scale) THEN shows = None
          ELSE shows - temp \in -HalfStep(s.scale) .. HalfStep(s.scale)
      <3> HIDE DEF temp
      <3> QED BY <1>3, <2>1, TempTold
    <2>5. st.temp = IF c.unknown THEN None ELSE shows
      BY <1>5, <2>2, <2>3
    <2> HIDE DEF temp, shows, st
    <2> QED BY <2>4, <2>5
  <1>13. <<st.mode, st.range, st.scale, st.heating, st.circ, st.set>>
            = <<s.mode, s.range, s.scale, s.heating, s.circ, s.set>>
    BY <1>5, <1>6, <1>7, <1>8, <1>11
  <1>14. <<st.hour, st.minute, st.mister>> = <<c.hour, c.minute, c.mister>>
    BY <1>9
  <1>15. KnowsScale(st, s.scale)
    BY <1>3, <1>5, <1>7 DEF KnowsScale
  <1> HIDE DEF st
  <1>16. Agrees(st, s, c)
    BY <1>2, <1>8, <1>9, <1>10, <1>12, <1>13, <1>14, Zenon DEF Agrees
  <1> QED BY <1>15, <1>16 DEF st, p

-----------------------------------------------------------------------------
(* The answers to data requests (handle_0abf).                             *)

(* A part of a sequence, element by element.                               *)
LEMMA Slice ==
    ASSUME NEW S, NEW s, NEW m \in Int, NEW n \in Int, m <= n,
           NEW t \in Seq(S), Len(t) = n - m + 1, \A i \in 1 .. Len(t) : t[i] = s[m + i - 1]
    PROVE  SubSeq(s, m, n) = t
  <1>1. \A i \in m .. n : s[i] \in S
    <2> TAKE i \in m .. n
    <2> DEFINE j == i - m + 1
    <2>1. j \in 1 .. Len(t) /\ m + j - 1 = i
      OBVIOUS
    <2> HIDE DEF j
    <2>2. t[j] \in S /\ t[j] = s[i]
      BY <2>1
    <2> QED BY <2>2
  <1>2. /\ SubSeq(s, m, n) \in Seq(S) /\ Len(SubSeq(s, m, n)) = n - m + 1
        /\ \A i \in 1 .. n - m + 1 : SubSeq(s, m, n)[i] = s[m + i - 1]
    BY <1>1, SubSeqProperties
  <1> QED BY <1>2, SeqEqual

(* A frame is a byte and its body, and the body without the byte again.    *)
LEMMA BodyOfAnswer ==
    ASSUME NEW first, NEW T, NEW body \in Seq(T), Len(body) > 0
    PROVE  (<<first>> \o body) # <<>> /\ (<<first>> \o body)[1] = first
           /\ From(<<first>> \o body, 1) = body
  <1> DEFINE S == {first} \cup T
             p == <<first>> \o body
  <1>1. body \in Seq(S)
    BY SeqMonotonic
  <1>2. <<first>> \in Seq(S)
    OBVIOUS
  <1>3. /\ p \in Seq(S) /\ Len(p) = Len(body) + 1 /\ p[1] = first
        /\ \A k \in 1 .. Len(body) : p[k + 1] = body[k]
    BY <1>1, <1>2
  <1> HIDE DEF p, S
  <1>4. Len(body) \in Nat
    BY LenProperties
  <1>5. SubSeq(p, 2, Len(p)) = body
    BY <1>1, <1>3, <1>4, Slice
  <1>6. From(p, 1) = body
    BY <1>5 DEF From
  <1>7. p # <<>>
    BY <1>3, <1>4
  <1> QED BY <1>3, <1>6, <1>7 DEF p

LEMMA FaultAnswered ==
    ASSUME NEW code
    PROVE  LET a == Dispatch0abf(GenerateFaultLog(FaultLogConfig(code), <<>>, 1))
           IN  a.msg = "FaultLogResponse" /\ a.fault = FromCode(code)
  <1> DEFINE body == FaultBytes(FaultLogConfig(code))
             p == <<40>> \o body
             T == Nat \cup {code}
  <1>1. body \in Seq(T) /\ Len(body) = 10 /\ body[3] = code
    BY DEF FaultBytes, FaultLogConfig
  <1>2. GenerateFaultLog(FaultLogConfig(code), <<>>, 1) = p
    BY DEF GenerateFaultLog
  <1> HIDE DEF body, T
  <1>3. p # <<>> /\ p[1] = 40 /\ From(p, 1) = body
    BY <1>1, BodyOfAnswer
  <1> HIDE DEF p
  <1>4. Dispatch0abf(p) = ParseFaultLog(body)
    BY <1>3 DEF Dispatch0abf
  <1>5. ParseFaultLog(body).msg = "FaultLogResponse" /\ ParseFaultLog(body).fault = FromCode(code)
    BY <1>1 DEF ParseFaultLog
  <1> QED BY <1>2, <1>4, <1>5

LEMMA FiltersAnswered ==
    LET a == Dispatch0abf(GenerateFilterCycles(Filter1, Filter2))
    IN  a.msg = "FilterCyclesResponse" /\ a.filter1 = Filter1 /\ a.filter2 = Filter2
  <1> DEFINE body == <<8, 0, 4, 0, 144, 0, 2, 0>>
             p == <<35, 8, 0, 4, 0, 144, 0, 2, 0>>
  <1>1. GenerateFilterCycles(Filter1, Filter2) = p
    BY DEF GenerateFilterCycles, Filter1, Filter2, Flag
  <1>2. From(p, 1) = body
    <2>1. /\ Len(p) = 9 /\ body \in Seq(Nat) /\ Len(body) = 8
          /\ \A k \in 1 .. 8 : body[k] = p[2 + k - 1]
      OBVIOUS
    <2> HIDE DEF p, body
    <2>2. SubSeq(p, 2, 9) = body
      BY <2>1, Slice
    <2> QED BY <2>1, <2>2 DEF From
  <1>3. p # <<>> /\ p[1] = 35
    OBVIOUS
  <1>4. ParseFilterCycles(body) =
           [msg |-> "FilterCyclesResponse", filter1 |-> Filter1, filter2 |-> Filter2]
    <2>1. /\ body[1] = 8 /\ body[2] = 0 /\ body[3] = 4 /\ body[4] = 0
          /\ body[5] = 144 /\ body[6] = 0 /\ body[7] = 2 /\ body[8] = 0 /\ Len(body) = 8
      OBVIOUS
    <2> HIDE DEF body
    <2>2. body[5] % 128 = 16 /\ (body[5] >= 128) = TRUE /\ ~(Len(body) < 8)
      BY <2>1
    <2> QED BY <2>1, <2>2, Zenon DEF ParseFilterCycles, Filter1, Filter2
  <1> HIDE DEF p, body
  <1>5. Dispatch0abf(p) = ParseFilterCycles(body)
    BY <1>2, <1>3 DEF Dispatch0abf
  <1> QED BY <1>1, <1>4, <1>5

LEMMA ScaleAnswered ==
    ASSUME NEW scale \in Scales
    PROVE  LET a == Dispatch0abf(GenerateConfig(Configuration, scale))
           IN  /\ a.msg = "ControlConfiguration"
               /\ a.celsius = (scale = "Celsius") /\ a.circ /\ a.blower
  <1> DEFINE flag == Flag(scale = "Celsius", 1)
             body == [Configuration EXCEPT ![4] = (@ - (@ % 2)) + flag]
             p == <<46>> \o body
  <1>1. GenerateConfig(Configuration, scale) = p
    BY DEF GenerateConfig
  <1>2. flag \in 0 .. 1 /\ (flag = 1 <=> scale = "Celsius")
    BY DEF Flag
  <1> HIDE DEF flag
  <1>3. /\ body \in Seq(Nat) /\ Len(body) = 10 /\ body[4] = flag /\ body[9] = 129
    <2>1. /\ Configuration \in Seq(Nat) /\ Len(Configuration) = 10
          /\ Configuration[4] = 0 /\ Configuration[9] = 129
      BY DEF Configuration
    <2>2. body = [Configuration EXCEPT ![4] = flag]
      BY <1>2, <2>1
    <2> HIDE DEF body
    <2>3. [Configuration EXCEPT ![4] = flag] \in Seq(Nat)
      <3>1. Configuration \in [1 .. 10 -> Nat]
        BY <2>1, LenProperties
      <3>2. [Configuration EXCEPT ![4] = flag] \in [1 .. 10 -> Nat]
        BY <1>2, <3>1
      <3> QED BY <3>2, SeqDef
    <2>4. Len([Configuration EXCEPT ![4] = flag]) = 10
      BY <1>2, <2>1
    <2> QED BY <1>2, <2>1, <2>2, <2>3, <2>4
  <1> HIDE DEF body
  <1>4. p # <<>> /\ p[1] = 46 /\ From(p, 1) = body
    <2> DEFINE T == Nat
    <2>1. body \in Seq(T) /\ Len(body) > 0
      BY <1>3
    <2> HIDE DEF T
    <2> QED BY <2>1, BodyOfAnswer
  <1> HIDE DEF p
  <1>5. Dispatch0abf(p) = ParseConfig(body)
    BY <1>4 DEF Dispatch0abf
  <1>6. Bits(body[9], 7, 1) = 1 /\ Bits(body[9], 0, 2) = 1 /\ Bits(body[4], 0, 1) = flag
    BY <1>2, <1>3, Powers DEF Bits
  <1>7. /\ ParseConfig(body).msg = "ControlConfiguration"
        /\ ParseConfig(body).circ = (Bits(body[9], 7, 1) = 1)
        /\ ParseConfig(body).blower = (Bits(body[9], 0, 2) # 0)
        /\ ParseConfig(body).celsius = (Bits(body[4], 0, 1) = 1)
    BY <1>3 DEF ParseConfig
  <1>8. /\ ParseConfig(body).circ = TRUE /\ ParseConfig(body).blower = TRUE
        /\ ParseConfig(body).celsius = (scale = "Celsius")
    <2>1. /\ (Bits(body[9], 7, 1) = 1) = TRUE /\ (Bits(body[9], 0, 2) # 0) = TRUE
          /\ (Bits(body[4], 0, 1) = 1) = (scale = "Celsius")
      BY <1>2, <1>6
    <2> QED BY <1>7, <2>1, Zenon
  <1> QED BY <1>1, <1>5, <1>7, <1>8

LEMMA InformationAnswered ==
    LET a == Dispatch0abf(GenerateInformation(Information))
    IN  /\ a.msg = "InformationResponse"
        /\ a.dip = Information.dip /\ a.model = Information.model
  <1> DEFINE p == <<36, 100, 220, 17, 0, 66, 70, 66, 80, 50, 48, 32, 32, 1, 61, 18, 56, 46, 1, 10, 4, 0>>
             body == <<100, 220, 17, 0, 66, 70, 66, 80, 50, 48, 32, 32, 1, 61, 18, 56, 46, 1, 10, 4, 0>>
             model == <<66, 70, 66, 80, 50, 48, 32, 32>>
             dip == <<4, 0>>
  <1>1. GenerateInformation(Information) = p
    <2> DEFINE q == GenerateInformation(Information)
    <2>1. q = <<36>> \o <<100, 220, 17, 0>> \o <<66, 70, 66, 80, 50, 48, 32, 32>> \o <<1>>
                 \o <<61, 18, 56, 46>> \o <<1, 10>> \o <<4, 0>>
      BY DEF GenerateInformation, Information
    <2>2. q \in Seq(Nat) /\ Len(q) = 22 /\ \A k \in 1 .. 22 : q[k] = p[k]
      BY <2>1
    <2>3. p \in Seq(Nat) /\ Len(p) = 22
      OBVIOUS
    <2> HIDE DEF p, q
    <2>4. q = p
      BY <2>2, <2>3, SeqEqual
    <2> QED BY <2>4 DEF q
  <1>2. From(p, 1) = body
    <2>1. /\ Len(p) = 22 /\ body \in Seq(Nat) /\ Len(body) = 21
          /\ \A k \in 1 .. 21 : body[k] = p[2 + k - 1]
      OBVIOUS
    <2> HIDE DEF p, body
    <2>2. SubSeq(p, 2, 22) = body
      BY <2>1, Slice
    <2> QED BY <2>1, <2>2 DEF From
  <1>3. SubSeq(body, 5, 12) = model
    <2>1. model \in Seq(Nat) /\ Len(model) = 8 /\ \A k \in 1 .. 8 : model[k] = body[5 + k - 1]
      OBVIOUS
    <2> HIDE DEF body, model
    <2> QED BY <2>1, Slice
  <1>4. SubSeq(body, 20, 21) = dip
    <2>1. dip \in Seq(Nat) /\ Len(dip) = 2 /\ \A k \in 1 .. 2 : dip[k] = body[20 + k - 1]
      OBVIOUS
    <2> HIDE DEF body, dip
    <2> QED BY <2>1, Slice
  <1>5. p # <<>> /\ p[1] = 36 /\ Len(body) = 21
    OBVIOUS
  <1>6. Information.model = model /\ Information.dip = dip
    BY DEF Information
  <1> HIDE DEF p, body, model, dip
  <1>7. Dispatch0abf(p) = ParseInformation(body)
    BY <1>2, <1>5 DEF Dispatch0abf
  <1>8. /\ ParseInformation(body).msg = "InformationResponse"
        /\ ParseInformation(body).dip = SubSeq(body, 20, 21)
        /\ ParseInformation(body).model = SubSeq(body, 5, 12)
    BY <1>5 DEF ParseInformation
  <1> QED BY <1>1, <1>3, <1>4, <1>6, <1>7, <1>8

-----------------------------------------------------------------------------
(* What an entity says is understood, and a target it sends is the one it  *)
(* shows (parse_command, discovery.rs).                                    *)
Understood(r, p, scale) ==
    /\ r.result \notin {"UnknownSubtopic", "InvalidPayload"}
    /\ IsTarget(r) => /\ p.is = "number"
                      /\ FromWire(r.cmd.temp, scale).value = p.v

LEMMA WordUnderstood ==
    ASSUME NEW scale \in Scales, NEW st, NEW e, NEW p, SaysWord(e, p)
    PROVE  Understood(ClientAccepts(e.writes, p, st), p, scale)
  <1> DEFINE sub == e.writes
  <1>1. CASE sub \in ToggleTopics
    <2>1. p # Empty
      BY DEF SaysWord, Empty
    <2>2. ParseCommand(sub, p) = Valid([kind |-> "ToggleItem", code |-> ToggleCode[sub]])
      <3>1. ParseCommand(sub, p) = ParseToggle(p, ToggleCode[sub])
        BY <1>1, Subtopics DEF ParseCommand, AllowedSubtopics, ToggleCode
      <3> QED BY <2>1, <3>1 DEF ParseToggle
    <2>3. ClientAccepts(sub, p, st) = ParseCommand(sub, p)
      BY <1>1, <2>2, Subtopics DEF ClientAccepts, Valid
    <2> QED BY <2>2, <2>3 DEF Understood, IsTarget, Valid
  <1>2. CASE sub = <<"sniff">>
    BY <1>2 DEF ClientAccepts, Valid, Understood, IsTarget
  <1>3. CASE sub = <<"reboot">>
    BY <1>3, Subtopics DEF ClientAccepts, Valid, Understood, IsTarget
  <1> QED BY <1>1, <1>2, <1>3 DEF SaysWord

LEMMA TimeUnderstood ==
    ASSUME NEW scale \in Scales, NEW st, NEW e, NEW p, SaysTime(e, p)
    PROVE  Understood(ClientAccepts(e.writes, p, st), p, scale)
  <1>1. e.writes = <<"set_time">>
    BY DEF SaysTime
  <1>2. ParseCommand(e.writes, p) = ParseSetTime(p)
    BY <1>1, Subtopics DEF ParseCommand, AllowedSubtopics, ToggleCode
  <1>3. ParseSetTime(p) =
           Valid([kind |-> "SetTime", hour |-> p.h, minute |-> p.m, is24h |-> p.is24h])
    BY DEF ParseSetTime, SaysTime
  <1>4. ClientAccepts(e.writes, p, st) = ParseCommand(e.writes, p)
    BY <1>1, <1>2, <1>3, Subtopics DEF ClientAccepts, Valid
  <1> QED BY <1>2, <1>3, <1>4 DEF Understood, IsTarget, Valid

LEMMA SentExactly ==
    ASSUME NEW scale \in Scales, NEW e, NEW p, SaysNumber(e, p), NEW byte,
           SentByte(byte, p.v, scale)
    PROVE  FromWire(byte, scale).value = p.v
  <1> DEFINE v == p.v
  <1>1. v \in Int /\ (v % 1000 = 0 \/ (v % 500 = 0 /\ v <= 40000))
    BY DEF SaysNumber
  <1> HIDE DEF v
  <1>2. v % 500 = 0
    BY <1>1, SMT
  <1>3. CASE scale = "Celsius"
    <2>1. byte = (2 * v + 500) \div 1000
      BY <1>3 DEF SentByte, v
    <2>2. byte \in Int /\ byte * 500 = v
      BY <1>1, <1>2, <2>1, SMT
    <2> QED BY <1>3, <2>2, SMT DEF FromWire, Temperature, Unit, v
  <1>4. CASE scale = "Fahrenheit"
    <2>1. byte = (v + 500) \div 1000 /\ v >= 49500
      BY <1>4 DEF SentByte, v
    <2>2. byte \in Int /\ byte * 1000 = v
      BY <1>1, <2>1, SMT
    <2> QED BY <1>4, <2>2, SMT DEF FromWire, Temperature, Unit, v
  <1> QED BY <1>3, <1>4 DEF Scales

LEMMA NumberUnderstood ==
    ASSUME NEW scale \in Scales, NEW st, KnowsScale(st, scale), NEW e, NEW p, SaysNumber(e, p)
    PROVE  Understood(ClientAccepts(e.writes, p, st), p, scale)
  <1> DEFINE r == ParseSetTemperature(p)
             a == ClientAccepts(e.writes, p, st)
  <1>1. e.writes = <<"set_temperature">> /\ p.is = "number"
    BY DEF SaysNumber
  <1>2. ParseCommand(e.writes, p) = r
    BY <1>1, Subtopics DEF ParseCommand, AllowedSubtopics, ToggleCode
  <1>3. p.v \in 0 .. 255 * Unit
    <2>1. Unit \in Int /\ 255 * Unit = 255000
      BY SMT DEF Unit
    <2>2. p.v \in Int /\ 0 <= p.v /\ p.v <= 255 * Unit
      BY <2>1, SMT DEF SaysNumber
    <2> QED BY <2>1, <2>2, SMT
  <1>4. \/ r = Refused("TemperatureOutOfRange")
        \/ r = Valid([kind |-> "SetTemperature", temp |-> RoundToByte(p.v)])
    BY <1>1, <1>3, SMT DEF ParseSetTemperature
  <1>5. CASE r = Refused("TemperatureOutOfRange")
    <2>1. a = r
      BY <1>1, <1>2, <1>5, Subtopics DEF ClientAccepts, Refused
    <2> QED BY <1>5, <2>1 DEF Understood, IsTarget, Refused
  <1>6. CASE r = Valid([kind |-> "SetTemperature", temp |-> RoundToByte(p.v)])
    <2>1. r.result = "Valid" /\ r.cmd = [kind |-> "SetTemperature", temp |-> RoundToByte(p.v)]
      BY <1>6 DEF Valid
    <2>2. \/ a = Refused("NoStatusYet") \/ a = Refused("TemperatureOutOfRange")
          \/ /\ st # NothingYet /\ ValidTemperature(r.cmd.temp, st.scale, st.range)
             /\ a = Valid([r.cmd EXCEPT !.temp = WireTemperature(p, @, st.scale)])
      BY <1>1, <1>2, <2>1, Subtopics, SMT DEF ClientAccepts
    <2>3. CASE a \in {Refused("NoStatusYet"), Refused("TemperatureOutOfRange")}
      BY <2>3 DEF Understood, IsTarget, Refused
    <2>4. CASE /\ st # NothingYet /\ ValidTemperature(r.cmd.temp, st.scale, st.range)
               /\ a = Valid([r.cmd EXCEPT !.temp = WireTemperature(p, @, st.scale)])
      <3>1. st.scale = scale /\ st.range \in Ranges
        BY <2>4 DEF KnowsScale
      <3>2. SentByte(WireTemperature(p, r.cmd.temp, scale), p.v, scale)
        BY <2>1, <2>4, <3>1, NumberAccepted
      <3>3. a.result = "Valid" /\ a.cmd.temp = WireTemperature(p, r.cmd.temp, scale)
        BY <2>1, <2>4, <3>1 DEF Valid
      <3>4. FromWire(a.cmd.temp, scale).value = p.v
        BY <3>2, <3>3, SentExactly
      <3> QED BY <1>1, <3>3, <3>4 DEF Understood
    <2> QED BY <2>2, <2>3, <2>4
  <1> QED BY <1>4, <1>5, <1>6

-----------------------------------------------------------------------------
(* The invariant.  The spa keeps the form it starts with, in the scale it  *)
(* starts in; the status the device holds is of that scale; what waits for *)
(* the spa is a command for such a spa; and what was shown is what was     *)
(* last seen, but for the clock.                                           *)
PanelInv ==
    /\ SpaFits(spa) /\ x \in OtherRecords /\ KnowsScale(last, spa.scale)
    /\ unit \in BOOLEAN /\ ops \in 0 .. MaxOps /\ age \in 0 .. Patience
    /\ pipe \in Seq(PanelCommands(spa.scale)) /\ Len(pipe) <= PipeBound
    /\ shown # NothingYet => \A f \in ComparedFields : shown[f] = last[f]
    /\ EntitiesUnderstood /\ TargetSentExactly
    /\ AnswersAreTruthful

LEMMA PanelInit == Init => PanelInv
  <1> SUFFICES ASSUME Init PROVE PanelInv
    OBVIOUS
  <1>1. SpaFits(spa)
    BY DefaultFits DEF Init
  <1>2. x \in OtherRecords
    BY PanelAssumption DEF Init, OtherRecords, NoFault
  <1>3. /\ pipe \in Seq(PanelCommands(spa.scale)) /\ Len(pipe) = 0
    BY DEF Init
  <1>4. EntitiesUnderstood /\ TargetSentExactly
    BY DEF Init, EntitiesUnderstood, TargetSentExactly, NoInput
  <1>5. AnswersAreTruthful
    BY DEF Init, AnswersAreTruthful, NothingYet
  <1>6. KnowsScale(last, spa.scale) /\ shown = NothingYet
    BY DEF Init, KnowsScale
  <1>7. unit \in BOOLEAN
    BY Zenon DEF Init
  <1>8. ops = 0 /\ age = 0
    BY DEF Init
  <1>9. ops \in 0 .. MaxOps /\ age \in 0 .. Patience /\ Len(pipe) <= PipeBound
    BY <1>3, <1>8, PanelAssumption
  <1> QED BY <1>1, <1>2, <1>3, <1>4, <1>5, <1>6, <1>7, <1>9, Zenon DEF PanelInv

(* Where nothing is heard or answered, those parts hold.                   *)
LEMMA QuietSteps ==
    ASSUME Quiet PROVE EntitiesUnderstood' /\ TargetSentExactly' /\ AnswersAreTruthful'
  <1>1. EntitiesUnderstood' /\ TargetSentExactly'
    BY DEF Quiet, EntitiesUnderstood, TargetSentExactly, NoInput
  <1>2. AnswersAreTruthful'
    BY DEF Quiet, AnswersAreTruthful, NothingYet
  <1> QED BY <1>1, <1>2

LEMMA ClockFits ==
    ASSUME NEW c \in OtherRecords
    PROVE  NextMinute(c) \in OtherRecords /\ CountDown(c) \in OtherRecords
  <1>1. NextMinute(c) \in OtherRecords
    <2>1. CASE c.minute + 1 < MinutesPerHour
      BY <2>1, PanelAssumption DEF NextMinute, OtherRecords
    <2>2. CASE ~(c.minute + 1 < MinutesPerHour)
      <3>1. PICK h \in 0 .. HoursPerDay - 1 : h = (c.hour + 1) % HoursPerDay
        BY PanelAssumption DEF OtherRecords
      <3>2. NextMinute(c) = [c EXCEPT !.minute = 0, !.hour = h]
        BY <2>2, <3>1 DEF NextMinute
      <3>3. 0 \in 0 .. MinutesPerHour - 1
        BY PanelAssumption
      <3> QED BY <3>2, <3>3 DEF OtherRecords
    <2> QED BY <2>1, <2>2
  <1>2. CountDown(c) \in OtherRecords
    <2>1. FaultTick(c.fault) \in [active : BOOLEAN, left : Nat, code : Codes \cup {27}]
      <3>1. CASE c.fault.left = 0
        BY <3>1 DEF FaultTick, OtherRecords
      <3>2. CASE c.fault.left # 0
        <4>1. (c.fault.left # 1) \in BOOLEAN /\ c.fault.left - 1 \in Nat
          BY <3>2 DEF OtherRecords
        <4> QED BY <3>2, <4>1 DEF FaultTick, OtherRecords
      <3> QED BY <3>1, <3>2
    <2>2. (IF c.priming > 0 THEN c.priming - 1 ELSE 0) \in Nat
      BY DEF OtherRecords
    <2> QED BY <2>1, <2>2 DEF CountDown, OtherRecords
  <1> QED BY <1>1, <1>2

(* A skipped publication changes nothing that is compared; one that is     *)
(* made shows the status.                                                  *)
StatusFields ==
    ComparedFields \cup {"msg", "hour", "minute", "filter", "priming", "sensorA", "sensorB"}
LEMMA StatusDomain == \A p : DOMAIN ParseStatus(p) = StatusFields
  BY DEF ParseStatus, StatusFields, ComparedFields

LEMMA ShownFollows ==
    ASSUME NEW status, ComparedFields \subseteq DOMAIN status, StateArrives(status)
    PROVE  shown' # NothingYet => \A f \in ComparedFields : shown'[f] = last'[f]
  <1>1. CASE StatusChanged(shown, status)
    <2>1. shown' = [status EXCEPT !.hour = 0, !.minute = 0] /\ last' = status
      BY <1>1 DEF StateArrives, WithoutClock
    <2> SUFFICES ASSUME NEW f \in ComparedFields PROVE shown'[f] = last'[f]
      OBVIOUS
    <2>2. f \in DOMAIN status /\ f # "hour" /\ f # "minute"
      BY DEF ComparedFields
    <2> QED BY <2>1, <2>2
  <1>2. CASE ~StatusChanged(shown, status)
    BY <1>2 DEF StateArrives, StatusChanged
  <1> QED BY <1>1, <1>2

LEMMA TickStep ==
    ASSUME PanelInv, Tick
    PROVE  PanelInv' /\ Agrees(last', spa', NextMinute(x))
  <1> DEFINE timed == NextMinute(x)
             status == ParseStatus(StatusPayload(spa', timed))
  <1>1. /\ spa' = SimulatePhysics(spa) /\ x' = CountDown(timed)
        /\ StateArrives(HandleStatus(GenerateStatus(spa', timed)))
        /\ age' = Smaller(age + 1, Patience) /\ Quiet /\ UNCHANGED <<unit, pipe, ops>>
    BY DEF Tick
  <1>2. SpaFits(spa') /\ spa'.scale = spa.scale
    BY <1>1, PhysicsFits DEF PanelInv
  <1>3. timed \in OtherRecords /\ x' \in OtherRecords
    BY <1>1, ClockFits DEF PanelInv
  <1>4. StateArrives(status)
    BY <1>1, SentIsParsed
  <1>5. last' = status
    BY <1>4 DEF StateArrives
  <1>6. Agrees(last', spa', timed) /\ KnowsScale(last', spa'.scale)
    BY <1>2, <1>3, <1>5, StatusTold
  <1>7. shown' # NothingYet => \A f \in ComparedFields : shown'[f] = last'[f]
    <2>1. ComparedFields \subseteq DOMAIN status
      BY StatusDomain DEF StatusFields
    <2> HIDE DEF status
    <2> QED BY <1>4, <2>1, ShownFollows
  <1>8. age' \in 0 .. Patience
    BY <1>1, PanelAssumption DEF PanelInv, Smaller
  <1>9. EntitiesUnderstood' /\ TargetSentExactly' /\ AnswersAreTruthful'
    BY <1>1, QuietSteps
  <1> HIDE DEF timed, status
  <1>10. PanelInv'
    BY <1>1, <1>2, <1>3, <1>6, <1>7, <1>8, <1>9 DEF PanelInv
  <1> QED BY <1>6, <1>10 DEF timed

(* A command takes its way to the spa.                                     *)
LEMMA PipeGrows ==
    ASSUME PanelInv, NEW sub, NEW p \in Texts, NEW from, Len(pipe) < PipeBound,
           Receive(from, sub, p)
    PROVE  /\ pipe' \in Seq(PanelCommands(spa.scale)) /\ Len(pipe') <= PipeBound
  <1> DEFINE r == ClientAccepts(sub, p, last)
  <1>1. spa.scale \in Scales
    BY DEF PanelInv, SpaFits, SpaRecords
  <1>2. pipe' = IF r.result = "Valid" THEN Append(pipe, r.cmd) ELSE pipe
    BY DEF Receive
  <1>3. r.result = "Valid" => r.cmd \in PanelCommands(spa.scale)
    BY <1>1, CommandAccepted DEF PanelInv
  <1> DEFINE S == PanelCommands(spa.scale)
  <1>4. pipe \in Seq(S) /\ Len(pipe) \in Nat
    BY LenProperties DEF PanelInv
  <1> HIDE DEF r, S
  <1>5. CASE r.result = "Valid"
    <2>1. r.cmd \in S /\ pipe' = Append(pipe, r.cmd)
      BY <1>2, <1>3, <1>5 DEF S
    <2>2. pipe' \in Seq(S) /\ Len(pipe') = Len(pipe) + 1
      BY <1>4, <2>1, AppendProperties
    <2> QED BY <1>4, <2>2, PanelAssumption DEF S
  <1>6. CASE r.result # "Valid"
    BY <1>2, <1>4, <1>6, PanelAssumption DEF S
  <1> QED BY <1>5, <1>6

LEMMA EntityStep ==
    ASSUME PanelInv, NEW e \in Entities[unit], NEW p \in e.sends, UserOperates(e, p)
    PROVE  PanelInv'
  <1> DEFINE r == ClientAccepts(e.writes, p, last)
  <1>1. Counted /\ Len(pipe) < PipeBound /\ Receive("entity", e.writes, p)
    BY DEF UserOperates
  <1>2. p \in Texts
    BY DEF Texts, PanelInv
  <1>3. pipe' \in Seq(PanelCommands(spa.scale)) /\ Len(pipe') <= PipeBound
    BY <1>1, <1>2, PipeGrows
  <1>4. Understood(r, p, spa.scale)
    <2>1. spa.scale \in Scales /\ KnowsScale(last, spa.scale) /\ unit \in BOOLEAN
      BY DEF PanelInv, SpaFits, SpaRecords
    <2>2. SaysWord(e, p) \/ SaysNumber(e, p) \/ SaysTime(e, p)
      BY <2>1, EntitySays
    <2> QED BY <2>1, <2>2, WordUnderstood, NumberUnderstood, TimeUnderstood
  <1>5. heard' = [from |-> "entity", got |-> r, want |-> IF p.is = "number" THEN p.v ELSE None]
    BY <1>1 DEF Receive
  <1>6. answer' = NothingYet /\ UNCHANGED <<spa, x, last, shown, unit>>
    BY <1>1 DEF Receive
  <1> HIDE DEF r
  <1>7. EntitiesUnderstood' /\ TargetSentExactly'
    BY <1>4, <1>5, <1>6 DEF EntitiesUnderstood, TargetSentExactly, Understood, IsTarget
  <1>8. AnswersAreTruthful'
    BY <1>6 DEF AnswersAreTruthful, NothingYet
  <1>9. ops' \in 0 .. MaxOps /\ age' \in 0 .. Patience
    BY <1>1, PanelAssumption DEF PanelInv, Counted
  <1> QED BY <1>3, <1>6, <1>7, <1>8, <1>9 DEF PanelInv

LEMMA WebStep ==
    ASSUME PanelInv, NEW t \in WebTexts, WebPublishes(t) PROVE PanelInv'
  <1>1. Counted /\ Len(pipe) < PipeBound /\ Receive("web", t.sub, t.text)
    BY DEF WebPublishes
  <1>2. t.text \in Texts
    BY DEF Texts
  <1>3. pipe' \in Seq(PanelCommands(spa.scale)) /\ Len(pipe') <= PipeBound
    BY <1>1, <1>2, PipeGrows
  <1>4. /\ heard'.from = "web" /\ answer' = NothingYet
        /\ UNCHANGED <<spa, x, last, shown, unit>>
    BY <1>1 DEF Receive
  <1>5. EntitiesUnderstood' /\ TargetSentExactly' /\ AnswersAreTruthful'
    BY <1>4 DEF EntitiesUnderstood, TargetSentExactly, AnswersAreTruthful, NothingYet
  <1>6. ops' \in 0 .. MaxOps /\ age' \in 0 .. Patience
    BY <1>1, PanelAssumption DEF PanelInv, Counted
  <1> QED BY <1>3, <1>4, <1>5, <1>6 DEF PanelInv

LEMMA ExecuteStep ==
    ASSUME PanelInv, SpaExecutes PROVE PanelInv'
  <1> DEFINE S == PanelCommands(spa.scale)
  <1>1. /\ pipe # <<>> /\ spa' = SpaTakes(spa, EncodeCommand(Head(pipe))) /\ pipe' = Tail(pipe)
        /\ Quiet /\ UNCHANGED <<x, last, shown, unit, ops, age>>
    BY DEF SpaExecutes
  <1>2. pipe \in Seq(S) /\ Len(pipe) <= PipeBound
    BY DEF PanelInv
  <1> HIDE DEF S
  <1>3. Head(pipe) \in S /\ pipe' \in Seq(S) /\ Len(pipe') <= PipeBound
    BY <1>1, <1>2, HeadTailProperties, PanelAssumption
  <1>4. SpaFits(spa') /\ spa'.scale = spa.scale
    BY <1>1, <1>3, CommandTaken DEF PanelInv, S
  <1>5. EntitiesUnderstood' /\ TargetSentExactly' /\ AnswersAreTruthful'
    BY <1>1, QuietSteps
  <1>6. pipe' \in Seq(PanelCommands(spa'.scale))
    BY <1>3, <1>4 DEF S
  <1> QED BY <1>1, <1>3, <1>4, <1>5, <1>6 DEF PanelInv

LEMMA AskStep ==
    ASSUME PanelInv, NEW c \in Requests, DeviceAsks(c) PROVE PanelInv'
  <1>1. /\ answer' = Dispatch0abf(GenerateAnswer(EncodeCommand(c)))
        /\ heard' = NoInput /\ UNCHANGED <<spa, x, last, shown, unit, pipe>> /\ Counted
    BY DEF DeviceAsks
  <1>2. AnswersAreTruthful'
    <2>1. CASE c = [kind |-> "FaultLogRequest", entry |-> 255]
      <3>1. EncodeCommand(c) = <<34, 32, 255, 0>>
        BY <2>1 DEF EncodeCommand
      <3>2. GenerateAnswer(EncodeCommand(c)) =
               GenerateFaultLog(FaultLogConfig(x.fault.code), <<>>, 1)
        BY <3>1 DEF GenerateAnswer
      <3>3. answer'.msg = "FaultLogResponse" /\ answer'.fault = FromCode(x'.fault.code)
        BY <1>1, <3>2, FaultAnswered
      <3> QED BY <3>3 DEF AnswersAreTruthful, FromCode
    <2>2. CASE c = [kind |-> "FilterCyclesRequest"]
      <3>1. EncodeCommand(c) = <<34, 1, 0, 0>>
        BY <2>2 DEF EncodeCommand
      <3>2. GenerateAnswer(EncodeCommand(c)) = GenerateFilterCycles(Filter1, Filter2)
        BY <3>1 DEF GenerateAnswer
      <3>3. /\ answer'.msg = "FilterCyclesResponse"
            /\ answer'.filter1 = Filter1 /\ answer'.filter2 = Filter2
        BY <1>1, <3>2, FiltersAnswered
      <3> QED BY <3>3 DEF AnswersAreTruthful
    <2>3. CASE c = [kind |-> "InformationRequest"]
      <3>1. EncodeCommand(c) = <<34, 2, 0, 0>>
        BY <2>3 DEF EncodeCommand
      <3>2. GenerateAnswer(EncodeCommand(c)) = GenerateInformation(Information)
        BY <3>1 DEF GenerateAnswer
      <3>3. /\ answer'.msg = "InformationResponse"
            /\ answer'.dip = Information.dip /\ answer'.model = Information.model
        BY <1>1, <3>2, InformationAnswered
      <3> QED BY <3>3 DEF AnswersAreTruthful
    <2>4. CASE c = [kind |-> "ConfigurationRequest"]
      <3>1. EncodeCommand(c) = <<4>>
        BY <2>4 DEF EncodeCommand
      <3>2. GenerateAnswer(EncodeCommand(c)) = GenerateConfig(Configuration, spa.scale)
        BY <3>1 DEF GenerateAnswer
      <3>3. spa.scale \in Scales
        BY DEF PanelInv, SpaFits, SpaRecords
      <3>4. /\ answer'.msg = "ControlConfiguration"
            /\ answer'.celsius = (spa'.scale = "Celsius") /\ answer'.circ /\ answer'.blower
        BY <1>1, <3>2, <3>3, ScaleAnswered
      <3> QED BY <3>4 DEF AnswersAreTruthful
    <2> QED BY <2>1, <2>2, <2>3, <2>4 DEF Requests
  <1>3. EntitiesUnderstood' /\ TargetSentExactly'
    BY <1>1 DEF EntitiesUnderstood, TargetSentExactly, NoInput
  <1>4. ops' \in 0 .. MaxOps /\ age' \in 0 .. Patience
    BY <1>1, PanelAssumption DEF PanelInv, Counted
  <1> QED BY <1>1, <1>2, <1>3, <1>4 DEF PanelInv

(* What the tests do to the simulator.                                     *)
LEMMA DisturbStep ==
    ASSUME PanelInv, NEW other \in OtherRecords, Disturb(spa, other) PROVE PanelInv'
  <1>1. spa' = spa /\ x' = other /\ Quiet /\ UNCHANGED <<last, shown, unit, pipe>> /\ Counted
    BY DEF Disturb
  <1>2. EntitiesUnderstood' /\ TargetSentExactly' /\ AnswersAreTruthful'
    BY <1>1, QuietSteps
  <1>3. ops' \in 0 .. MaxOps /\ age' \in 0 .. Patience
    BY <1>1, PanelAssumption DEF PanelInv, Counted
  <1> QED BY <1>1, <1>2, <1>3 DEF PanelInv

LEMMA DisturbancesFit ==
    ASSUME x \in OtherRecords
    PROVE  /\ \A code \in Codes :
                 /\ [x EXCEPT !.fault = FaultState(@, code)] \in OtherRecords
                 /\ [x EXCEPT !.fault = TransientFault(@, code, 1)] \in OtherRecords
           /\ [x EXCEPT !.fault = ClearFault(@)] \in OtherRecords
           /\ \A ticks \in {0, 2} : [x EXCEPT !.priming = ticks] \in OtherRecords
           /\ [x EXCEPT !.unknown = ~@] \in OtherRecords
           /\ \A mister \in BOOLEAN : [x EXCEPT !.mister = mister] \in OtherRecords
  <1>1. \A code \in Codes :
           /\ [x EXCEPT !.fault = FaultState(@, code)] \in OtherRecords
           /\ [x EXCEPT !.fault = TransientFault(@, code, 1)] \in OtherRecords
    <2> DEFINE F == [active : BOOLEAN, left : Nat, code : Codes \cup {27}]
    <2>1. \A f \in F : [x EXCEPT !.fault = f] \in OtherRecords
      BY DEF OtherRecords
    <2> SUFFICES ASSUME NEW code \in Codes
                 PROVE  /\ [x EXCEPT !.fault = FaultState(@, code)] \in OtherRecords
                        /\ [x EXCEPT !.fault = TransientFault(@, code, 1)] \in OtherRecords
      OBVIOUS
    <2>2. x.fault \in F
      BY DEF OtherRecords
    <2>3. TransientFault(x.fault, code, 1) \in F
      BY <2>2 DEF TransientFault
    <2>4. FaultState(x.fault, code) \in F
      BY <2>2 DEF FaultState
    <2>5. /\ [x EXCEPT !.fault = FaultState(@, code)]
                = [x EXCEPT !.fault = FaultState(x.fault, code)]
          /\ [x EXCEPT !.fault = TransientFault(@, code, 1)]
                = [x EXCEPT !.fault = TransientFault(x.fault, code, 1)]
      OBVIOUS
    <2> HIDE DEF F
    <2> QED BY <2>1, <2>3, <2>4, <2>5
  <1>2. [x EXCEPT !.fault = ClearFault(@)] \in OtherRecords
    BY DEF OtherRecords, ClearFault
  <1>3. \A ticks \in {0, 2} : [x EXCEPT !.priming = ticks] \in OtherRecords
    BY DEF OtherRecords
  <1>4. [x EXCEPT !.unknown = ~@] \in OtherRecords
    <2>1. (~x.unknown) \in BOOLEAN
      OBVIOUS
    <2> QED BY <2>1 DEF OtherRecords
  <1>5. \A mister \in BOOLEAN : [x EXCEPT !.mister = mister] \in OtherRecords
    BY DEF OtherRecords
  <1> QED BY <1>1, <1>2, <1>3, <1>4, <1>5

LEMMA PanelStep ==
    ASSUME PanelInv, [Next]_vars PROVE PanelInv'
  <1>1. CASE Tick
    BY <1>1, TickStep
  <1>2. CASE \E e \in Entities[unit] : \E p \in e.sends : UserOperates(e, p)
    BY <1>2, EntityStep
  <1>3. CASE \E t \in WebTexts : WebPublishes(t)
    BY <1>3, WebStep
  <1>4. CASE SpaExecutes
    BY <1>4, ExecuteStep
  <1>5. CASE \E c \in Requests : DeviceAsks(c)
    BY <1>5, AskStep
  <1>6. CASE SpaFaults \/ SpaPrimes \/ SensorLost \/ PanelButtons
    <2>1. x \in OtherRecords
      BY DEF PanelInv
    <2>2. PICK other \in OtherRecords : Disturb(spa, other)
      BY <1>6, <2>1, DisturbancesFit, Zenon DEF SpaFaults, SpaPrimes, SensorLost, PanelButtons
    <2> QED BY <2>2, DisturbStep
  <1>7. CASE CircStops
    <2>1. /\ ops' = MaxOps /\ spa' = [spa EXCEPT !.circ = FALSE] /\ Quiet
          /\ UNCHANGED <<x, last, shown, unit, pipe, age>>
      BY <1>7 DEF CircStops
    <2>2. SpaFits(spa') /\ spa'.scale = spa.scale
      BY <2>1 DEF PanelInv, SpaFits, SpaRecords
    <2>3. EntitiesUnderstood' /\ TargetSentExactly' /\ AnswersAreTruthful'
      BY <2>1, QuietSteps
    <2> QED BY <2>1, <2>2, <2>3, PanelAssumption DEF PanelInv
  <1>8. CASE HaRestarts
    <2>1. /\ unit' \in BOOLEAN /\ Quiet /\ UNCHANGED <<spa, x, last, shown, pipe>> /\ Counted
      BY <1>8 DEF HaRestarts, Discovery
    <2>2. EntitiesUnderstood' /\ TargetSentExactly' /\ AnswersAreTruthful'
      BY <2>1, QuietSteps
    <2>3. ops' \in 0 .. MaxOps /\ age' \in 0 .. Patience
      BY <2>1, PanelAssumption DEF PanelInv, Counted
    <2> QED BY <2>1, <2>2, <2>3 DEF PanelInv
  <1>9. CASE UNCHANGED vars
    BY <1>9 DEF vars, PanelInv, EntitiesUnderstood, TargetSentExactly, AnswersAreTruthful
  <1> QED BY <1>1, <1>2, <1>3, <1>4, <1>5, <1>6, <1>7, <1>8, <1>9 DEF Next

(* What the invariant says of the properties.                              *)
LEMMA ShownFieldsListed ==
    ShownFields \subseteq {"current_temp", "set_temp", "is_heating", "pump", "light",
                           "heating_mode", "temp_range", "circ_pump", "hold_mode", "mister"}
  <1> DEFINE S == {"current_temp", "set_temp", "is_heating", "pump", "light", "heating_mode",
                   "temp_range", "circ_pump", "hold_mode", "mister"}
             D == DeviceFields \cup {"hour", "minute"}
  <1>1. \A e \in WaterEntities(TRUE) : e.shows \subseteq S \cup D
    BY DEF WaterEntities, Entity, Sensor, Switch, SetTemperatureEntity
  <1>2. \A e \in ModeEntities : e.shows \subseteq S \cup D
    BY DEF ModeEntities, Entity, Select, Switch, Optimistic
  <1>3. \A e \in DeviceEntities : e.shows \subseteq S \cup D
    BY DEF DeviceEntities, DeviceFields, Entity, Sensor, Optimistic
  <1>4. Entities[TRUE] = WaterEntities(TRUE) \cup ModeEntities \cup DeviceEntities
    BY DEF Entities
  <1> HIDE DEF S, D
  <1>5. \A e \in Entities[TRUE] : e.shows \subseteq S \cup D
    BY <1>1, <1>2, <1>3, <1>4
  <1>6. ShownFields \subseteq S
    BY <1>5 DEF ShownFields, D
  <1> QED BY <1>6 DEF S

LEMMA ShownStaysCurrent ==
    ASSUME PanelInv PROVE ShownIsCurrent
  <1> SUFFICES ASSUME shown # NothingYet, NEW f \in ShownFields
               PROVE  StateDocument(shown)[f] = StateDocument(last)[f]
    BY DEF ShownIsCurrent
  <1>1. \A g \in ComparedFields : shown[g] = last[g]
    BY DEF PanelInv
  <1>2. /\ shown.temp = last.temp /\ shown.set = last.set /\ shown.heating = last.heating
        /\ shown.pumps = last.pumps /\ shown.lights = last.lights /\ shown.mode = last.mode
        /\ shown.range = last.range /\ shown.circ = last.circ /\ shown.hold = last.hold
        /\ shown.mister = last.mister
    BY <1>1 DEF ComparedFields
  <1> QED BY <1>2, ShownFieldsListed DEF StateDocument

LEMMA OwnerIsTold ==
    ASSUME PanelInv PROVE OwnerSeesTheSpa
  <1>1. TypeOK
    <2>1. spa.items \in [TrackedItems -> ItemStates] /\ spa.temp \in Int
      BY DEF PanelInv, SpaFits, SpaRecords
    <2>2. x.hour \in 0 .. HoursPerDay - 1 /\ x.minute \in 0 .. MinutesPerHour - 1
      BY DEF PanelInv, OtherRecords
    <2> QED BY <2>1, <2>2 DEF PanelInv, TypeOK
  <1>2. AnswersAreTruthful
    BY DEF PanelInv
  <1> QED BY <1>1, <1>2, ShownStaysCurrent DEF OwnerSeesTheSpa

LEMMA CommandsAreKept ==
    ASSUME PanelInv PROVE CommandsAreMeant
  <1>1. EntitiesUnderstood /\ TargetSentExactly
    BY DEF PanelInv
  <1>2. SpaFits(spa) /\ spa.scale \in Scales
    BY DEF PanelInv, SpaFits, SpaRecords
  <1>3. AcceptedIsSendable
    <2>1. \A i \in DOMAIN pipe : pipe[i] \in PanelCommands(spa.scale)
      BY ElementOfSeq DEF PanelInv
    <2> QED BY <1>2, <2>1, CommandTaken DEF AcceptedIsSendable
  <1>4. TargetWithinSpan
    <2>1. spa.set \in Targets(spa.scale)
      BY <1>2 DEF SpaFits
    <2>2. PICK byte \in SpanBytes(spa.scale) : spa.set = FromWire(byte, spa.scale)
      BY <2>1 DEF Targets
    <2> QED BY <1>2, <2>2, SpanByte DEF TargetWithinSpan
  <1>5. RangeKeepsTarget
    BY <1>2 DEF SpaFits, RangeKeepsTarget
  <1> QED BY <1>1, <1>3, <1>4, <1>5 DEF CommandsAreMeant

(* The pieces of the panel fit, for every set of texts that the owner and  *)
(* the web may send and every order of steps: process_frame keeps the      *)
(* simulated spa in form, mqtt_task holds a status of its scale, and only  *)
(* commands that Command::encode can send wait in between.                 *)
THEOREM PanelInvariant == Spec => []PanelInv
  <1> QED BY PanelInit, PanelStep, PTL DEF Spec

(* What status_changed lets mqtt_task skip costs the owner nothing, and    *)
(* the answers decode to what the spa said, for every fault code.          *)
THEOREM OwnerSees == Spec => []OwnerSeesTheSpa
  <1> QED BY PanelInvariant, OwnerIsTold, PTL

(* What announced entities send is understood by parse_command, a target   *)
(* arrives as it was picked, every accepted command can be encoded, and no *)
(* text typed on the command topic takes the spa out of the span of its    *)
(* ranges or loses the target of the other range.                          *)
THEOREM CommandsMeant == Spec => []CommandsAreMeant
  <1> QED BY PanelInvariant, CommandsAreKept, PTL

(* The status frame is decoded to what was put in: generate_status_frame   *)
(* and parse_status_update agree on every bit of every state that the spa  *)
(* can reach.                                                              *)
THEOREM StatusTruth == Spec => StatusIsTruthful
  <1>1. PanelInv /\ [Next]_vars => [Tick => Agrees(last', spa', NextMinute(x))]_vars
    BY TickStep
  <1> QED BY <1>1, PanelInvariant, PTL DEF Spec, StatusIsTruthful
=============================================================================
