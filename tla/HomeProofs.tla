----------------------------- MODULE HomeProofs -----------------------------
(***************************************************************************)
(* Proofs about Home: what Google and the page are told follows the        *)
(* reports of the device, for every spa, every capacity of the rings and   *)
(* every length of the pipes, and a command of Google moves its own        *)
(* component only.                                                         *)
(***************************************************************************)
EXTENDS Home, SequenceTheorems, FiniteSetTheorems, WellFoundedInduction, TLAPS

-----------------------------------------------------------------------------
(* The inductive invariant.                                                *)

(* The spa, the reports on their way, and the one that was handled last.   *)
HalfDegree(v) == v \in Int /\ v % 500 = 0
Spas == [on : [Components -> BOOLEAN], temp : Int, set : Int, scale : Scales, range : {"High", "Low"}]
Reports == [topic : {"state"}, temp : Int, set : Int, on : [Components -> BOOLEAN]]
EntryMessages == [topic : EntryTopics, entry : Int]
Measured ==
    /\ spa \in Spas /\ HalfDegree(spa.temp)
    /\ link \in Seq(Reports \cup EntryMessages)
    /\ \A i \in DOMAIN link : link[i].topic = "state" => HalfDegree(link[i].temp)
    /\ reported # NothingYet => reported \in Reports /\ HalfDegree(reported.temp)

(* The newest sample tells the last report. *)
Samples == [temp : Int, set : Int]
SampleFits ==
    /\ samples \in Seq(Samples)
    /\ \A i \in DOMAIN samples : HalfDegree(samples[i].temp)
    /\ reported # NothingYet =>
          /\ samples # <<>> /\ Last(samples).set = reported.set
          /\ reported.temp # UnknownTemp => Last(samples).temp = reported.temp

(* The last event of a component, if the ring still has one, tells the     *)
(* last report.                                                            *)
Events == [component : Components, state : BOOLEAN]
Tells(ring, c, on) == EventsOf(ring, c) = {} \/ LastState(ring, c, FALSE) = on
EventsFit ==
    /\ events \in Seq(Events)
    /\ reported # NothingYet => \A c \in Components : Tells(events, c, reported.on[c])

(* The entries on their way are numbered on from those that were filed,    *)
(* and a ring holds the newest of these.                                   *)
After(q, t, i) == {j \in DOMAIN q : j > i /\ q[j].topic = t}
Behind(q, t, i) == Cardinality(After(q, t, i))
Numbered ==
    \A i \in DOMAIN link : link[i].topic # "state" =>
        link[i].entry = entries[link[i].topic] - Behind(link, link[i].topic, i)
RingHolds(ring, filed, clearedTo) ==
    /\ ring \in Seq(Int) /\ clearedTo \in Nat /\ clearedTo <= filed
    /\ Len(ring) = Min({EntryCap, filed - clearedTo})
    /\ \A i \in 1 .. Len(ring) : ring[i] = filed - Len(ring) + i
RingsFit ==
    /\ entries \in [EntryTopics -> Nat]
    /\ rings \in [EntryTopics -> Seq(Int)] /\ cleared \in [EntryTopics -> Nat]
    /\ Numbered /\ \A t \in EntryTopics : RingHolds(rings[t], Filed(t), cleared[t])

(* The accessories, and the commands on their way. *)
ConfigFits ==
    config \in [pumps : 1 .. 6, lights : 1 .. 4, blower : BOOLEAN, mister : BOOLEAN]
SwitchIds ==
    {<<"circ_pump">>, <<"blower">>, <<"mister">>}
      \cup {Name("pump", i) : i \in 1 .. 6} \cup {Name("light", i) : i \in 1 .. 4}
SwitchCommands ==
    {OnOffExecution(id, on) : id \in SwitchIds, on \in BOOLEAN}
ModeCommands == {ModeExecution(<<"thermostat">>, mode) : mode \in {"heat", "off"}}
TargetCommands ==
    {Execution(<<"thermostat">>, <<"set_temperature">>, Number(Unit * n)) : n \in Int}
CommandsFit == {channel, toDevice} \subseteq Seq(SwitchCommands \cup ModeCommands \cup TargetCommands)

(* The target asked for last is in the last command that sets one; behind  *)
(* that command it is the spa's.                                           *)
SetsTarget(x) == x.sub = <<"set_temperature">>
NoneSets(q) == \A i \in DOMAIN q : ~SetsTarget(q[i])
LastSets(q, target) ==
    \A i \in DOMAIN q :
        SetsTarget(q[i]) /\ (\A j \in DOMAIN q : j > i => ~SetsTarget(q[j]))
          => q[i].payload = target
OnItsWay(sent, queued, set, target) ==
    /\ LastSets(sent, target)
    /\ NoneSets(sent) => LastSets(queued, target)
    /\ NoneSets(sent) /\ NoneSets(queued) => set = target.v /\ set >= 0
AskedFits ==
    /\ asked \in Int
    /\ asked # NoSetpoint => OnItsWay(channel, toDevice, spa.set, SetpointPayload(asked))

HomeFits ==
    Measured /\ SampleFits /\ EventsFit /\ RingsFit /\ ConfigFits /\ CommandsFit /\ AskedFits

-----------------------------------------------------------------------------
(* Names of components.                                                    *)

(* The elements of two sequences put together. *)
LEMMA ToSetConcat ==
    ASSUME NEW S, NEW a \in Seq(S), NEW b \in Seq(S)
    PROVE  a \o b \in Seq(S) /\ ToSet(a \o b) = ToSet(a) \cup ToSet(b)
  <1>1. /\ a \o b \in Seq(S) /\ DOMAIN (a \o b) = 1 .. Len(a) + Len(b)
        /\ DOMAIN a = 1 .. Len(a) /\ DOMAIN b = 1 .. Len(b) /\ Len(a) \in Nat /\ Len(b) \in Nat
        /\ \A i \in 1 .. Len(a) : (a \o b)[i] = a[i]
        /\ \A i \in 1 .. Len(b) : (a \o b)[Len(a) + i] = b[i]
    OBVIOUS
  <1>2. ASSUME NEW x \in ToSet(a \o b) PROVE x \in ToSet(a) \cup ToSet(b)
    <2>1. PICK i \in 1 .. Len(a) + Len(b) : x = (a \o b)[i]
      BY <1>1 DEF ToSet
    <2>2. CASE i <= Len(a)
      BY <1>1, <2>1, <2>2 DEF ToSet
    <2>3. CASE ~(i <= Len(a))
      <3>1. i - Len(a) \in 1 .. Len(b) /\ Len(a) + (i - Len(a)) = i
        BY <1>1, <2>3
      <3> QED BY <1>1, <2>1, <3>1 DEF ToSet
    <2> QED BY <2>2, <2>3
  <1>3. ASSUME NEW x \in ToSet(a) PROVE x \in ToSet(a \o b)
    BY <1>1 DEF ToSet
  <1>4. ASSUME NEW x \in ToSet(b) PROVE x \in ToSet(a \o b)
    <2>1. PICK i \in 1 .. Len(b) : x = b[i]
      BY <1>1 DEF ToSet
    <2>2. Len(a) + i \in 1 .. Len(a) + Len(b)
      BY <1>1
    <2> QED BY <1>1, <2>1, <2>2 DEF ToSet
  <1> QED BY <1>1, <1>2, <1>3, <1>4

(* COMPONENT_FIELDS, as a set. *)
FieldNames ==
    {<<"is_heating">>, <<"circ_pump">>, <<"blower">>, <<"mister">>}
      \cup {Name("pump", i) : i \in 1 .. 6} \cup {Name("light", i) : i \in 1 .. 4}
LEMMA ComponentFields == ToSet(COMPONENT_FIELDS) = FieldNames
  <1> DEFINE heating == <<<<"is_heating">>>>
             pumps == [i \in 1 .. 6 |-> Name("pump", i)]
             air == <<<<"circ_pump">>, <<"blower">>>>
             lights == [i \in 1 .. 4 |-> Name("light", i)]
             mister == <<<<"mister">>>>
  <1>1. heating \in Seq(FieldNames) /\ ToSet(heating) = {<<"is_heating">>}
    BY DEF FieldNames, ToSet
  <1>2. pumps \in Seq(FieldNames) /\ ToSet(pumps) = {Name("pump", i) : i \in 1 .. 6}
    BY DEF FieldNames, ToSet
  <1>3. air \in Seq(FieldNames) /\ ToSet(air) = {<<"circ_pump">>, <<"blower">>}
    BY DEF FieldNames, ToSet
  <1>4. lights \in Seq(FieldNames) /\ ToSet(lights) = {Name("light", i) : i \in 1 .. 4}
    BY DEF FieldNames, ToSet
  <1>5. mister \in Seq(FieldNames) /\ ToSet(mister) = {<<"mister">>}
    BY DEF FieldNames, ToSet
  <1>6. COMPONENT_FIELDS = (((heating \o pumps) \o air) \o lights) \o mister
    BY DEF COMPONENT_FIELDS
  <1> HIDE DEF heating, pumps, air, lights, mister
  <1>7. PICK two : two = heating \o pumps
    OBVIOUS
  <1>8. two \in Seq(FieldNames) /\ ToSet(two) = ToSet(heating) \cup ToSet(pumps)
    BY ONLY <1>1, <1>2, <1>7, ToSetConcat
  <1>9. PICK three : three = two \o air
    OBVIOUS
  <1>10. three \in Seq(FieldNames) /\ ToSet(three) = ToSet(two) \cup ToSet(air)
    BY ONLY <1>3, <1>8, <1>9, ToSetConcat
  <1>11. PICK four : four = three \o lights
    OBVIOUS
  <1>12. four \in Seq(FieldNames) /\ ToSet(four) = ToSet(three) \cup ToSet(lights)
    BY ONLY <1>4, <1>10, <1>11, ToSetConcat
  <1>13. COMPONENT_FIELDS = four \o mister
    BY ONLY <1>6, <1>7, <1>9, <1>11, Zenon
  <1>14. ToSet(four \o mister) = ToSet(four) \cup ToSet(mister)
    BY ONLY <1>5, <1>12, ToSetConcat
  <1> QED BY ONLY <1>1, <1>2, <1>3, <1>4, <1>5, <1>8, <1>10, <1>12, <1>13, <1>14 DEF FieldNames

LEMMA FieldsAreSequence ==
    /\ Fields \in Seq(FieldNames) /\ Fields \in Seq(Components) /\ Len(Fields) \in Nat
    /\ Components \subseteq FieldNames
  <1>1. Fields \in Seq(FieldNames)
    BY ComponentFields, FieldsAssumption
  <1>2. DOMAIN Fields = 1 .. Len(Fields) /\ Len(Fields) \in Nat /\ \A i \in 1 .. Len(Fields) : Fields[i] \in FieldNames
    BY <1>1
  <1>3. \A i \in 1 .. Len(Fields) : Fields[i] \in Components
    BY <1>2 DEF Components, ToSet
  <1>4. Fields \in Seq(Components)
    BY <1>1, <1>2, <1>3, SeqDef
  <1> QED BY <1>1, <1>2, <1>4 DEF Components, ToSet

-----------------------------------------------------------------------------
(* What the device makes of Google's commands.                             *)

(* The codes of the switches. *)
LEMMA SwitchCodes ==
    /\ \A i \in 1 .. 6 : Name("pump", i) \in ToggleTopics /\ ToggleCode[Name("pump", i)] = 3 + i
    /\ \A i \in 1 .. 4 : Name("light", i) \in ToggleTopics /\ ToggleCode[Name("light", i)] = 16 + i
    /\ <<"blower">> \in ToggleTopics /\ ToggleCode[<<"blower">>] = 12
    /\ <<"mister">> \in ToggleTopics /\ ToggleCode[<<"mister">>] = 14
    /\ <<"circulation_pump">> \in ToggleTopics /\ ToggleCode[<<"circulation_pump">>] = 61
    /\ <<"heat_mode">> \in ToggleTopics /\ ToggleCode[<<"heat_mode">>] = 81
  <1>1. {<<"blower">>, <<"mister">>, <<"circulation_pump">>, <<"heat_mode">>} \subseteq ToggleTopics
    BY DEF ToggleTopics, PlainCode
  <1>2. ASSUME NEW i \in 1 .. 6
        PROVE  Name("pump", i) \in ToggleTopics /\ ToggleCode[Name("pump", i)] = 3 + i
    <2>1. Name("pump", i) \in ToggleTopics
      BY DEF ToggleTopics
    <2>2. Name("pump", i)[1] = "pump" /\ Name("pump", i)[2] = i
      BY DEF Name
    <2> QED BY <2>1, <2>2 DEF ToggleCode
  <1>3. ASSUME NEW i \in 1 .. 4
        PROVE  Name("light", i) \in ToggleTopics /\ ToggleCode[Name("light", i)] = 16 + i
    <2>1. Name("light", i) \in ToggleTopics
      BY DEF ToggleTopics
    <2>2. Name("light", i)[1] = "light" /\ Name("light", i)[2] = i
      BY DEF Name
    <2> QED BY <2>1, <2>2 DEF ToggleCode
  <1>4. ASSUME NEW w \in {"blower", "mister", "circulation_pump", "heat_mode"}
        PROVE  ToggleCode[<<w>>] = PlainCode[w]
    <2>1. <<w>>[1] = w /\ w \notin {"pump", "light", "aux"} /\ <<w>> \in ToggleTopics
      BY <1>1
    <2> QED BY <2>1 DEF ToggleCode
  <1>5. /\ PlainCode["blower"] = 12 /\ PlainCode["mister"] = 14
        /\ PlainCode["circulation_pump"] = 61 /\ PlainCode["heat_mode"] = 81
    BY DEF PlainCode
  <1> QED BY <1>1, <1>2, <1>3, <1>4, <1>5

LEMMA NoTimer ==
    ASSUME NEW t \in ToggleTopics
    PROVE  t \notin Timers /\ t \in AllowedSubtopics /\ t \in DOMAIN ToggleCode
  <1>1. t \in DOMAIN ToggleCode
    BY DEF ToggleCode
  <1>2. \A i \in 1 .. 6 : t # Name("timer", i)
    BY DEF ToggleTopics, PlainCode, Name
  <1> QED BY <1>1, <1>2 DEF Timers, AllowedSubtopics

(* A switch is accepted whatever the text. *)
LEMMA ToggleAccepted ==
    ASSUME NEW t \in ToggleTopics, NEW w
    PROVE  ParseCommand(t, Word(w)) = Valid([kind |-> "ToggleItem", code |-> ToggleCode[t]])
  <1>1. t \notin Timers /\ t \in AllowedSubtopics /\ t \in DOMAIN ToggleCode
    BY NoTimer
  <1>2. Word(w) # Empty
    BY DEF Word, Empty
  <1>3. ParseCommand(t, Word(w)) = ParseToggle(Word(w), ToggleCode[t])
    <2>1. t \notin {<<"set_temperature">>, <<"set_time">>, <<"set_preference">>}
      BY DEF ToggleTopics, PlainCode, Name
    <2> QED BY <1>1, <2>1 DEF ParseCommand
  <1> QED BY <1>2, <1>3 DEF ParseToggle

(* Everything offered is a switch or the thermostat. *)
LEMMA OfferedIds ==
    ASSUME ConfigFits, NEW id \in Sync(config)
    PROVE  id = <<"thermostat">> \/ id \in SwitchIds
  <1>1. config.pumps \in 1 .. 6 /\ config.lights \in 1 .. 4
    BY DEF ConfigFits
  <1>2. \A i \in 1 .. config.pumps : i \in 1 .. 6
    BY <1>1
  <1>3. \A i \in 1 .. config.lights : i \in 1 .. 4
    BY <1>1
  <1> QED BY <1>2, <1>3 DEF Sync, SwitchIds

LEMMA SwitchSuffix ==
    ASSUME NEW id \in SwitchIds
    PROVE  /\ TopicSuffix(id) \in ToggleTopics /\ IsSwitch(id) /\ id \in FieldNames
           /\ DeviceType(id) # "thermostat"
  <1>1. CASE id = <<"circ_pump">>
    BY <1>1, SwitchCodes DEF TopicSuffix, IsSwitch, DeviceType, FieldNames
  <1>2. CASE id = <<"blower">> \/ id = <<"mister">>
    BY <1>2, SwitchCodes DEF TopicSuffix, IsSwitch, DeviceType, FieldNames
  <1>3. ASSUME NEW i \in 1 .. 6, id = Name("pump", i)
        PROVE  /\ TopicSuffix(id) \in ToggleTopics /\ IsSwitch(id) /\ id \in FieldNames
               /\ DeviceType(id) # "thermostat"
    <2>1. id[1] = "pump"
      BY <1>3 DEF Name
    <2> QED BY <1>3, <2>1, SwitchCodes DEF TopicSuffix, IsSwitch, DeviceType, FieldNames
  <1>4. ASSUME NEW i \in 1 .. 4, id = Name("light", i)
        PROVE  /\ TopicSuffix(id) \in ToggleTopics /\ IsSwitch(id) /\ id \in FieldNames
               /\ DeviceType(id) # "thermostat"
    <2>1. id[1] = "light"
      BY <1>4 DEF Name
    <2> QED BY <1>4, <2>1, SwitchCodes DEF TopicSuffix, IsSwitch, DeviceType, FieldNames
  <1> QED BY <1>1, <1>2, <1>3, <1>4 DEF SwitchIds

(* Everything offered is of use. *)
LEMMA OffersUnderstood == ConfigFits => OfferedIsUnderstood
  <1> SUFFICES ASSUME ConfigFits, NEW id \in Sync(config), DeviceType(id) # "thermostat"
               PROVE  /\ IsSwitch(id) /\ QueryComponent(id) \in ToSet(COMPONENT_FIELDS)
                      /\ \A on \in BOOLEAN :
                           LET x == OnOffExecution(id, on)
                           IN  ParseCommand(x.sub, x.payload).result = "Valid"
    BY DEF OfferedIsUnderstood
  <1>1. id \in SwitchIds
    BY OfferedIds DEF DeviceType
  <1>2. TopicSuffix(id) \in ToggleTopics /\ IsSwitch(id) /\ id \in FieldNames
    BY <1>1, SwitchSuffix
  <1>3. ASSUME NEW w PROVE ParseCommand(TopicSuffix(id), Word(w)).result = "Valid"
    BY <1>2, ToggleAccepted DEF Valid
  <1>4. ASSUME NEW on \in BOOLEAN
        PROVE  LET x == OnOffExecution(id, on)
               IN  ParseCommand(x.sub, x.payload).result = "Valid"
    <2>1. PICK w : OnOffExecution(id, on) = Execution(id, TopicSuffix(id), Word(w))
      BY DEF OnOffExecution
    <2> QED BY <1>3, <2>1 DEF Execution
  <1> QED BY <1>2, <1>4, ComponentFields DEF QueryComponent

(* The spa on a toggle of the switch id: its own component, or nothing. *)
LEMMA ToggleDoes ==
    ASSUME spa \in Spas, NEW t \in ToggleTopics, NEW id \in SwitchIds,
           t = TopicSuffix(id) \/ t = <<"heat_mode">>
    PROVE  LET bytes == EncodeCommand([kind |-> "ToggleItem", code |-> ToggleCode[t]])
           IN  \/ SpaDoes(bytes) = spa
               \/ /\ id \in Components /\ t = TopicSuffix(id)
                  /\ SpaDoes(bytes) = [spa EXCEPT !.on[id] = ~@]
  <1>1. PICK code : code = ToggleCode[t]
    OBVIOUS
  <1>2. PICK bytes : bytes = <<17, code, 0>>
    OBVIOUS
  <1>3. bytes = EncodeCommand([kind |-> "ToggleItem", code |-> ToggleCode[t]])
    BY <1>1, <1>2 DEF EncodeCommand
  <1>4. PICK c : c = ComponentOfItem(ItemOfCode(code))
    OBVIOUS
  <1>5. SpaDoes(bytes) = IF c \in Components THEN [spa EXCEPT !.on[c] = ~@] ELSE spa
    <2>1. bytes[1] = 17 /\ bytes[2] = code
      BY ONLY <1>2
    <2> QED BY <1>4, <2>1 DEF SpaDoes
  <1>6. <<"none">> \notin Components
    BY FieldsAreSequence DEF FieldNames, Name
  <1>7. c = <<"none">> \/ (c = id /\ t = TopicSuffix(id))
    <2>1. CASE t = <<"heat_mode">>
      <3>1. ItemOfCode(code) = 13
        BY <1>1, <2>1, SwitchCodes, PayloadAssumption DEF ItemOfCode, HeatingModeItem, UntrackedItem
      <3> QED BY <1>4, <3>1, PayloadAssumption DEF ComponentOfItem, Pumps, Blower, Lights
    <2>2. CASE t = TopicSuffix(id) /\ id \in {<<"circ_pump">>, <<"mister">>}
      <3>1. code \in {61, 14}
        BY <1>1, <2>2, SwitchCodes DEF TopicSuffix, DeviceType
      <3>2. ItemOfCode(code) = 12
        BY <3>1, PayloadAssumption DEF ItemOfCode, UntrackedItem
      <3> QED BY <1>4, <3>2, PayloadAssumption DEF ComponentOfItem, Pumps, Blower, Lights
    <2>3. CASE t = TopicSuffix(id) /\ id = <<"blower">>
      <3>1. code = 12
        BY <1>1, <2>3, SwitchCodes DEF TopicSuffix, DeviceType
      <3>2. ItemOfCode(code) = 7
        BY <3>1 DEF ItemOfCode, Blower
      <3> QED BY <1>4, <2>3, <3>2, PayloadAssumption DEF ComponentOfItem, Pumps, Blower, Lights
    <2>4. ASSUME NEW i \in 1 .. 6, id = Name("pump", i), t = TopicSuffix(id)
          PROVE  c = id
      <3>1. id[1] = "pump"
        BY <2>4 DEF Name
      <3>2. code = 3 + i
        BY <1>1, <2>4, <3>1, SwitchCodes DEF TopicSuffix, DeviceType
      <3>3. ItemOfCode(code) = i
        BY <3>2 DEF ItemOfCode
      <3>4. i \in Pumps /\ i # Blower /\ i \notin Lights
        BY PayloadAssumption DEF Pumps, Blower, Lights
      <3> QED BY <1>4, <2>4, <3>3, <3>4 DEF ComponentOfItem
    <2>5. ASSUME NEW i \in 1 .. 4, id = Name("light", i), t = TopicSuffix(id)
          PROVE  c = id
      <3>1. id[1] = "light"
        BY <2>5 DEF Name
      <3>2. code = 16 + i
        BY <1>1, <2>5, <3>1, SwitchCodes DEF TopicSuffix, DeviceType
      <3>3. ItemOfCode(code) = 7 + i /\ (7 + i) - 7 = i
        BY <3>2 DEF ItemOfCode
      <3>4. 7 + i \in Lights /\ 7 + i \notin Pumps /\ 7 + i # Blower
        BY PayloadAssumption DEF Pumps, Blower, Lights
      <3> QED BY <1>4, <2>5, <3>3, <3>4 DEF ComponentOfItem
    <2> QED BY <2>1, <2>2, <2>3, <2>4, <2>5 DEF SwitchIds
  <1> QED BY <1>3, <1>5, <1>6, <1>7

(* A target that is accepted is the one that was sent. *)
LEMMA TooMany ==
    ASSUME NEW n \in Int, NEW u \in Nat \ {0}, n < 0 \/ n > 255
    PROVE  u * n < 0 \/ u * n > 255 * u
  <1>1. CASE n < 0
    <2>1. u * n = u * (n + 1) - u /\ u * (n + 1) <= 0
      BY <1>1
    <2> QED BY <2>1
  <1>2. CASE n > 255
    <2>1. PICK m \in Nat : n = 256 + m
      <3>1. n - 256 \in Nat /\ n = 256 + (n - 256)
        BY <1>2
      <3> QED BY <3>1
    <2>2. u * n = 255 * u + u + u * m /\ u * m >= 0
      BY <2>1
    <2> QED BY <2>2
  <1> QED BY <1>1, <1>2
LEMMA TooManyDegrees ==
    ASSUME NEW n \in Int, n \notin 0 .. 255, NEW v, v = 1000 * n
    PROVE  v \notin 0 .. 255 * Unit
  <1>1. PICK u \in Nat \ {0} : u = Unit
    BY DEF Unit
  <1>2. v = u * n /\ v \in Int
    BY <1>1 DEF Unit
  <1>3. v < 0 \/ v > 255 * u
    BY <1>2, TooMany
  <1> QED BY <1>1, <1>2, <1>3
LEMMA TargetDoes ==
    ASSUME spa \in Spas, NEW n \in Int, NEW r,
           r = ClientAccepts(<<"set_temperature">>, Number(Unit * n),
                             [msg |-> "status", scale |-> spa.scale, range |-> spa.range]),
           r.result = "Valid"
    PROVE  SpaDoes(EncodeCommand(r.cmd)) = [spa EXCEPT !.set = Unit * n] /\ n \in 0 .. 255
  <1>1. PICK p : p = Number(Unit * n)
    OBVIOUS
  <1>2. p.is = "number" /\ p.v = 1000 * n
    BY ONLY <1>1 DEF Number, Unit
  <1>3. PICK last : last = [msg |-> "status", scale |-> spa.scale, range |-> spa.range]
    OBVIOUS
  <1>4. last.scale = spa.scale /\ last.range = spa.range /\ last # NothingYet
    BY ONLY <1>3 DEF NothingYet
  <1>5. spa.scale \in {"Fahrenheit", "Celsius"} /\ spa.range \in {"High", "Low"}
    BY DEF Spas, Scales
  <1>6. PICK q : q = ParseCommand(<<"set_temperature">>, p)
    OBVIOUS
  <1>7. q = ParseSetTemperature(p)
    <2>1. <<"set_temperature">> \in AllowedSubtopics
      BY DEF AllowedSubtopics
    <2>2. <<"set_temperature">> \notin Timers
      BY DEF Timers, Name
    <2>3. <<"set_temperature">> \notin DOMAIN ToggleCode
      BY DEF ToggleCode, ToggleTopics, PlainCode, Name
    <2> QED BY <1>6, <2>1, <2>2, <2>3 DEF ParseCommand
  <1>8. \/ q.result # "Valid"
        \/ /\ n \in 0 .. 255 /\ q.result = "Valid"
           /\ q.cmd = [kind |-> "SetTemperature", temp |-> n]
    <2>1. CASE n \in 0 .. 255
      <3>1. RoundToByte(p.v) = n
        BY <1>2, <2>1 DEF RoundToByte, Unit
      <3> QED BY <1>2, <1>7, <2>1, <3>1 DEF ParseSetTemperature, Refused, Valid
    <2>2. CASE n \notin 0 .. 255
      <3>1. p.v \notin 0 .. 255 * Unit
        BY <1>2, <2>2, TooManyDegrees
      <3> QED BY <1>2, <1>7, <3>1 DEF ParseSetTemperature, Refused
    <2> QED BY <2>1, <2>2
  <1>9. r = CASE q.result = "Valid" ->
                  (IF q.cmd.kind # "SetTemperature" THEN q
                   ELSE IF last = NothingYet THEN Refused("NoStatusYet")
                   ELSE IF ValidTemperature(q.cmd.temp, last.scale, last.range)
                   THEN Valid([q.cmd EXCEPT !.temp = WireTemperature(p, @, last.scale)])
                   ELSE Refused("TemperatureOutOfRange"))
              [] OTHER -> q
    <2>1. <<"set_temperature">> \notin {<<"sniff">>, <<"reboot">>}
      OBVIOUS
    <2> QED BY <1>1, <1>3, <1>6, <2>1 DEF ClientAccepts
  <1>10. q.result = "Valid"
    BY <1>9
  <1>11. n \in 0 .. 255 /\ q.cmd = [kind |-> "SetTemperature", temp |-> n]
    BY <1>8, <1>10
  <1>12. q.cmd.kind = "SetTemperature" /\ q.cmd.temp = n
    BY <1>11
  <1>13. PICK wire : wire = WireTemperature(p, n, spa.scale)
    OBVIOUS
  <1>14. /\ ValidTemperature(n, spa.scale, spa.range)
         /\ r = Valid([q.cmd EXCEPT !.temp = wire])
    BY <1>4, <1>9, <1>10, <1>12, <1>13 DEF Refused
  <1>15. r.cmd = [kind |-> "SetTemperature", temp |-> wire]
    BY <1>11, <1>14 DEF Valid
  <1>16. n <= 104 /\ (spa.scale = "Celsius" => n <= 40)
    BY <1>5, <1>11, <1>14 DEF ValidTemperature, HighestOf, LowestOf, HighestC, HighestF, LowestC, LowestF
  <1>17. /\ wire = IF spa.scale = "Celsius" THEN 2 * n ELSE n
         /\ wire \in 0 .. 108
    BY <1>2, <1>11, <1>13, <1>16 DEF WireTemperature, RoundToByte, Unit
  <1>18. EncodeCommand(r.cmd) = <<32, wire>>
    <2>1. r.cmd.kind = "SetTemperature" /\ r.cmd.temp = wire /\ ~(wire > AbsoluteMaxF)
      BY <1>15, <1>17 DEF AbsoluteMaxF
    <2> QED BY <2>1 DEF EncodeCommand
  <1>19. FromWire(wire, spa.scale).value = Unit * n
    BY <1>5, <1>17 DEF FromWire, Temperature, Unit
  <1>20. PICK bytes : bytes = <<32, wire>>
    OBVIOUS
  <1>21. bytes[1] = 32 /\ bytes[2] = wire
    BY ONLY <1>20
  <1>22. SpaDoes(bytes) = [spa EXCEPT !.set = FromWire(wire, spa.scale).value]
    BY <1>21 DEF SpaDoes
  <1>23. SpaDoes(EncodeCommand(r.cmd)) = [spa EXCEPT !.set = Unit * n]
    BY ONLY <1>18, <1>19, <1>20, <1>22
  <1> QED BY <1>11, <1>23

(* A command taken: a target is the spa's or refused, a mode changes       *)
(* nothing that is looked at, a switch toggles its component or nothing.   *)
LEMMA TakesFits ==
    ASSUME spa \in Spas, CommandsFit, DeviceTakes, NEW x, x = Head(toDevice)
    PROVE  \/ /\ x \in TargetCommands
              /\ \/ spa' = spa /\ asked' = NoSetpoint
                 \/ spa' = [spa EXCEPT !.set = x.payload.v] /\ asked' = asked /\ x.payload.v >= 0
           \/ /\ x \in SwitchCommands \cup ModeCommands /\ asked' = asked
              /\ \/ spa' = spa
                 \/ /\ IsSwitch(x.id) /\ x.id \in Components
                    /\ spa' = [spa EXCEPT !.on[x.id] = ~@]
  <1>1. x \in SwitchCommands \cup ModeCommands \cup TargetCommands
    BY DEF CommandsFit, DeviceTakes
  <1>2. PICK last : last = [msg |-> "status", scale |-> spa.scale, range |-> spa.range]
    OBVIOUS
  <1>3. PICK r : r = ClientAccepts(x.sub, x.payload, last)
    OBVIOUS
  <1>4. IF r.result = "Valid" THEN spa' = SpaDoes(EncodeCommand(r.cmd)) /\ asked' = asked
        ELSE spa' = spa /\ Forgets(x)
    BY <1>2, <1>3 DEF DeviceTakes
  <1>5. ASSUME NEW id \in SwitchIds, NEW t \in ToggleTopics, NEW w, x.sub = t, x.payload = Word(w),
               t = TopicSuffix(id) \/ t = <<"heat_mode">>
        PROVE  /\ asked' = asked
               /\ \/ spa' = spa
                  \/ /\ id \in Components /\ t = TopicSuffix(id)
                     /\ spa' = [spa EXCEPT !.on[id] = ~@]
    <2>1. PICK cmd : cmd = [kind |-> "ToggleItem", code |-> ToggleCode[t]]
      OBVIOUS
    <2>2. ParseCommand(t, Word(w)) = Valid(cmd)
      BY <2>1, ToggleAccepted
    <2>3. t \notin {<<"sniff">>, <<"reboot">>}
      BY DEF ToggleTopics, PlainCode, Name
    <2>4. cmd.kind # "SetTemperature"
      BY <2>1
    <2>5. r = Valid(cmd)
      BY <1>3, <1>5, <2>2, <2>3, <2>4 DEF ClientAccepts, Valid
    <2>6. spa' = SpaDoes(EncodeCommand(cmd)) /\ asked' = asked
      BY <1>4, <2>5 DEF Valid
    <2>7. \/ SpaDoes(EncodeCommand(cmd)) = spa
          \/ /\ id \in Components /\ t = TopicSuffix(id)
             /\ SpaDoes(EncodeCommand(cmd)) = [spa EXCEPT !.on[id] = ~@]
      BY <1>5, <2>1, ToggleDoes
    <2> QED BY <2>6, <2>7
  <1>6. CASE x \in SwitchCommands
    <2>a. PICK id \in SwitchIds : \E w : x = Execution(id, TopicSuffix(id), Word(w))
      BY <1>6 DEF SwitchCommands, OnOffExecution
    <2>1. PICK w : x = Execution(id, TopicSuffix(id), Word(w))
      BY <2>a
    <2>2. x.id = id /\ x.sub = TopicSuffix(id) /\ x.payload = Word(w)
      BY ONLY <2>1 DEF Execution
    <2>3. TopicSuffix(id) \in ToggleTopics /\ IsSwitch(id)
      BY SwitchSuffix
    <2> QED BY <1>5, <1>6, <2>2, <2>3
  <1>7. CASE x \in ModeCommands
    <2>1. PICK w : x = Execution(<<"thermostat">>, <<"heat_mode">>, Word(w))
      BY <1>7 DEF ModeCommands, ModeExecution
    <2>2. x.id = <<"thermostat">> /\ x.sub = <<"heat_mode">> /\ x.payload = Word(w)
      BY ONLY <2>1 DEF Execution
    <2>3. <<"heat_mode">> \in ToggleTopics /\ <<"blower">> \in SwitchIds
      BY SwitchCodes DEF SwitchIds
    <2>4. <<"heat_mode">> # TopicSuffix(<<"blower">>)
      BY DEF TopicSuffix, DeviceType
    <2> QED BY <1>5, <1>7, <2>2, <2>3, <2>4
  <1>8. CASE x \in TargetCommands
    <2>1. PICK n \in Int : x = Execution(<<"thermostat">>, <<"set_temperature">>, Number(Unit * n))
      BY <1>8 DEF TargetCommands
    <2>2. x.sub = <<"set_temperature">> /\ x.payload = Number(Unit * n) /\ x.payload.v = Unit * n
      BY ONLY <2>1 DEF Execution, Number
    <2>3. CASE r.result = "Valid"
      <3>1. SpaDoes(EncodeCommand(r.cmd)) = [spa EXCEPT !.set = Unit * n] /\ n \in 0 .. 255
        BY <1>2, <1>3, <2>2, <2>3, TargetDoes
      <3>2. Unit * n >= 0
        <4>1. PICK u \in Nat : u = Unit
          BY DEF Unit
        <4>2. u * n >= 0
          BY <3>1
        <4> QED BY ONLY <4>1, <4>2, Zenon
      <3> QED BY <1>4, <1>8, <2>2, <2>3, <3>1, <3>2
    <2>4. CASE r.result # "Valid"
      BY <1>4, <1>8, <2>2, <2>4 DEF Forgets
    <2> QED BY <2>3, <2>4
  <1> QED BY <1>1, <1>6, <1>7, <1>8

-----------------------------------------------------------------------------
(* The events of the components.                                           *)

(* The least and the greatest of the indices of a sequence. *)
LEMMA LeastOf ==
    ASSUME NEW I \in SUBSET Nat, I # {}
    PROVE  \E b \in I : \A a \in I : b <= a
  <1>0. I \subseteq Nat
    OBVIOUS
  <1>1. PICK b \in I : \A a \in I : ~(<<a, b>> \in OpToRel(<, Nat))
    BY <1>0, NatLessThanWellFounded, WFMin
  <1>2. ASSUME NEW a \in I PROVE b <= a
    <2>1. a \in Nat /\ b \in Nat
      OBVIOUS
    <2>2. ~(a < b)
      BY <1>1, <2>1, Zenon DEF OpToRel
    <2> QED BY <2>1, <2>2
  <1> QED BY <1>2
LEMMA GreatestIndex ==
    ASSUME NEW n \in Nat, NEW I \in SUBSET (1 .. n), I # {}
    PROVE  Max(I) \in I /\ \A j \in I : Max(I) >= j
  <1>1. PICK B : B = {b \in Nat : \A j \in I : j <= b}
    OBVIOUS
  <1>2. n \in B /\ B \subseteq Nat
    BY <1>1
  <1>3. PICK b \in B : \A a \in B : b <= a
    BY ONLY <1>2, LeastOf
  <1>4. b \in I
    <2>1. SUFFICES ASSUME b \notin I PROVE FALSE
      OBVIOUS
    <2>2. PICK i \in I : TRUE
      OBVIOUS
    <2>3. \A j \in I : j \in Nat /\ j >= 1 /\ j <= b /\ j # b
      BY <1>1, <2>1
    <2>4. b - 1 \in Nat /\ \A j \in I : j <= b - 1
      BY <1>1, <2>2, <2>3
    <2>5. b - 1 \in B
      BY <1>1, <2>4
    <2> QED BY <1>2, <1>3, <2>4, <2>5
  <1>5. b \in I /\ \A j \in I : b >= j
    BY <1>1, <1>4
  <1> QED BY <1>5 DEF Max

(* Where the ring remembers the last event of c. *)
LastEvent(ring, c, i) ==
    /\ i \in 1 .. Len(ring) /\ ring[i].component = c
    /\ \A j \in 1 .. Len(ring) : j > i => ring[j].component # c
LEMMA LastEventFound ==
    ASSUME NEW ring \in Seq(Events), NEW c, EventsOf(ring, c) # {}
    PROVE  \E i \in 1 .. Len(ring) : LastEvent(ring, c, i)
  <1>1. /\ EventsOf(ring, c) \in SUBSET (1 .. Len(ring)) /\ Len(ring) \in Nat
        /\ \A i : i \in EventsOf(ring, c) <=> i \in 1 .. Len(ring) /\ ring[i].component = c
    BY DEF EventsOf
  <1>2. PICK i : i = Max(EventsOf(ring, c))
    OBVIOUS
  <1>3. i \in EventsOf(ring, c) /\ \A j \in EventsOf(ring, c) : i >= j
    BY <1>1, <1>2, GreatestIndex
  <1> QED BY <1>1, <1>3 DEF LastEvent
LEMMA LastEventTells ==
    ASSUME NEW ring \in Seq(Events), NEW c, NEW i, LastEvent(ring, c, i), NEW default
    PROVE  EventsOf(ring, c) # {} /\ LastState(ring, c, default) = ring[i].state
  <1>1. /\ EventsOf(ring, c) \in SUBSET (1 .. Len(ring)) /\ Len(ring) \in Nat
        /\ \A j : j \in EventsOf(ring, c) <=> j \in 1 .. Len(ring) /\ ring[j].component = c
    BY DEF EventsOf
  <1>2. i \in EventsOf(ring, c)
    BY <1>1 DEF LastEvent
  <1>3. PICK m : m = Max(EventsOf(ring, c))
    OBVIOUS
  <1>4. m \in EventsOf(ring, c) /\ \A j \in EventsOf(ring, c) : m >= j
    BY <1>1, <1>2, <1>3, GreatestIndex
  <1>5. m = i
    BY <1>1, <1>2, <1>4 DEF LastEvent
  <1> QED BY <1>2, <1>3, <1>5 DEF LastState

(* insert_component_changes, field by field: its loop as an equation. *)
FieldStep(ring, on, g, k) ==
    IF k = 0 THEN ring
    ELSE CHOOSE added \in {AddIfChanged(r, Fields[k], on[Fields[k]]) : r \in {g[k - 1]}} : TRUE
LEMMA OneField ==
    ASSUME NEW ring, NEW on, NEW g, NEW k, k # 0
    PROVE  FieldStep(ring, on, g, k) = AddIfChanged(g[k - 1], Fields[k], on[Fields[k]])
  <1>1. PICK x : x = AddIfChanged(g[k - 1], Fields[k], on[Fields[k]])
    OBVIOUS
  <1>2. {AddIfChanged(r, Fields[k], on[Fields[k]]) : r \in {g[k - 1]}} = {x}
    BY <1>1
  <1>3. (CHOOSE added \in {x} : TRUE) = x
    OBVIOUS
  <1> QED BY <1>1, <1>2, <1>3 DEF FieldStep
LEMMA LoopExists ==
    ASSUME NEW ring, NEW on, NEW n \in Nat
    PROVE  \E g : g = [k \in 0 .. n |-> FieldStep(ring, on, g, k)]
  <1>1. PICK Bad : Bad = {m \in Nat : ~\E g : g = [k \in 0 .. m |-> FieldStep(ring, on, g, k)]}
    OBVIOUS
  <1>2. SUFFICES ASSUME Bad # {} PROVE FALSE
    BY <1>1
  <1>3. Bad \subseteq Nat
    BY <1>1
  <1>4. PICK b \in Bad : \A a \in Bad : b <= a
    BY ONLY <1>2, <1>3, LeastOf
  <1>5. b # 0
    <2>1. SUFFICES 0 \notin Bad
      BY <1>4
    <2>2. PICK g : g = [k \in 0 .. 0 |-> ring]
      OBVIOUS
    <2>3. g = [k \in 0 .. 0 |-> FieldStep(ring, on, g, k)]
      BY <2>2 DEF FieldStep
    <2> QED BY <1>1, <2>3
  <1>6. b \in Nat /\ b - 1 \in Nat /\ b - 1 \notin Bad
    BY <1>3, <1>4, <1>5
  <1>7. PICK g : g = [k \in 0 .. b - 1 |-> FieldStep(ring, on, g, k)]
    BY <1>1, <1>6
  <1>8. PICK h : h = [k \in 0 .. b |-> IF k = b THEN FieldStep(ring, on, g, b) ELSE g[k]]
    OBVIOUS
  <1>9. ASSUME NEW k \in 0 .. b PROVE h[k] = FieldStep(ring, on, h, k)
    <2>1. h[k] = FieldStep(ring, on, g, k)
      <3>1. CASE k = b
        BY <1>8, <3>1
      <3>2. CASE k # b
        <4>1. k \in 0 .. b - 1
          BY <1>6, <3>2
        <4> QED BY <1>7, <1>8, <3>2, <4>1
      <3> QED BY <3>1, <3>2
    <2>2. FieldStep(ring, on, g, k) = FieldStep(ring, on, h, k)
      <3>1. CASE k = 0
        BY <3>1 DEF FieldStep
      <3>2. CASE k # 0
        <4>1. k - 1 \in 0 .. b /\ k - 1 # b
          BY <1>6, <3>2
        <4>2. h[k - 1] = g[k - 1]
          BY <1>8, <4>1
        <4> QED BY <3>2, <4>2, OneField
      <3> QED BY <3>1, <3>2
    <2> QED BY <2>1, <2>2
  <1>10. h = [k \in 0 .. b |-> FieldStep(ring, on, h, k)]
    <2>1. h = [k \in 0 .. b |-> h[k]]
      BY <1>8
    <2> QED BY <1>9, <2>1
  <1> QED BY <1>1, <1>4, <1>10
LEMMA ChangesByField ==
    ASSUME NEW ring, NEW on, NEW f, f = ChangesOfFields(ring, on)
    PROVE  /\ f[0] = ring
           /\ \A k \in 1 .. Len(Fields) : f[k] = AddIfChanged(f[k - 1], Fields[k], on[Fields[k]])
  <1>1. Len(Fields) \in Nat
    BY FieldsAreSequence
  <1>2. f = CHOOSE g : g = [k \in 0 .. Len(Fields) |-> FieldStep(ring, on, g, k)]
    BY Zenon DEF ChangesOfFields, FieldStep
  <1>3. \E g : g = [k \in 0 .. Len(Fields) |-> FieldStep(ring, on, g, k)]
    BY <1>1, LoopExists
  <1>4. f = [k \in 0 .. Len(Fields) |-> FieldStep(ring, on, f, k)]
    BY ONLY <1>2, <1>3, Zenon
  <1>5. \A k \in 0 .. Len(Fields) : f[k] = FieldStep(ring, on, f, k)
    BY ONLY <1>4, Zenon
  <1>6. f[0] = ring
    <2>1. f[0] = FieldStep(ring, on, f, 0)
      BY <1>1, <1>5
    <2> QED BY <2>1 DEF FieldStep
  <1>7. ASSUME NEW k \in 1 .. Len(Fields)
        PROVE  f[k] = AddIfChanged(f[k - 1], Fields[k], on[Fields[k]])
    <2>1. k \in 0 .. Len(Fields) /\ k # 0
      BY <1>1
    <2> QED BY <1>5, <2>1, OneField
  <1> QED BY <1>6, <1>7

(* push_capped: the new item is the last one, the others move up by one    *)
(* when the ring is full.                                                  *)
LEMMA Pushed ==
    ASSUME NEW S, NEW ring \in Seq(S), NEW item \in S, NEW cap \in Nat \ {0},
           NEW p, p = PushCapped(ring, item, cap)
    PROVE  /\ p \in Seq(S) /\ Len(p) \in Nat
           /\ \E s \in {0, 1} : /\ s = (IF Len(ring) >= cap THEN 1 ELSE 0)
                                /\ Len(p) = Len(ring) + 1 - s /\ p[Len(p)] = item
                                /\ \A i \in 1 .. Len(p) - 1 : p[i] = ring[i + s]
  <1>1. Len(ring) \in Nat
    OBVIOUS
  <1>2. CASE Len(ring) >= cap
    <2>1. p = Append(Tail(ring), item) /\ ring # <<>>
      BY <1>1, <1>2 DEF PushCapped
    <2>2. PICK r : r = Tail(ring)
      OBVIOUS
    <2>3. r \in Seq(S) /\ Len(r) = Len(ring) - 1 /\ \A i \in 1 .. Len(r) : r[i] = ring[i + 1]
      BY <2>1, <2>2
    <2>4. /\ p \in Seq(S) /\ Len(p) = Len(r) + 1 /\ p[Len(r) + 1] = item
          /\ \A i \in 1 .. Len(r) : p[i] = r[i]
      BY <2>1, <2>2, <2>3
    <2>5. PICK s \in {0, 1} : s = 1
      OBVIOUS
    <2>6. /\ Len(p) = Len(ring) + 1 - s /\ p[Len(p)] = item
          /\ \A i \in 1 .. Len(p) - 1 : p[i] = ring[i + s]
      BY <1>1, <2>3, <2>4, <2>5
    <2> QED BY <1>1, <1>2, <2>4, <2>5, <2>6
  <1>3. CASE ~(Len(ring) >= cap)
    <2>1. p = Append(ring, item)
      BY <1>3 DEF PushCapped
    <2>2. /\ p \in Seq(S) /\ Len(p) = Len(ring) + 1 /\ p[Len(ring) + 1] = item
          /\ \A i \in 1 .. Len(ring) : p[i] = ring[i]
      BY <2>1
    <2>3. PICK s \in {0, 1} : s = 0
      OBVIOUS
    <2>4. /\ Len(p) = Len(ring) + 1 - s /\ p[Len(p)] = item
          /\ \A i \in 1 .. Len(p) - 1 : p[i] = ring[i + s]
      BY <1>1, <2>2, <2>3
    <2> QED BY <1>1, <1>3, <2>2, <2>3, <2>4
  <1> QED BY <1>2, <1>3

(* What a ring ends with, and what it may hold, after it is pushed.        *)
LEMMA PushedLast ==
    ASSUME NEW S, NEW ring \in Seq(S), NEW item \in S, NEW cap \in Nat \ {0},
           NEW p, p = PushCapped(ring, item, cap)
    PROVE  /\ p \in Seq(S) /\ p # <<>> /\ Last(p) = item
           /\ \A i \in DOMAIN p : p[i] = item \/ \E j \in DOMAIN ring : p[i] = ring[j]
  <1>1. /\ p \in Seq(S) /\ Len(p) \in Nat
        /\ \E s \in {0, 1} : /\ s = (IF Len(ring) >= cap THEN 1 ELSE 0)
                             /\ Len(p) = Len(ring) + 1 - s /\ p[Len(p)] = item
                             /\ \A i \in 1 .. Len(p) - 1 : p[i] = ring[i + s]
    BY Pushed
  <1>2. PICK s \in {0, 1} :
           /\ s = (IF Len(ring) >= cap THEN 1 ELSE 0)
           /\ Len(p) = Len(ring) + 1 - s /\ p[Len(p)] = item
           /\ \A i \in 1 .. Len(p) - 1 : p[i] = ring[i + s]
    BY <1>1
  <1>3. Len(ring) \in Nat /\ Len(p) >= 1
    BY <1>2
  <1>4. p # <<>> /\ Last(p) = item
    BY <1>1, <1>2, <1>3 DEF Last
  <1>5. ASSUME NEW i \in DOMAIN p, p[i] # item PROVE \E j \in DOMAIN ring : p[i] = ring[j]
    <2>1. i \in 1 .. Len(p) - 1 /\ i + s \in DOMAIN ring
      BY <1>1, <1>2, <1>3, <1>5
    <2> QED BY <1>2, <2>1
  <1> QED BY <1>1, <1>4, <1>5

(* How far back in the ring an event that tells c is at most. *)
Fresh(ring, c, on, m) ==
    \E i \in 1 .. Len(ring) : LastEvent(ring, c, i) /\ ring[i].state = on /\ Len(ring) - i <= m
LEMMA FreshTells ==
    ASSUME NEW ring \in Seq(Events), NEW c, NEW on, NEW m, Fresh(ring, c, on, m), NEW default
    PROVE  Tells(ring, c, on) /\ LastState(ring, c, default) = on
  BY LastEventTells DEF Fresh, Tells

(* An event pushed by the field f. *)
LEMMA PushKeepsOthers ==
    ASSUME NEW ring \in Seq(Events), NEW f \in Components, NEW v \in BOOLEAN, NEW p,
           p = PushCapped(ring, [component |-> f, state |-> v], EventCap), NEW c
    PROVE  /\ p \in Seq(Events)
           /\ c = f => Fresh(p, c, v, 0)
           /\ c # f /\ EventsOf(ring, c) = {} => EventsOf(p, c) = {}
           /\ \A b : c # f /\ Tells(ring, c, b) => Tells(p, c, b)
           /\ \A b : \A m \in Nat : c # f /\ m + 1 < EventCap /\ Fresh(ring, c, b, m)
                       => Fresh(p, c, b, m + 1)
  <1>1. [component |-> f, state |-> v] \in Events
    BY DEF Events
  <1>2. PICK e \in Events : e = [component |-> f, state |-> v]
    BY <1>1
  <1>3. e.component = f /\ e.state = v
    BY <1>2
  <1>4. EventCap \in Nat \ {0} /\ Len(ring) \in Nat
    BY RingAssumption, FieldsAreSequence
  <1>5. /\ p \in Seq(Events) /\ Len(p) \in Nat
        /\ \E s \in {0, 1} : /\ s = (IF Len(ring) >= EventCap THEN 1 ELSE 0)
                             /\ Len(p) = Len(ring) + 1 - s /\ p[Len(p)] = e
                             /\ \A i \in 1 .. Len(p) - 1 : p[i] = ring[i + s]
    BY <1>2, <1>4, Pushed
  <1>6. PICK s \in {0, 1} :
           /\ s = (IF Len(ring) >= EventCap THEN 1 ELSE 0)
           /\ Len(p) = Len(ring) + 1 - s /\ p[Len(p)] = e
           /\ \A i \in 1 .. Len(p) - 1 : p[i] = ring[i + s]
    BY <1>5
  <1>7. Len(p) \in 1 .. Len(p)
    BY <1>4, <1>6
  <1>8. ASSUME c = f PROVE Fresh(p, c, v, 0)
    <2>1. LastEvent(p, c, Len(p)) /\ p[Len(p)].state = v /\ Len(p) - Len(p) <= 0
      BY <1>3, <1>5, <1>6, <1>7, <1>8 DEF LastEvent
    <2> QED BY <1>7, <2>1 DEF Fresh
  <1>9. ASSUME c # f, EventsOf(ring, c) = {} PROVE EventsOf(p, c) = {}
    <2>1. \A i \in 1 .. Len(ring) : ring[i].component # c
      BY <1>9 DEF EventsOf
    <2>2. ASSUME NEW i \in 1 .. Len(p) PROVE p[i].component # c
      <3>1. CASE i = Len(p)
        BY <1>3, <1>6, <1>9, <3>1
      <3>2. CASE i # Len(p)
        <4>1. i \in 1 .. Len(p) - 1 /\ i + s \in 1 .. Len(ring)
          BY <1>4, <1>5, <1>6, <3>2
        <4> QED BY <1>6, <2>1, <4>1
      <3> QED BY <3>1, <3>2
    <2> QED BY <1>5, <2>2 DEF EventsOf
  <1>10. ASSUME c # f, NEW i \in 1 .. Len(ring), LastEvent(ring, c, i), i > s
         PROVE  /\ i - s \in 1 .. Len(p) /\ LastEvent(p, c, i - s) /\ p[i - s] = ring[i]
                /\ Len(p) - (i - s) = Len(ring) - i + 1
    <2>1. i - s \in 1 .. Len(p) /\ i - s \in 1 .. Len(p) - 1 /\ (i - s) + s = i
      BY <1>4, <1>5, <1>6, <1>10
    <2>2. p[i - s] = ring[i]
      BY <1>6, <2>1
    <2>3. ASSUME NEW j \in 1 .. Len(p), j > i - s PROVE p[j].component # c
      <3>1. CASE j = Len(p)
        BY <1>3, <1>6, <1>10, <3>1
      <3>2. CASE j # Len(p)
        <4>1. j \in 1 .. Len(p) - 1 /\ j + s \in 1 .. Len(ring) /\ j + s > i
          BY <1>4, <1>5, <1>6, <2>3, <3>2
        <4> QED BY <1>6, <1>10, <4>1 DEF LastEvent
      <3> QED BY <3>1, <3>2
    <2>4. p[i - s].component = c
      BY <1>10, <2>2 DEF LastEvent
    <2>5. Len(p) - (i - s) = Len(ring) - i + 1
      BY <1>4, <1>6
    <2> QED BY <2>1, <2>2, <2>3, <2>4, <2>5 DEF LastEvent
  <1>11. ASSUME NEW b, c # f, Tells(ring, c, b) PROVE Tells(p, c, b)
    <2>1. CASE EventsOf(ring, c) = {}
      BY <1>9, <1>11, <2>1 DEF Tells
    <2>2. CASE EventsOf(ring, c) # {}
      <3>1. PICK i \in 1 .. Len(ring) : LastEvent(ring, c, i)
        BY <2>2, LastEventFound
      <3>2. ring[i].state = b
        BY <1>11, <2>2, <3>1, LastEventTells DEF Tells
      <3>3. CASE i > s
        <4>1. i - s \in 1 .. Len(p) /\ LastEvent(p, c, i - s) /\ p[i - s].state = b
          BY <1>10, <1>11, <3>1, <3>2, <3>3
        <4>2. PICK k : k = i - s
          OBVIOUS
        <4>3. k \in 1 .. Len(p) /\ LastEvent(p, c, k) /\ p[k].state = b
          BY ONLY <4>1, <4>2, Zenon
        <4>4. p \in Seq(Events)
          BY <1>5
        <4>5. EventsOf(p, c) # {} /\ LastState(p, c, FALSE) = p[k].state
          BY ONLY <4>3, <4>4, LastEventTells
        <4> QED BY <4>3, <4>5 DEF Tells
      <3>4. CASE ~(i > s)
        <4>1. i = 1 /\ s = 1
          BY <3>4
        <4>2. ASSUME NEW j \in 1 .. Len(p) PROVE p[j].component # c
          <5>1. CASE j = Len(p)
            BY <1>3, <1>6, <1>11, <5>1
          <5>2. CASE j # Len(p)
            <6>1. j \in 1 .. Len(p) - 1 /\ j + s \in 1 .. Len(ring) /\ j + s > i
              BY <1>4, <1>5, <1>6, <4>1, <5>2
            <6> QED BY <1>6, <3>1, <6>1 DEF LastEvent
          <5> QED BY <5>1, <5>2
        <4>3. EventsOf(p, c) = {}
          BY <1>5, <4>2 DEF EventsOf
        <4> QED BY <4>3 DEF Tells
      <3> QED BY <3>3, <3>4
    <2> QED BY <2>1, <2>2
  <1>12. ASSUME NEW b, NEW m \in Nat, c # f, m + 1 < EventCap, Fresh(ring, c, b, m)
         PROVE  Fresh(p, c, b, m + 1)
    <2>1. PICK i \in 1 .. Len(ring) : LastEvent(ring, c, i) /\ ring[i].state = b /\ Len(ring) - i <= m
      BY <1>12 DEF Fresh
    <2>2. i > s
      BY <1>4, <1>6, <1>12, <2>1
    <2>3. /\ i - s \in 1 .. Len(p) /\ LastEvent(p, c, i - s) /\ p[i - s].state = b
          /\ Len(p) - (i - s) = Len(ring) - i + 1
      BY <1>10, <1>12, <2>1, <2>2
    <2>4. Len(p) - (i - s) <= m + 1
      BY <1>4, <2>1, <2>3
    <2> QED BY <2>3, <2>4 DEF Fresh
  <1> QED BY <1>5, <1>8, <1>9, <1>11, <1>12

(* A field of a report is compared with its last event and filed. *)
FiledField(ring, f, v, r) ==
    /\ r \in Seq(Events) /\ Tells(r, f, v)
    /\ EventsOf(ring, f) = {} => Fresh(r, f, v, 0)
    /\ \A c : c # f /\ EventsOf(ring, c) = {} => EventsOf(r, c) = {}
    /\ \A c, b : c # f /\ Tells(ring, c, b) => Tells(r, c, b)
    /\ \A c, b : \A m \in Nat : (c = f => b = v) /\ m + 1 < EventCap /\ Fresh(ring, c, b, m)
                => Fresh(r, c, b, m + 1)
LEMMA FieldAdded ==
    ASSUME NEW ring \in Seq(Events), NEW f \in Components, NEW v \in BOOLEAN, NEW r,
           r = AddIfChanged(ring, f, v)
    PROVE  FiledField(ring, f, v, r)
  <1>1. CASE LastState(ring, f, ~v) = v
    <2>1. r = ring
      BY <1>1 DEF AddIfChanged
    <2>2. EventsOf(ring, f) # {}
      BY <1>1 DEF LastState
    <2>3. Tells(ring, f, v)
      BY <1>1, <2>2 DEF Tells, LastState
    <2>4. ASSUME NEW c, NEW b, NEW m \in Nat, Fresh(ring, c, b, m) PROVE Fresh(ring, c, b, m + 1)
      <3>1. Len(ring) \in Nat
        OBVIOUS
      <3>2. PICK i \in 1 .. Len(ring) : LastEvent(ring, c, i) /\ ring[i].state = b /\ Len(ring) - i <= m
        BY <2>4 DEF Fresh
      <3>3. Len(ring) - i <= m + 1
        BY <3>1, <3>2
      <3> QED BY <3>2, <3>3 DEF Fresh
    <2> QED BY <2>1, <2>2, <2>3, <2>4 DEF FiledField
  <1>2. CASE LastState(ring, f, ~v) # v
    <2>1. r = PushCapped(ring, [component |-> f, state |-> v], EventCap)
      BY <1>2 DEF AddIfChanged
    <2>2. r \in Seq(Events) /\ Fresh(r, f, v, 0)
      BY <2>1, PushKeepsOthers
    <2>3. Tells(r, f, v)
      BY <2>2, FreshTells
    <2>4. ASSUME NEW c, c # f, EventsOf(ring, c) = {} PROVE EventsOf(r, c) = {}
      BY <2>1, <2>4, PushKeepsOthers
    <2>5. ASSUME NEW c, NEW b, c # f, Tells(ring, c, b) PROVE Tells(r, c, b)
      BY <2>1, <2>5, PushKeepsOthers
    <2>6. ASSUME NEW c, NEW b, NEW m \in Nat, c = f => b = v, m + 1 < EventCap, Fresh(ring, c, b, m)
          PROVE  Fresh(r, c, b, m + 1)
      <3>1. LastState(ring, c, ~v) = b
        BY <2>6, FreshTells
      <3>2. c # f
        BY <1>2, <2>6, <3>1
      <3> QED BY <2>1, <2>6, <3>2, PushKeepsOthers
    <2> QED BY <2>2, <2>3, <2>4, <2>5, <2>6 DEF FiledField
  <1> QED BY <1>1, <1>2

(* After the first j fields of a report: these are told, and one that had  *)
(* no event has a fresh one.                                               *)
Processed(j, c) == \E i \in 1 .. j : Fields[i] = c
Progress(ring, on, r, j) ==
    /\ r \in Seq(Events)
    /\ \A c \in Components : Processed(j, c) => Tells(r, c, on[c])
    /\ \A c \in Components : EventsOf(ring, c) = {} =>
          IF Processed(j, c) THEN Fresh(r, c, on[c], j - 1) ELSE EventsOf(r, c) = {}
LEMMA FieldsProgress ==
    ASSUME NEW ring \in Seq(Events), NEW on \in [Components -> BOOLEAN], NEW q, NEW r,
           NEW j \in 1 .. Len(Fields), Progress(ring, on, q, j - 1),
           r = AddIfChanged(q, Fields[j], on[Fields[j]])
    PROVE  Progress(ring, on, r, j)
  <1>1. /\ Len(Fields) \in Nat /\ Len(Fields) < EventCap /\ EventCap \in Nat
        /\ Fields[j] \in Components
    BY FieldsAreSequence, RingAssumption
  <1>2. PICK f \in Components : f = Fields[j]
    BY <1>1
  <1>3. PICK v \in BOOLEAN : v = on[f]
    BY <1>2
  <1>4. q \in Seq(Events) /\ r = AddIfChanged(q, f, v)
    BY <1>2, <1>3 DEF Progress
  <1>5. FiledField(q, f, v, r)
    BY <1>4, FieldAdded
  <1>6. \A c : Processed(j, c) <=> c = f \/ Processed(j - 1, c)
    BY <1>1, <1>2 DEF Processed
  <1>7. ASSUME NEW c \in Components, Processed(j, c) PROVE Tells(r, c, on[c])
    BY <1>3, <1>5, <1>6, <1>7 DEF Progress, FiledField
  <1>8. ASSUME NEW c \in Components, EventsOf(ring, c) = {}
        PROVE  IF Processed(j, c) THEN Fresh(r, c, on[c], j - 1) ELSE EventsOf(r, c) = {}
    <2>1. CASE Processed(j - 1, c)
      <3>1. j >= 2
        BY <2>1 DEF Processed
      <3>2. Fresh(q, c, on[c], j - 2)
        <4>1. (j - 1) - 1 = j - 2
          OBVIOUS
        <4> QED BY <1>8, <2>1, <4>1 DEF Progress
      <3>3. PICK m : m = j - 2
        OBVIOUS
      <3>4. m \in Nat /\ m + 1 = j - 1 /\ m + 1 < EventCap
        BY <1>1, <3>1, <3>3
      <3>5. Fresh(q, c, on[c], m)
        BY ONLY <3>2, <3>3, Zenon
      <3>6. c = f => on[c] = v
        BY <1>3
      <3>7. Fresh(r, c, on[c], m + 1)
        BY ONLY <1>5, <3>4, <3>5, <3>6 DEF FiledField
      <3>8. Fresh(r, c, on[c], j - 1)
        BY ONLY <3>4, <3>7, Zenon
      <3> QED BY <1>6, <2>1, <3>8
    <2>2. CASE ~Processed(j - 1, c) /\ c = f
      <3>1. EventsOf(q, f) = {}
        BY <1>8, <2>2 DEF Progress
      <3>2. Fresh(r, f, v, 0)
        BY <1>5, <3>1 DEF FiledField
      <3>3. Fresh(r, f, v, j - 1)
        <4>1. PICK i \in 1 .. Len(r) : LastEvent(r, f, i) /\ r[i].state = v /\ Len(r) - i <= 0
          BY <3>2 DEF Fresh
        <4>2. Len(r) \in Nat
          BY <1>5 DEF FiledField
        <4>3. Len(r) - i <= j - 1
          BY <4>1, <4>2
        <4> QED BY <4>1, <4>3 DEF Fresh
      <3> QED BY <1>3, <1>6, <2>2, <3>3
    <2>3. CASE ~Processed(j - 1, c) /\ c # f
      BY <1>5, <1>6, <1>8, <2>3 DEF Progress, FiledField
    <2> QED BY <2>1, <2>2, <2>3
  <1> QED BY <1>5, <1>7, <1>8 DEF Progress, FiledField

(* A report is told in full once it is filed: every component the ring     *)
(* still has an event of, and every one it had none of before.             *)
LEMMA ReportFiled ==
    ASSUME NEW ring \in Seq(Events), NEW on \in [Components -> BOOLEAN], NEW r,
           r = InsertComponentChanges(ring, on)
    PROVE  /\ r \in Seq(Events) /\ \A c \in Components : Tells(r, c, on[c])
           /\ \A c \in Components : EventsOf(ring, c) = {} => LastState(r, c, FALSE) = on[c]
  <1>1. PICK f : f = ChangesOfFields(ring, on)
    OBVIOUS
  <1>2. /\ f[0] = ring
        /\ \A k \in 1 .. Len(Fields) : f[k] = AddIfChanged(f[k - 1], Fields[k], on[Fields[k]])
    BY <1>1, ChangesByField
  <1>3. Len(Fields) \in Nat
    BY FieldsAreSequence
  <1>4. PICK Bad : Bad = {k \in 0 .. Len(Fields) : ~Progress(ring, on, f[k], k)}
    OBVIOUS
  <1>5. Bad = {}
    <2>1. SUFFICES ASSUME Bad # {} PROVE FALSE
      OBVIOUS
    <2>2. Bad \subseteq Nat
      BY <1>3, <1>4
    <2>3. PICK b \in Bad : \A a \in Bad : b <= a
      BY ONLY <2>1, <2>2, LeastOf
    <2>4. CASE b = 0
      <3>1. Progress(ring, on, ring, 0)
        BY DEF Progress, Processed
      <3> QED BY <1>2, <1>4, <2>3, <2>4, <3>1
    <2>5. CASE b # 0
      <3>1. b \in 1 .. Len(Fields) /\ b - 1 \in 0 .. Len(Fields) /\ b - 1 \notin Bad
        BY <1>3, <1>4, <2>2, <2>3, <2>5
      <3>2. Progress(ring, on, f[b - 1], b - 1)
        BY <1>4, <3>1
      <3>3. Progress(ring, on, f[b], b)
        BY <1>2, <3>1, <3>2, FieldsProgress
      <3> QED BY <1>4, <2>3, <3>3
    <2> QED BY <2>4, <2>5
  <1>6. PICK n : n = Len(Fields)
    OBVIOUS
  <1>7. r = f[n] /\ n \in 0 .. Len(Fields)
    BY <1>1, <1>3, <1>6 DEF InsertComponentChanges
  <1>8. Progress(ring, on, r, n)
    BY <1>4, <1>5, <1>7
  <1>9. \A c \in Components : Processed(n, c)
    BY <1>6, FieldsAreSequence DEF Processed, Components, ToSet
  <1>10. ASSUME NEW c \in Components, EventsOf(ring, c) = {} PROVE LastState(r, c, FALSE) = on[c]
    <2>1. r \in Seq(Events) /\ Fresh(r, c, on[c], n - 1)
      BY <1>8, <1>9, <1>10 DEF Progress
    <2> QED BY <2>1, FreshTells
  <1> QED BY <1>8, <1>9, <1>10 DEF Progress

-----------------------------------------------------------------------------
(* Which steps change what.                                                *)

LEMMA WhatChanges ==
    ASSUME [Next]_vars
    PROVE  /\ \/ UNCHANGED spa
              \/ \E c \in Components : ComponentChanges(c)
              \/ \E t \in WaterTemps[spa.scale] \cup {UnknownTemp} : WaterChanges(t)
              \/ DeviceTakes
           /\ ReportState \/ HandleForward \/ (\E t \in EntryTopics : SendEntry(t)) \/ UNCHANGED link
           /\ HandleForward \/ UNCHANGED <<samples, events, reported>>
           /\ \/ HandleForward
              \/ \E t \in EntryTopics : SendEntry(t)
              \/ \E t \in EntryTopics : ClearRing(t)
              \/ UNCHANGED <<rings, entries, cleared>>
           /\ (\E c \in Configs : SetConfig(c)) \/ UNCHANGED config
           /\ \/ \E id \in Sync(config) :
                    \/ \E v \in Setpoints : ExecuteSetpoint(id, v)
                    \/ \E mode \in {"heat", "off"} : ExecuteMode(id, mode)
                    \/ \E on \in BOOLEAN : ExecuteOnOff(id, on)
              \/ Publish \/ DeviceTakes
              \/ UNCHANGED <<channel, toDevice, asked>>
  <1> USE DEF store
  <1>1. CASE UNCHANGED vars
    BY <1>1 DEF vars
  <1>2. CASE \E c \in Components : ComponentChanges(c)
    BY <1>2 DEF ComponentChanges
  <1>3. CASE \E t \in WaterTemps[spa.scale] \cup {UnknownTemp} : WaterChanges(t)
    BY <1>3 DEF WaterChanges
  <1>4. CASE ReportState
    BY <1>4 DEF ReportState
  <1>5. CASE HandleForward
    BY <1>5 DEF HandleForward
  <1>6. CASE Advance
    BY <1>6 DEF Advance
  <1>7. CASE \E t \in EntryTopics : SendEntry(t)
    BY <1>7 DEF SendEntry
  <1>8. CASE \E t \in EntryTopics : ClearRing(t)
    BY <1>8 DEF ClearRing
  <1>9. CASE \E c \in Configs : SetConfig(c)
    <2>1. UNCHANGED <<spa, link, samples, events, rings, channel, toDevice, reported, entries, cleared, asked>>
      BY <1>9 DEF SetConfig
    <2> QED BY <1>9, <2>1
  <1>10. ASSUME NEW id \in Operated \cap Sync(config),
                \/ \E v \in Setpoints : ExecuteSetpoint(id, v)
                \/ \E mode \in {"heat", "off"} : ExecuteMode(id, mode)
                \/ \E on \in BOOLEAN : ExecuteOnOff(id, on)
         PROVE  UNCHANGED <<spa, link, store, reported, entries, cleared>>
    BY <1>10 DEF ExecuteSetpoint, ExecuteMode, ExecuteOnOff, Executes
  <1>11. CASE Publish
    BY <1>11 DEF Publish
  <1>12. CASE DeviceTakes
    BY <1>12 DEF DeviceTakes
  <1> QED BY <1>1, <1>2, <1>3, <1>4, <1>5, <1>6, <1>7, <1>8, <1>9, <1>10, <1>11, <1>12 DEF Next

(* The scale of the spa is not changed.                                    *)
LEMMA ScaleStays ==
    ASSUME spa \in Spas, CommandsFit, [Next]_vars
    PROVE  spa'.scale = spa.scale
  <1>1. CASE \E c \in Components : ComponentChanges(c)
    BY <1>1 DEF ComponentChanges, Spas
  <1>2. CASE \E t \in WaterTemps[spa.scale] \cup {UnknownTemp} : WaterChanges(t)
    BY <1>2 DEF WaterChanges, Spas
  <1>3. CASE DeviceTakes
    <2>1. PICK x : x = Head(toDevice)
      OBVIOUS
    <2>2. \/ spa' = spa \/ spa' = [spa EXCEPT !.set = x.payload.v]
          \/ spa' = [spa EXCEPT !.on[x.id] = ~@]
      BY <1>3, <2>1, TakesFits
    <2> QED BY <2>2 DEF Spas
  <1> QED BY <1>1, <1>2, <1>3, WhatChanges

(* A toggle of a component. *)
LEMMA Toggled ==
    ASSUME NEW s \in Spas, NEW c \in Components, NEW t, t = [s EXCEPT !.on[c] = ~@]
    PROVE  t \in Spas /\ t.temp = s.temp /\ t.set = s.set /\ t.scale = s.scale /\ t.range = s.range
  <1>1. PICK on \in [Components -> BOOLEAN] : on = s.on
    BY DEF Spas
  <1>2. [on EXCEPT ![c] = ~on[c]] \in [Components -> BOOLEAN]
    BY ONLY Zenon
  <1>3. PICK flipped \in [Components -> BOOLEAN] : flipped = [s.on EXCEPT ![c] = ~s.on[c]]
    BY <1>1, <1>2
  <1>4. t = [s EXCEPT !.on = flipped]
    BY ONLY t = [s EXCEPT !.on[c] = ~@], <1>3, Zenon
  <1> QED BY <1>4 DEF Spas

(* The messages on their way. *)
Messages == Reports \cup EntryMessages
LEMMA HeadIsReport ==
    ASSUME Measured, link # <<>>, NEW m, m = Head(link), m.topic = "state"
    PROVE  m \in Reports /\ HalfDegree(m.temp)
  <1>1. link \in Seq(Messages) /\ 1 \in DOMAIN link /\ m = link[1] /\ m \in Messages
    BY DEF Measured, Messages
  <1>2. m \notin EntryMessages
    BY TopicsAssumption DEF EntryMessages
  <1> QED BY <1>1, <1>2 DEF Messages, Measured
LEMMA MeasuredStays ==
    ASSUME Measured, CommandsFit, entries \in [EntryTopics -> Nat], [Next]_vars
    PROVE  Measured'
  <1>1. spa' \in Spas /\ HalfDegree(spa'.temp)
    <2>0. spa \in Spas /\ HalfDegree(spa.temp)
      BY DEF Measured
    <2>1. CASE \E c \in Components : ComponentChanges(c)
      BY <2>0, <2>1, Toggled DEF ComponentChanges
    <2>2. CASE \E t \in WaterTemps[spa.scale] \cup {UnknownTemp} : WaterChanges(t)
      <3>1. PICK t \in WaterTemps[spa.scale] \cup {UnknownTemp} : spa' = [spa EXCEPT !.temp = t]
        BY <2>2 DEF WaterChanges
      <3>2. spa.scale \in Scales
        BY <2>0 DEF Spas
      <3>3. HalfDegree(t)
        <4>1. HalfDegree(UnknownTemp)
          BY DEF HalfDegree, UnknownTemp
        <4>2. ASSUME t \in WaterTemps[spa.scale] PROVE HalfDegree(t)
          BY <3>2, <4>2, SpaAssumption DEF HalfDegree, Unit
        <4> QED BY <4>1, <4>2
      <3>4. t \in Int
        BY <3>3 DEF HalfDegree
      <3> QED BY <2>0, <3>1, <3>3, <3>4 DEF Spas
    <2>3. CASE DeviceTakes
      <3>1. PICK x : x = Head(toDevice)
        OBVIOUS
      <3>2. \/ spa' = spa
            \/ x \in TargetCommands /\ spa' = [spa EXCEPT !.set = x.payload.v]
            \/ x.id \in Components /\ spa' = [spa EXCEPT !.on[x.id] = ~@]
        BY <2>0, <2>3, <3>1, TakesFits
      <3>3. x \in TargetCommands => x.payload.v \in Int
        BY DEF TargetCommands, Execution, Number, Unit
      <3>4. CASE x.id \in Components /\ spa' = [spa EXCEPT !.on[x.id] = ~@]
        BY <2>0, <3>4, Toggled
      <3>5. CASE x \in TargetCommands /\ spa' = [spa EXCEPT !.set = x.payload.v]
        BY <2>0, <3>3, <3>5 DEF Spas
      <3> QED BY <2>0, <3>2, <3>4, <3>5
    <2> QED BY <2>0, <2>1, <2>2, <2>3, WhatChanges
  <1>2. Document \in Reports /\ HalfDegree(Document.temp) /\ Document.topic = "state"
    BY DEF Measured, Document, Reports, Spas
  <1>3. /\ link' \in Seq(Messages)
        /\ \A i \in DOMAIN link' : link'[i].topic = "state" => HalfDegree(link'[i].temp)
    <2>0. /\ link \in Seq(Messages)
          /\ \A i \in DOMAIN link : link[i].topic = "state" => HalfDegree(link[i].temp)
      BY DEF Measured, Messages
    <2>1. ASSUME NEW m \in Messages, link' = Append(link, m), m.topic = "state" => HalfDegree(m.temp)
          PROVE  /\ link' \in Seq(Messages)
                 /\ \A i \in DOMAIN link' : link'[i].topic = "state" => HalfDegree(link'[i].temp)
      BY <2>0, <2>1
    <2>2. CASE ReportState
      BY <1>2, <2>1, <2>2 DEF ReportState, Sends, Messages
    <2>3. CASE \E t \in EntryTopics : SendEntry(t)
      <3>1. PICK t \in EntryTopics : link' = Append(link, [topic |-> t, entry |-> entries[t] + 1])
        BY <2>3 DEF SendEntry, Sends
      <3>2. t # "state" /\ entries[t] + 1 \in Int
        BY TopicsAssumption
      <3>3. PICK m \in Messages : m = [topic |-> t, entry |-> entries[t] + 1]
        BY <3>2 DEF Messages, EntryMessages
      <3> QED BY <2>1, <3>1, <3>2, <3>3
    <2>4. CASE HandleForward
      BY <2>0, <2>4 DEF HandleForward
    <2> QED BY <2>0, <2>2, <2>3, <2>4, WhatChanges
  <1>4. reported' # NothingYet => reported' \in Reports /\ HalfDegree(reported'.temp)
    <2>1. CASE HandleForward
      <3>1. link # <<>> /\ (HandleState(Head(link)) \/ HandleEntry(Head(link)))
        BY <2>1 DEF HandleForward
      <3>2. CASE HandleEntry(Head(link))
        BY <3>2 DEF HandleEntry, Measured
      <3>3. CASE HandleState(Head(link))
        BY <3>1, <3>3, HeadIsReport DEF HandleState
      <3> QED BY <3>1, <3>2, <3>3
    <2> QED BY <2>1, WhatChanges DEF Measured
  <1> QED BY <1>1, <1>3, <1>4 DEF Measured, Messages

-----------------------------------------------------------------------------
(* A report is handled.                                                    *)

(* Temperatures that differ by less than half a degree are the same.       *)
LEMMA SameHalfDegree ==
    ASSUME NEW a, NEW b, HalfDegree(a), HalfDegree(b), a - b \in 1 - TempMinDelta .. TempMinDelta - 1
    PROVE  a = b
  <1>1. a \in Int /\ b \in Int /\ a % 500 = 0 /\ b % 500 = 0
    BY DEF HalfDegree
  <1>2. PICK i \in Int, j \in Int : a = 500 * i /\ b = 500 * j
    <2>1. a = 500 * (a \div 500) /\ b = 500 * (b \div 500) /\ a \div 500 \in Int /\ b \div 500 \in Int
      BY <1>1
    <2> QED BY <2>1
  <1>3. 500 * (i - j) \in -399 .. 399
    BY <1>2 DEF TempMinDelta
  <1> QED BY <1>2, <1>3

LEMMA SampleFitsStays ==
    ASSUME Measured, SampleFits, [Next]_vars
    PROVE  SampleFits'
  <1>1. CASE UNCHANGED <<samples, events, reported>>
    BY <1>1 DEF SampleFits
  <1>2. ASSUME NEW m, m = Head(link), HandleForward, HandleEntry(m) PROVE SampleFits'
    BY <1>2 DEF HandleEntry, SampleFits
  <1>3. ASSUME NEW m, m = Head(link), HandleForward, HandleState(m) PROVE SampleFits'
    <2>1. m \in Reports /\ HalfDegree(m.temp) /\ reported' = m
      BY <1>3, HeadIsReport DEF HandleForward, HandleState
    <2>2. samples \in Seq(Samples) /\ \A i \in DOMAIN samples : HalfDegree(samples[i].temp)
      BY DEF SampleFits
    <2>3. CASE samples' = PushCapped(samples, [temp |-> m.temp, set |-> m.set], SampleCap)
      <3>1. PICK item \in Samples : item = [temp |-> m.temp, set |-> m.set]
        BY <2>1 DEF Reports, Samples
      <3>2. item.temp = m.temp /\ item.set = m.set
        BY <3>1
      <3>3. PICK cap \in Nat \ {0} : cap = SampleCap
        BY RingAssumption
      <3>4. samples' = PushCapped(samples, item, cap)
        BY <2>3, <3>1, <3>3
      <3>5. /\ samples' \in Seq(Samples) /\ samples' # <<>> /\ Last(samples') = item
            /\ \A i \in DOMAIN samples' :
                  samples'[i] = item \/ \E j \in DOMAIN samples : samples'[i] = samples[j]
        BY ONLY <2>2, item \in Samples, <3>4, PushedLast
      <3>6. \A i \in DOMAIN samples' : HalfDegree(samples'[i].temp)
        BY <2>1, <2>2, <3>2, <3>5
      <3> QED BY <2>1, <3>2, <3>5, <3>6 DEF SampleFits
    <2>4. CASE UNCHANGED samples /\ samples # <<>> /\ ~SampleChanged(samples[Len(samples)], m.temp, m.set)
      <3>1. Last(samples) = samples[Len(samples)] /\ Len(samples) \in DOMAIN samples
        BY <2>2, <2>4 DEF Last
      <3>2. Last(samples).set = m.set
        BY <2>4, <3>1 DEF SampleChanged
      <3>3. ASSUME m.temp # UnknownTemp PROVE Last(samples).temp = m.temp
        <4>1. m.temp - Last(samples).temp \in 1 - TempMinDelta .. TempMinDelta - 1
          BY <2>4, <3>1, <3>3 DEF SampleChanged
        <4> QED BY <2>1, <2>2, <3>1, <4>1, SameHalfDegree
      <3> QED BY <2>1, <2>2, <2>4, <3>2, <3>3 DEF SampleFits
    <2> QED BY <1>3, <2>3, <2>4 DEF HandleState, InsertTemperatureSample
  <1> QED BY <1>1, <1>2, <1>3, WhatChanges DEF HandleForward

LEMMA EventsFitStays ==
    ASSUME Measured, EventsFit, [Next]_vars
    PROVE  EventsFit'
  <1>1. CASE UNCHANGED <<samples, events, reported>>
    BY <1>1 DEF EventsFit, Tells, EventsOf, LastState
  <1>2. ASSUME NEW m, m = Head(link), HandleForward, HandleEntry(m) PROVE EventsFit'
    BY <1>2 DEF HandleEntry, EventsFit, Tells, EventsOf, LastState
  <1>3. ASSUME NEW m, m = Head(link), HandleForward, HandleState(m) PROVE EventsFit'
    <2>1. m \in Reports /\ reported' = m /\ events' = InsertComponentChanges(events, m.on)
      BY <1>3, HeadIsReport DEF HandleForward, HandleState
    <2>2. m.on \in [Components -> BOOLEAN] /\ events \in Seq(Events)
      BY <2>1 DEF Reports, EventsFit
    <2>3. events' \in Seq(Events) /\ \A c \in Components : Tells(events', c, m.on[c])
      BY <2>1, <2>2, ReportFiled
    <2> QED BY <2>1, <2>3 DEF EventsFit
  <1> QED BY <1>1, <1>2, <1>3, WhatChanges DEF HandleForward

LEMMA AnsweredRightly == Measured /\ EventsFit => NeverFalselyOn
  <1> SUFFICES ASSUME Measured, EventsFit, NEW c \in Components, Wrong(c) PROVE reported.on[c]
    BY DEF NeverFalselyOn
  <1>1. reported \in Reports /\ Tells(events, c, reported.on[c]) /\ LastState(events, c, FALSE) # reported.on[c]
    BY DEF Wrong, QueryOn, QueryComponent, Measured, EventsFit
  <1>2. LastState(events, c, FALSE) = FALSE
    BY <1>1 DEF Tells, LastState
  <1>3. reported.on \in [Components -> BOOLEAN]
    BY <1>1 DEF Reports
  <1>4. reported.on[c] \in BOOLEAN
    BY <1>3
  <1> QED BY <1>1, <1>2, <1>4
LEMMA Mended ==
    ASSUME Measured, EventsFit, HandleForward, reported' # reported, NEW c \in Components, Wrong(c)
    PROVE  ~Wrong(c)'
  <1>1. PICK m : m = Head(link)
    OBVIOUS
  <1>2. HandleState(m) /\ link # <<>>
    BY <1>1 DEF HandleForward, HandleEntry
  <1>3. m \in Reports /\ reported' = m /\ events' = InsertComponentChanges(events, m.on)
    BY <1>1, <1>2, HeadIsReport DEF HandleState
  <1>4. m.on \in [Components -> BOOLEAN] /\ events \in Seq(Events)
    BY <1>3 DEF Reports, EventsFit
  <1>5. EventsOf(events, c) = {}
    BY DEF EventsFit, Wrong, QueryOn, QueryComponent, Tells
  <1>6. LastState(events', c, FALSE) = m.on[c]
    BY <1>3, <1>4, <1>5, ReportFiled
  <1> QED BY <1>3, <1>6 DEF Wrong, QueryOn, QueryComponent
LEMMA ThermostatAnswered == SampleFits => ThermostatIsCurrent
  BY DEF SampleFits, ThermostatIsCurrent, QueryThermostat

-----------------------------------------------------------------------------
(* The accessories and the commands.                                       *)

LEMMA ConfigFitsStays ==
    ASSUME ConfigFits, [Next]_vars
    PROVE  ConfigFits'
  <1>1. CASE UNCHANGED config
    BY <1>1 DEF ConfigFits
  <1>2. ASSUME NEW c \in Configs, SetConfig(c) PROVE ConfigFits'
    <2>1. c \in [pumps : Int, lights : Int, blower : BOOLEAN, mister : BOOLEAN]
      BY UserAssumption
    <2>2. config' = [c EXCEPT !.pumps = Clamp(@, 1, 6), !.lights = Clamp(@, 1, 4)]
      BY <1>2 DEF SetConfig
    <2>3. Clamp(c.pumps, 1, 6) \in 1 .. 6 /\ Clamp(c.lights, 1, 4) \in 1 .. 4
      BY <2>1 DEF Clamp
    <2> QED BY <2>1, <2>2, <2>3 DEF ConfigFits
  <1> QED BY <1>1, <1>2, WhatChanges

(* A target is sent in whole degrees of the spa. *)
LEMMA TargetIsWhole ==
    ASSUME NEW v \in Int
    PROVE  \E n \in Int : SetpointPayload(v) = Number(Unit * n)
  <1>1. PICK t \in Int : t = IF spa.scale = "Celsius" THEN v ELSE (v * 9) \div 5 + 32 * Unit
    BY DEF Unit
  <1>2. RoundDegree(t) \in Int
    BY DEF RoundDegree, Unit
  <1> QED BY <1>1, <1>2 DEF SetpointPayload

GoogleCommands == SwitchCommands \cup ModeCommands \cup TargetCommands
LEMMA CommandsFitStays ==
    ASSUME ConfigFits, CommandsFit, spa \in Spas, [Next]_vars
    PROVE  CommandsFit'
  <1>0. channel \in Seq(GoogleCommands) /\ toDevice \in Seq(GoogleCommands)
    BY DEF CommandsFit, GoogleCommands
  <1>1. SUFFICES channel' \in Seq(GoogleCommands) /\ toDevice' \in Seq(GoogleCommands)
    BY DEF CommandsFit, GoogleCommands
  <1>2. CASE UNCHANGED <<channel, toDevice, asked>>
    BY <1>0, <1>2
  <1>3. ASSUME NEW x \in GoogleCommands, Executes(x) PROVE CommandsFit'
    BY <1>0, <1>3 DEF Executes, CommandsFit, GoogleCommands
  <1>4. ASSUME NEW id \in Sync(config), NEW v \in Setpoints, ExecuteSetpoint(id, v)
        PROVE  \E x \in GoogleCommands : Executes(x)
    <2>1. id = <<"thermostat">>
      BY <1>4, OfferedIds, SwitchSuffix DEF ExecuteSetpoint
    <2>2. v \in Int
      BY UserAssumption
    <2>3. PICK n \in Int : SetpointPayload(v) = Number(Unit * n)
      BY <2>2, TargetIsWhole
    <2>4. SetpointExecution(id, v) = Execution(<<"thermostat">>, <<"set_temperature">>, Number(Unit * n))
      BY <2>1, <2>3 DEF SetpointExecution
    <2>5. SetpointExecution(id, v) \in GoogleCommands
      BY <2>4 DEF GoogleCommands, TargetCommands
    <2> QED BY <1>4, <2>5 DEF ExecuteSetpoint
  <1>5. ASSUME NEW id \in Sync(config), NEW mode \in {"heat", "off"}, ExecuteMode(id, mode)
        PROVE  \E x \in GoogleCommands : Executes(x)
    <2>1. id = <<"thermostat">>
      BY <1>5, OfferedIds, SwitchSuffix DEF ExecuteMode
    <2>2. ModeExecution(id, mode) \in GoogleCommands
      BY <2>1 DEF GoogleCommands, ModeCommands
    <2> QED BY <1>5, <2>2 DEF ExecuteMode
  <1>6. ASSUME NEW id \in Sync(config), NEW on \in BOOLEAN, ExecuteOnOff(id, on)
        PROVE  \E x \in GoogleCommands : Executes(x)
    <2>1. id \in SwitchIds
      BY <1>6, OfferedIds DEF ExecuteOnOff, IsSwitch, DeviceType
    <2>2. OnOffExecution(id, on) \in GoogleCommands
      BY <2>1 DEF GoogleCommands, SwitchCommands
    <2> QED BY <1>6, <2>2 DEF ExecuteOnOff
  <1>7. CASE Publish
    <2>1. channel # <<>> /\ channel' = Tail(channel)
      BY <1>7 DEF Publish, PublishHead
    <2>2. Head(channel) \in GoogleCommands /\ Tail(channel) \in Seq(GoogleCommands)
      BY <1>0, <2>1
    <2>3. PICK x \in GoogleCommands : x = Head(channel)
      BY <2>2
    <2>4. toDevice' = Append(toDevice, x) \/ toDevice' = toDevice
      BY <1>7, <2>3 DEF Publish, PublishHead
    <2>5. Append(toDevice, x) \in Seq(GoogleCommands)
      BY <1>0
    <2> QED BY ONLY <1>0, <2>1, <2>2, <2>4, <2>5
  <1>8. CASE DeviceTakes
    BY <1>0, <1>8 DEF DeviceTakes
  <1> QED BY <1>0, <1>2, <1>3, <1>4, <1>5, <1>6, <1>7, <1>8, WhatChanges DEF CommandsFit, GoogleCommands

-----------------------------------------------------------------------------
(* The target asked for last.                                              *)

(* A command is sent, or taken. *)
LEMMA SendsCommand ==
    ASSUME NEW q \in Seq(GoogleCommands), NEW x \in GoogleCommands, NEW p
    PROVE  /\ NoneSets(Append(q, x)) => NoneSets(q) /\ ~SetsTarget(x)
           /\ ~SetsTarget(x) /\ LastSets(q, p) => LastSets(Append(q, x), p)
           /\ SetsTarget(x) /\ x.payload = p => LastSets(Append(q, x), p)
  <1>1. PICK r : r = Append(q, x)
    OBVIOUS
  <1>2. /\ Len(q) \in Nat /\ DOMAIN q = 1 .. Len(q) /\ DOMAIN r = 1 .. Len(q) + 1
        /\ r[Len(q) + 1] = x /\ \A i \in 1 .. Len(q) : r[i] = q[i]
    BY <1>1
  <1>3. NoneSets(r) => NoneSets(q) /\ ~SetsTarget(x)
    BY <1>2 DEF NoneSets
  <1>4. ASSUME ~SetsTarget(x), LastSets(q, p), NEW i \in DOMAIN r, SetsTarget(r[i]),
               \A j \in DOMAIN r : j > i => ~SetsTarget(r[j])
        PROVE  r[i].payload = p
    <2>1. i \in DOMAIN q /\ SetsTarget(q[i]) /\ r[i] = q[i]
      BY <1>2, <1>4
    <2>2. \A j \in DOMAIN q : j > i => ~SetsTarget(q[j])
      BY <1>2, <1>4
    <2> QED BY <1>4, <2>1, <2>2 DEF LastSets
  <1>5. ASSUME SetsTarget(x), x.payload = p, NEW i \in DOMAIN r,
               \A j \in DOMAIN r : j > i => ~SetsTarget(r[j])
        PROVE  r[i].payload = p
    <2>1. i = Len(q) + 1
      BY <1>2, <1>5
    <2> QED BY <1>2, <1>5, <2>1
  <1> QED BY <1>1, <1>3, <1>4, <1>5 DEF LastSets
LEMMA TakesCommand ==
    ASSUME NEW q \in Seq(GoogleCommands), q # <<>>, NEW p
    PROVE  /\ LastSets(q, p) => LastSets(Tail(q), p)
           /\ NoneSets(Tail(q)) /\ ~SetsTarget(Head(q)) => NoneSets(q)
           /\ NoneSets(Tail(q)) /\ SetsTarget(Head(q)) /\ LastSets(q, p) => Head(q).payload = p
  <1>1. PICK r : r = Tail(q)
    OBVIOUS
  <1>2. /\ Len(q) \in Nat /\ DOMAIN q = 1 .. Len(q) /\ DOMAIN r = 1 .. Len(q) - 1
        /\ Head(q) = q[1] /\ 1 \in DOMAIN q /\ \A i \in DOMAIN r : r[i] = q[i + 1]
    BY <1>1
  <1>3. \A i \in DOMAIN q : i # 1 => i - 1 \in DOMAIN r /\ q[i] = r[i - 1]
    BY <1>2
  <1>4. ASSUME LastSets(q, p), NEW i \in DOMAIN r, SetsTarget(r[i]),
               \A j \in DOMAIN r : j > i => ~SetsTarget(r[j])
        PROVE  r[i].payload = p
    <2>1. i + 1 \in DOMAIN q /\ q[i + 1] = r[i]
      BY <1>2
    <2>2. ASSUME NEW j \in DOMAIN q, j > i + 1 PROVE ~SetsTarget(q[j])
      <3>1. j # 1 /\ j - 1 > i
        BY <1>2, <2>2
      <3> QED BY <1>3, <1>4, <3>1
    <2> QED BY <1>4, <2>1, <2>2 DEF LastSets
  <1>5. NoneSets(r) /\ ~SetsTarget(Head(q)) => NoneSets(q)
    BY <1>2, <1>3 DEF NoneSets
  <1>6. ASSUME NoneSets(r), SetsTarget(Head(q)), LastSets(q, p) PROVE Head(q).payload = p
    <2>1. \A j \in DOMAIN q : j > 1 => ~SetsTarget(q[j])
      BY <1>2, <1>3, <1>6 DEF NoneSets
    <2> QED BY <1>2, <1>6, <2>1 DEF LastSets
  <1> QED BY <1>1, <1>4, <1>5, <1>6 DEF LastSets

(* Which commands set the target. *)
LEMMA WhatSetsTarget ==
    ASSUME NEW x \in GoogleCommands
    PROVE  /\ x \in TargetCommands => SetsTarget(x)
           /\ x \in SwitchCommands \cup ModeCommands => ~SetsTarget(x)
  <1>1. ASSUME x \in TargetCommands PROVE SetsTarget(x)
    BY <1>1 DEF TargetCommands, SetsTarget, Execution
  <1>2. ASSUME x \in ModeCommands PROVE ~SetsTarget(x)
    BY <1>2 DEF ModeCommands, ModeExecution, SetsTarget, Execution
  <1>3. ASSUME x \in SwitchCommands PROVE ~SetsTarget(x)
    <2>1. PICK id \in SwitchIds : x.sub = TopicSuffix(id)
      BY <1>3 DEF SwitchCommands, OnOffExecution, Execution
    <2>2. <<"set_temperature">> \notin ToggleTopics
      BY DEF ToggleTopics, PlainCode, Name
    <2> QED BY <2>1, <2>2, SwitchSuffix DEF SetsTarget
  <1> QED BY <1>1, <1>2, <1>3

LEMMA AskedFitsStays ==
    ASSUME Measured, ConfigFits, CommandsFit, AskedFits, [Next]_vars
    PROVE  AskedFits'
  <1>1. channel \in Seq(GoogleCommands) /\ toDevice \in Seq(GoogleCommands) /\ spa \in Spas
    BY DEF CommandsFit, GoogleCommands, Measured
  <1>2. spa'.scale = spa.scale
    BY <1>1, ScaleStays
  <1>3. PICK p : p = SetpointPayload(asked)
    OBVIOUS
  <1>4. asked' = asked => SetpointPayload(asked)' = p
    BY <1>2, <1>3 DEF SetpointPayload
  <1>5. asked \in Int /\ (asked # NoSetpoint => OnItsWay(channel, toDevice, spa.set, p))
    BY <1>3 DEF AskedFits
  <1>6. ASSUME asked' = asked,
               OnItsWay(channel, toDevice, spa.set, p) => OnItsWay(channel', toDevice', spa'.set, p)
        PROVE  AskedFits'
    BY <1>4, <1>5, <1>6 DEF AskedFits
  <1>7. ASSUME asked' = NoSetpoint PROVE AskedFits'
    BY <1>7 DEF AskedFits, NoSetpoint
  <1>8. CASE ~DeviceTakes /\ UNCHANGED <<channel, toDevice, asked>>
    <2>1. spa'.set = spa.set
      <3>1. CASE \E c \in Components : ComponentChanges(c)
        BY <1>1, <3>1, Toggled DEF ComponentChanges
      <3>2. CASE \E t \in WaterTemps[spa.scale] \cup {UnknownTemp} : WaterChanges(t)
        BY <1>1, <3>2 DEF WaterChanges, Spas
      <3> QED BY <1>8, <3>1, <3>2, WhatChanges
    <2> QED BY <1>6, <1>8, <2>1
  <1>9. ASSUME NEW id \in Sync(config), NEW v \in Setpoints, ExecuteSetpoint(id, v)
        PROVE  AskedFits'
    <2>1. asked' = v /\ v \in Int /\ spa' = spa
      BY <1>9, UserAssumption DEF ExecuteSetpoint, Executes
    <2>2. PICK x : x = SetpointExecution(id, v)
      OBVIOUS
    <2>3. channel' = Append(channel, x) /\ toDevice' = toDevice
      BY <1>9, <2>2 DEF ExecuteSetpoint, Executes
    <2>4. PICK n : n = SetpointPayload(v)
      OBVIOUS
    <2>5. x.payload = n /\ SetsTarget(x)
      BY <2>2, <2>4 DEF SetpointExecution, Execution, SetsTarget
    <2>6. x \in GoogleCommands
      <3>1. id = <<"thermostat">>
        BY <1>9, OfferedIds, SwitchSuffix DEF ExecuteSetpoint
      <3> QED BY <2>1, <2>2, <3>1, TargetIsWhole DEF SetpointExecution, GoogleCommands, TargetCommands
    <2>7. LastSets(channel', n) /\ ~NoneSets(channel')
      BY <1>1, <2>3, <2>5, <2>6, SendsCommand
    <2>8. SetpointPayload(asked)' = n
      BY <2>1, <2>4 DEF SetpointPayload
    <2> QED BY <2>1, <2>7, <2>8 DEF AskedFits, OnItsWay
  <1>10. ASSUME NEW x \in SwitchCommands \cup ModeCommands, Executes(x), asked' = asked
         PROVE  AskedFits'
    <2>1. channel' = Append(channel, x) /\ toDevice' = toDevice /\ spa' = spa
      BY <1>10 DEF Executes
    <2>2. x \in GoogleCommands /\ ~SetsTarget(x)
      BY WhatSetsTarget DEF GoogleCommands
    <2>3. /\ NoneSets(channel') => NoneSets(channel)
          /\ LastSets(channel, p) => LastSets(channel', p)
      BY <1>1, <2>1, <2>2, SendsCommand
    <2> QED BY <1>6, <1>10, <2>1, <2>3 DEF OnItsWay
  <1>11. ASSUME NEW id \in Sync(config), NEW mode \in {"heat", "off"}, ExecuteMode(id, mode)
         PROVE  AskedFits'
    <2>1. id = <<"thermostat">>
      BY <1>11, OfferedIds, SwitchSuffix DEF ExecuteMode
    <2>2. ModeExecution(id, mode) \in ModeCommands
      BY <2>1 DEF ModeCommands
    <2> QED BY <1>10, <1>11, <2>2 DEF ExecuteMode
  <1>12. ASSUME NEW id \in Sync(config), NEW on \in BOOLEAN, ExecuteOnOff(id, on)
         PROVE  AskedFits'
    <2>1. id \in SwitchIds
      BY <1>12, OfferedIds DEF ExecuteOnOff, IsSwitch, DeviceType
    <2>2. OnOffExecution(id, on) \in SwitchCommands
      BY <2>1 DEF SwitchCommands
    <2> QED BY <1>10, <1>12, <2>2 DEF ExecuteOnOff
  <1>13. CASE Publish
    <2>1. channel # <<>> /\ channel' = Tail(channel) /\ spa' = spa
      BY <1>13 DEF Publish, PublishHead
    <2>2. PICK x \in GoogleCommands : x = Head(channel)
      BY <1>1, <2>1
    <2>3. \/ toDevice' = Append(toDevice, x) /\ asked' = asked
          \/ toDevice' = toDevice /\ asked' = IF SetsTarget(x) THEN NoSetpoint ELSE asked
      BY <1>13, <2>2 DEF Publish, PublishHead, Forgets, SetsTarget
    <2>4. /\ LastSets(channel, p) => LastSets(channel', p)
          /\ NoneSets(channel') /\ ~SetsTarget(x) => NoneSets(channel)
          /\ NoneSets(channel') /\ SetsTarget(x) /\ LastSets(channel, p) => x.payload = p
      BY <1>1, <2>1, <2>2, TakesCommand
    <2>5. CASE toDevice' = Append(toDevice, x) /\ asked' = asked
      <3>1. /\ NoneSets(toDevice') => NoneSets(toDevice) /\ ~SetsTarget(x)
            /\ ~SetsTarget(x) /\ LastSets(toDevice, p) => LastSets(toDevice', p)
            /\ SetsTarget(x) /\ x.payload = p => LastSets(toDevice', p)
        BY <1>1, <2>5, SendsCommand
      <3> QED BY <1>6, <2>1, <2>4, <2>5, <3>1 DEF OnItsWay
    <2>6. CASE toDevice' = toDevice /\ asked' = asked /\ ~SetsTarget(x)
      BY <1>6, <2>1, <2>4, <2>6 DEF OnItsWay
    <2> QED BY <1>7, <2>3, <2>5, <2>6
  <1>14. CASE DeviceTakes
    <2>1. toDevice # <<>> /\ toDevice' = Tail(toDevice) /\ channel' = channel
      BY <1>14 DEF DeviceTakes
    <2>2. PICK x \in GoogleCommands : x = Head(toDevice)
      BY <1>1, <2>1
    <2>3. /\ LastSets(toDevice, p) => LastSets(toDevice', p)
          /\ NoneSets(toDevice') /\ ~SetsTarget(x) => NoneSets(toDevice)
          /\ NoneSets(toDevice') /\ SetsTarget(x) /\ LastSets(toDevice, p) => x.payload = p
      BY <1>1, <2>1, <2>2, TakesCommand
    <2>4. \/ /\ x \in TargetCommands
             /\ \/ asked' = NoSetpoint
                \/ spa' = [spa EXCEPT !.set = x.payload.v] /\ asked' = asked /\ x.payload.v >= 0
          \/ /\ x \in SwitchCommands \cup ModeCommands /\ asked' = asked
             /\ spa' = spa \/ (x.id \in Components /\ spa' = [spa EXCEPT !.on[x.id] = ~@])
      BY <1>1, <1>14, <2>2, TakesFits
    <2>5. CASE /\ x \in TargetCommands /\ spa' = [spa EXCEPT !.set = x.payload.v] /\ asked' = asked
               /\ x.payload.v >= 0
      <3>1. SetsTarget(x) /\ spa'.set = x.payload.v
        BY <1>1, <2>5, WhatSetsTarget DEF Spas
      <3> QED BY <1>6, <2>1, <2>3, <2>5, <3>1 DEF OnItsWay
    <2>6. CASE /\ x \in SwitchCommands \cup ModeCommands /\ asked' = asked
               /\ spa' = spa \/ (x.id \in Components /\ spa' = [spa EXCEPT !.on[x.id] = ~@])
      <3>1. spa'.set = spa.set
        BY <1>1, <2>6, Toggled
      <3>2. ~SetsTarget(x)
        BY <2>6, WhatSetsTarget
      <3> QED BY <1>6, <2>1, <2>3, <2>6, <3>1, <3>2 DEF OnItsWay
    <2> QED BY <1>7, <2>4, <2>5, <2>6
  <1> QED BY <1>8, <1>9, <1>11, <1>12, <1>13, <1>14, WhatChanges

-----------------------------------------------------------------------------
(* The entries and the rings of the page.                                  *)

(* Min, by what makes it. *)
LEMMA LeastIs ==
    ASSUME NEW S \in SUBSET Int, NEW m \in S, \A x \in S : m <= x
    PROVE  Min(S) = m
  <1>1. PICK n : n = Min(S)
    OBVIOUS
  <1>2. n \in S /\ \A x \in S : n <= x
    BY <1>1 DEF Min
  <1>3. m \in Int /\ n \in Int /\ m <= n /\ n <= m
    BY <1>2
  <1> QED BY <1>1, <1>3
LEMMA LeastOfTwo ==
    ASSUME NEW a \in Int, NEW b \in Int
    PROVE  Min({a, b}) = IF a <= b THEN a ELSE b
  <1>1. PICK m \in {a, b} : m = IF a <= b THEN a ELSE b
    OBVIOUS
  <1>2. \A x \in {a, b} : m <= x
    BY <1>1
  <1>3. Min({a, b}) = m
    BY <1>2, LeastIs
  <1> QED BY <1>1, <1>3
LEMMA LeastOfThree ==
    ASSUME NEW a \in Int, NEW b \in Int, NEW c \in Int
    PROVE  Min({a, b, c}) = Min({a, Min({b, c})})
  <1>1. PICK n \in {b, c} : n = Min({b, c}) /\ n <= b /\ n <= c
    BY LeastOfTwo
  <1>2. PICK m \in {a, n} : m = Min({a, n}) /\ m <= a /\ m <= n
    BY LeastOfTwo
  <1>3. m \in {a, b, c} /\ \A x \in {a, b, c} : m <= x
    BY <1>1, <1>2
  <1>4. Min({a, b, c}) = m
    BY <1>3, LeastIs
  <1> QED BY <1>1, <1>2, <1>4

(* How many messages of a topic are behind the i-th. *)
LEMMA BehindIsNatural ==
    ASSUME NEW S, NEW q \in Seq(S), NEW t, NEW i
    PROVE  IsFiniteSet(After(q, t, i)) /\ Behind(q, t, i) \in Nat
  <1>1. After(q, t, i) \in SUBSET (1 .. Len(q)) /\ Len(q) \in Int
    BY DEF After
  <1>2. IsFiniteSet(1 .. Len(q))
    BY <1>1, FS_Interval
  <1>3. IsFiniteSet(After(q, t, i))
    BY <1>1, <1>2, FS_Subset
  <1> QED BY <1>3, FS_CardinalityType DEF Behind
LEMMA BehindAppended ==
    ASSUME NEW S, NEW q \in Seq(S), NEW m \in S, NEW t, NEW i \in 0 .. Len(q)
    PROVE  Behind(Append(q, m), t, i) = Behind(q, t, i) + (IF m.topic = t THEN 1 ELSE 0)
  <1>0. PICK r : r = Append(q, m)
    OBVIOUS
  <1>1. /\ Len(q) \in Nat /\ DOMAIN q = 1 .. Len(q) /\ DOMAIN r = 1 .. Len(q) + 1
        /\ r[Len(q) + 1] = m /\ \A j \in 1 .. Len(q) : r[j] = q[j]
    BY <1>0
  <1>2. SUFFICES Behind(r, t, i) = Behind(q, t, i) + (IF m.topic = t THEN 1 ELSE 0)
    BY <1>0, Zenon
  <1>3. CASE m.topic = t
    <2>1. After(r, t, i) = After(q, t, i) \cup {Len(q) + 1}
      BY <1>1, <1>3 DEF After
    <2>2. Len(q) + 1 \notin After(q, t, i)
      BY <1>1 DEF After
    <2>3. IsFiniteSet(After(q, t, i))
      BY BehindIsNatural
    <2>4. Cardinality(After(q, t, i) \cup {Len(q) + 1}) = Cardinality(After(q, t, i)) + 1
      BY ONLY <2>2, <2>3, FS_AddElement
    <2> QED BY <1>3, <2>1, <2>4 DEF Behind
  <1>4. CASE m.topic # t
    <2>1. After(r, t, i) = After(q, t, i)
      BY <1>1, <1>4 DEF After
    <2> QED BY <1>4, <2>1, BehindIsNatural DEF Behind
  <1> QED BY <1>3, <1>4
LEMMA BehindTail ==
    ASSUME NEW S, NEW q \in Seq(S), q # <<>>, NEW t, NEW i \in Nat
    PROVE  Behind(Tail(q), t, i) = Behind(q, t, i + 1)
  <1>0. PICK r : r = Tail(q)
    OBVIOUS
  <1>1. /\ Len(q) \in Nat /\ DOMAIN q = 1 .. Len(q) /\ DOMAIN r = 1 .. Len(q) - 1
        /\ \A j \in DOMAIN r : r[j] = q[j + 1]
    BY <1>0
  <1>2. PICK A : A = After(r, t, i)
    OBVIOUS
  <1>3. PICK B : B = After(q, t, i + 1)
    OBVIOUS
  <1>4. \A j \in A : j \in Nat /\ j + 1 \in B
    BY <1>1, <1>2, <1>3 DEF After
  <1>5. \A j \in B : j \in Nat /\ j - 1 \in A
    BY <1>1, <1>2, <1>3 DEF After
  <1>6. PICK f : f = [j \in A |-> j + 1]
    OBVIOUS
  <1>7. f \in Bijection(A, B)
    <2>1. f \in [A -> B]
      BY <1>4, <1>6
    <2>2. \A a, b \in A : f[a] = f[b] => a = b
      BY <1>4, <1>6
    <2>3. \A b \in B : \E a \in A : f[a] = b
      <3>1. ASSUME NEW b \in B PROVE b - 1 \in A /\ f[b - 1] = b
        BY <1>5, <1>6
      <3> QED BY <3>1
    <2> QED BY <2>1, <2>2, <2>3 DEF Bijection, Injection, Surjection, IsInjective
  <1>8. IsFiniteSet(A)
    <2>1. r \in Seq(S)
      BY <1>0
    <2> QED BY <1>2, <2>1, BehindIsNatural
  <1>9. Cardinality(B) = Cardinality(A)
    BY <1>7, <1>8, FS_Bijection DEF ExistsBijection
  <1> QED BY <1>0, <1>2, <1>3, <1>9 DEF Behind
LEMMA BehindFirst ==
    ASSUME NEW S, NEW q \in Seq(S), q # <<>>, NEW t
    PROVE  Behind(q, t, 0) = Behind(q, t, 1) + (IF Head(q).topic = t THEN 1 ELSE 0)
  <1>1. Len(q) \in Nat /\ DOMAIN q = 1 .. Len(q) /\ Head(q) = q[1] /\ 1 \in DOMAIN q
    OBVIOUS
  <1>2. CASE q[1].topic = t
    <2>1. After(q, t, 0) = After(q, t, 1) \cup {1} /\ 1 \notin After(q, t, 1)
      BY <1>1, <1>2 DEF After
    <2> QED BY <1>1, <1>2, <2>1, BehindIsNatural, FS_AddElement DEF Behind
  <1>3. CASE q[1].topic # t
    <2>1. After(q, t, 0) = After(q, t, 1)
      BY <1>1, <1>3 DEF After
    <2> QED BY <1>1, <1>3, <2>1, BehindIsNatural DEF Behind
  <1> QED BY <1>2, <1>3

(* An entry is filed. *)
LEMMA EntryFiled ==
    ASSUME NEW ring, NEW n \in Int, NEW c, RingHolds(ring, n, c), NEW r, r = FileEntry(ring, n + 1)
    PROVE  RingHolds(r, n + 1, c)
  <1>1. ring \in Seq(Int) /\ c \in Nat /\ c <= n /\ Len(ring) \in Nat
    BY DEF RingHolds
  <1>2. PICK cap \in Nat \ {0} : cap = EntryCap
    BY RingAssumption
  <1>3. PICK item \in Int : item = n + 1
    OBVIOUS
  <1>4. r = PushCapped(ring, item, cap)
    BY <1>2, <1>3 DEF FileEntry
  <1>5. /\ r \in Seq(Int) /\ Len(r) \in Nat
        /\ \E s \in {0, 1} : /\ s = (IF Len(ring) >= cap THEN 1 ELSE 0)
                             /\ Len(r) = Len(ring) + 1 - s /\ r[Len(r)] = item
                             /\ \A i \in 1 .. Len(r) - 1 : r[i] = ring[i + s]
    <2>1. PICK S : S = Int
      OBVIOUS
    <2>2. PICK entry \in S : entry = item
      BY <2>1
    <2>3. ring \in Seq(S) /\ r = PushCapped(ring, entry, cap)
      BY <1>1, <1>4, <2>1, <2>2
    <2>4. /\ r \in Seq(S) /\ Len(r) \in Nat
          /\ \E s \in {0, 1} : /\ s = (IF Len(ring) >= cap THEN 1 ELSE 0)
                               /\ Len(r) = Len(ring) + 1 - s /\ r[Len(r)] = entry
                               /\ \A i \in 1 .. Len(r) - 1 : r[i] = ring[i + s]
      BY ONLY <2>3, Pushed
    <2> QED BY ONLY <2>1, <2>2, <2>4, Zenon
  <1>6. PICK s \in {0, 1} :
           /\ s = (IF Len(ring) >= cap THEN 1 ELSE 0)
           /\ Len(r) = Len(ring) + 1 - s /\ r[Len(r)] = item
           /\ \A i \in 1 .. Len(r) - 1 : r[i] = ring[i + s]
    BY <1>5
  <1>7. Len(ring) = IF cap <= n - c THEN cap ELSE n - c
    <2>1. Len(ring) = Min({cap, n - c})
      BY <1>2 DEF RingHolds
    <2>2. cap \in Int /\ n - c \in Int
      BY <1>1
    <2> QED BY <2>1, <2>2, LeastOfTwo
  <1>8. Len(r) = Min({cap, (n + 1) - c})
    <2>1. Len(r) = IF cap <= (n + 1) - c THEN cap ELSE (n + 1) - c
      BY <1>1, <1>6, <1>7
    <2>2. cap \in Int /\ (n + 1) - c \in Int
      BY <1>1
    <2> QED BY <2>1, <2>2, LeastOfTwo
  <1>9. ASSUME NEW i \in 1 .. Len(r) PROVE r[i] = (n + 1) - Len(r) + i
    <2>1. CASE i = Len(r)
      BY <1>3, <1>5, <1>6, <2>1
    <2>2. CASE i # Len(r)
      <3>0. PICK l \in Nat, k \in Nat : l = Len(ring) /\ k = Len(r)
        BY <1>1, <1>5
      <3>1. i \in 1 .. k - 1 /\ i + s \in 1 .. l /\ k = l + 1 - s
        BY <1>6, <2>2, <3>0
      <3>2. r[i] = n - Len(ring) + (i + s)
        BY <1>6, <3>0, <3>1 DEF RingHolds
      <3>3. n - l + (i + s) = (n + 1) - k + i
        BY <3>1
      <3> QED BY ONLY <3>0, <3>2, <3>3, Zenon
    <2> QED BY <2>1, <2>2
  <1> QED BY <1>1, <1>2, <1>5, <1>8, <1>9 DEF RingHolds
LEMMA RingCleared ==
    ASSUME NEW ring, NEW n \in Int, NEW c, RingHolds(ring, n, c), ring # <<>>
    PROVE  Last(ring) = n /\ RingHolds(<<>>, n, n)
  <1>1. ring \in Seq(Int) /\ c \in Nat /\ c <= n /\ Len(ring) \in Nat /\ Len(ring) >= 1
    BY DEF RingHolds
  <1>2. Last(ring) = n
    <2>1. PICK l \in Nat \ {0} : l = Len(ring)
      BY <1>1
    <2>2. \A i \in 1 .. l : ring[i] = n - l + i
      BY <2>1, Zenon DEF RingHolds
    <2>3. l \in 1 .. l /\ n - l + l = n
      BY <2>1
    <2>4. ring[l] = n
      BY ONLY <2>2, <2>3, Zenon
    <2> QED BY ONLY <2>1, <2>4, Zenon DEF Last
  <1>3. Min({EntryCap, n - n}) = 0
    <2>1. EntryCap \in Nat \ {0} /\ n - n = 0
      BY RingAssumption
    <2> QED BY <2>1, LeastOfTwo
  <1> QED BY <1>1, <1>2, <1>3 DEF RingHolds

(* What is filed: the entries that were sent and are not on their way.     *)
LEMMA FiledIs ==
    ASSUME NEW q \in Seq(Messages), NEW sent \in [EntryTopics -> Nat], NEW t \in EntryTopics
    PROVE  LET n == sent[t] - Cardinality({i \in DOMAIN q : q[i].topic = t})
           IN  n = sent[t] - Behind(q, t, 0) /\ n \in Int
  <1>1. After(q, t, 0) = {i \in DOMAIN q : q[i].topic = t}
    BY DEF After
  <1>2. Behind(q, t, 0) \in Nat
    BY BehindIsNatural
  <1>3. sent[t] - Cardinality({i \in DOMAIN q : q[i].topic = t}) = sent[t] - Behind(q, t, 0)
    BY ONLY <1>1, Zenon DEF Behind
  <1>4. sent[t] \in Nat
    OBVIOUS
  <1> QED BY <1>2, <1>3, <1>4

LEMMA RingsFitStays ==
    ASSUME Measured, RingsFit, [Next]_vars
    PROVE  RingsFit'
  <1>1. /\ link \in Seq(Messages) /\ entries \in [EntryTopics -> Nat]
        /\ rings \in [EntryTopics -> Seq(Int)] /\ cleared \in [EntryTopics -> Nat]
        /\ Len(link) \in Nat /\ DOMAIN link = 1 .. Len(link)
    BY DEF Measured, Messages, RingsFit
  <1>2. \A t \in EntryTopics : Filed(t) = entries[t] - Behind(link, t, 0) /\ Filed(t) \in Int
    BY <1>1, FiledIs DEF Filed
  <1>3. ASSUME link' \in Seq(Messages), entries' \in [EntryTopics -> Nat]
        PROVE  \A t \in EntryTopics : Filed(t)' = entries'[t] - Behind(link', t, 0)
    BY <1>3, FiledIs DEF Filed
  <1>4. \A m \in Messages : m.topic = "state" \/ (m.topic \in EntryTopics /\ m.entry \in Int)
    BY DEF Messages, Reports, EntryMessages
  <1>5. \A t \in EntryTopics : t # "state" /\ RingHolds(rings[t], Filed(t), cleared[t])
    BY TopicsAssumption DEF RingsFit
  <1>6. \A t \in EntryTopics : \A i \in 1 .. Len(link) :
           link[i].topic = t => link[i].entry = entries[t] - Behind(link, t, i)
    BY <1>1, <1>5 DEF RingsFit, Numbered
  <1>7. CASE UNCHANGED <<link, rings, entries, cleared>>
    BY <1>7 DEF RingsFit, Numbered, Filed
  <1>8. ASSUME NEW m \in Messages, link' = Append(link, m), m.topic = "state",
               UNCHANGED <<rings, entries, cleared>>
        PROVE  RingsFit'
    <2>1. link' \in Seq(Messages) /\ DOMAIN link' = 1 .. Len(link) + 1 /\ link'[Len(link) + 1] = m
      BY <1>1, <1>8
    <2>2. \A i \in 1 .. Len(link) : link'[i] = link[i]
      BY <1>1, <1>8
    <2>3. \A t \in EntryTopics : \A i \in 0 .. Len(link) : Behind(link', t, i) = Behind(link, t, i)
      <3>1. ASSUME NEW t \in EntryTopics, NEW i \in 0 .. Len(link)
            PROVE  Behind(link', t, i) = Behind(link, t, i)
        <4>1. Behind(link', t, i) = Behind(link, t, i) + (IF m.topic = t THEN 1 ELSE 0)
          <5>1. Behind(Append(link, m), t, i) = Behind(link, t, i) + (IF m.topic = t THEN 1 ELSE 0)
            BY <1>1, BehindAppended
          <5> QED BY ONLY <1>8, <5>1, Zenon
        <4>2. m.topic # t /\ Behind(link, t, i) \in Nat
          BY <1>1, <1>5, <1>8, BehindIsNatural
        <4> QED BY <4>1, <4>2
      <3> QED BY <3>1
    <2>4. \A t \in EntryTopics : Filed(t)' = Filed(t)
      <3>1. 0 \in 0 .. Len(link)
        BY <1>1
      <3> QED BY <1>1, <1>2, <1>3, <1>8, <2>1, <2>3, <3>1
    <2>5. Numbered'
      <3>1. SUFFICES ASSUME NEW i \in DOMAIN link', link'[i].topic # "state"
                     PROVE  link'[i].entry = entries'[link'[i].topic] - Behind(link', link'[i].topic, i)
        BY DEF Numbered
      <3>2. i \in 1 .. Len(link) /\ i \in 0 .. Len(link) /\ link'[i] = link[i] /\ link[i] \in Messages
        BY <1>1, <1>8, <2>1, <2>2, <3>1
      <3>3. PICK t \in EntryTopics : t = link[i].topic
        BY <1>4, <3>1, <3>2
      <3> QED BY <1>6, <1>8, <2>3, <3>2, <3>3
    <2> QED BY <1>1, <1>5, <1>8, <2>4, <2>5 DEF RingsFit
  <1>9. ASSUME NEW t \in EntryTopics, SendEntry(t) PROVE RingsFit'
    <2>1. PICK m : m = [topic |-> t, entry |-> entries[t] + 1]
      OBVIOUS
    <2>2. m.topic = t /\ m.entry = entries[t] + 1 /\ m \in Messages
      BY <1>1, <2>1 DEF Messages, EntryMessages
    <2>3. /\ link' = Append(link, m) /\ entries' = [entries EXCEPT ![t] = @ + 1]
          /\ rings' = rings /\ cleared' = cleared
      BY <1>9, <2>1 DEF SendEntry, Sends, store
    <2>4. link' \in Seq(Messages) /\ DOMAIN link' = 1 .. Len(link) + 1 /\ link'[Len(link) + 1] = m
      BY <1>1, <2>2, <2>3
    <2>5. \A i \in 1 .. Len(link) : link'[i] = link[i]
      BY <1>1, <2>2, <2>3
    <2>6. entries' \in [EntryTopics -> Nat] /\ \A u \in EntryTopics : entries'[u] = entries[u] + (IF u = t THEN 1 ELSE 0)
      <3>1. \A u \in EntryTopics : entries[u] \in Nat
        BY <1>1
      <3>2. entries' \in [EntryTopics -> Nat]
        BY <1>1, <2>3, <3>1
      <3>3. entries'[t] = entries[t] + 1 /\ \A u \in EntryTopics : u # t => entries'[u] = entries[u]
        BY <1>1, <2>3
      <3> QED BY <3>1, <3>2, <3>3
    <2>7. \A u \in EntryTopics : \A i \in 0 .. Len(link) :
             Behind(link', u, i) = Behind(link, u, i) + (IF u = t THEN 1 ELSE 0)
      <3>1. SUFFICES ASSUME NEW u \in EntryTopics, NEW i \in 0 .. Len(link)
                     PROVE  Behind(link', u, i) = Behind(link, u, i) + (IF u = t THEN 1 ELSE 0)
        OBVIOUS
      <3>2. Behind(Append(link, m), u, i) = Behind(link, u, i) + (IF m.topic = u THEN 1 ELSE 0)
        BY <1>1, <2>2, BehindAppended
      <3>3. Behind(link', u, i) = Behind(link, u, i) + (IF m.topic = u THEN 1 ELSE 0)
        BY ONLY <2>3, <3>2, Zenon
      <3>4. CASE u = t
        BY <2>2, <3>3, <3>4
      <3>5. CASE u # t
        BY <2>2, <3>3, <3>5
      <3> QED BY <3>4, <3>5
    <2>8. \A u \in EntryTopics : \A i \in 0 .. Len(link) :
             entries'[u] - Behind(link', u, i) = entries[u] - Behind(link, u, i)
      <3>1. ASSUME NEW u \in EntryTopics, NEW i \in 0 .. Len(link)
            PROVE  entries'[u] - Behind(link', u, i) = entries[u] - Behind(link, u, i)
        <4>1. Behind(link, u, i) \in Nat /\ entries[u] \in Nat
          BY <1>1, BehindIsNatural
        <4>2. CASE u = t
          BY <2>6, <2>7, <4>1, <4>2
        <4>3. CASE u # t
          BY <2>6, <2>7, <4>1, <4>3
        <4> QED BY <4>2, <4>3
      <3> QED BY <3>1
    <2>9. \A u \in EntryTopics : Filed(u)' = Filed(u)
      <3>1. 0 \in 0 .. Len(link)
        BY <1>1
      <3> QED BY <1>2, <1>3, <2>4, <2>6, <2>8, <3>1
    <2>10. Numbered'
      <3>1. SUFFICES ASSUME NEW i \in DOMAIN link', link'[i].topic # "state"
                     PROVE  link'[i].entry = entries'[link'[i].topic] - Behind(link', link'[i].topic, i)
        BY DEF Numbered
      <3>2. CASE i = Len(link) + 1
        <4>1. After(link', t, i) = {}
          BY <1>1, <2>4, <3>2 DEF After
        <4>2. Behind(link', t, i) = 0
          BY <4>1, FS_EmptySet DEF Behind
        <4>3. entries'[t] \in Nat /\ entries'[t] = entries[t] + 1
          BY <2>6
        <4> QED BY <2>2, <2>4, <3>2, <4>2, <4>3
      <3>3. CASE i # Len(link) + 1
        <4>1. i \in 1 .. Len(link) /\ i \in 0 .. Len(link) /\ link'[i] = link[i] /\ link[i] \in Messages
          BY <1>1, <2>4, <2>5, <3>3
        <4>2. PICK u \in EntryTopics : u = link[i].topic
          BY <1>4, <3>1, <4>1
        <4> QED BY <1>6, <2>8, <4>1, <4>2
      <3> QED BY <3>2, <3>3
    <2> QED BY <1>1, <1>5, <2>3, <2>6, <2>9, <2>10 DEF RingsFit
  <1>10. CASE HandleForward
    <2>1. PICK h \in Messages : h = Head(link)
      BY <1>1, <1>10 DEF HandleForward
    <2>2. /\ link # <<>> /\ link' = Tail(link) /\ entries' = entries /\ cleared' = cleared
          /\ \/ h.topic = "state" /\ rings' = rings
             \/ h.topic \in EntryTopics /\ rings' = [rings EXCEPT ![h.topic] = FileEntry(@, h.entry)]
      BY <1>10, <2>1 DEF HandleForward, HandleState, HandleEntry
    <2>3. link' \in Seq(Messages) /\ DOMAIN link' = 1 .. Len(link) - 1 /\ 1 \in 1 .. Len(link) /\ h = link[1]
      BY <1>1, <2>1, <2>2
    <2>4. \A i \in 1 .. Len(link) - 1 : link'[i] = link[i + 1] /\ i + 1 \in 1 .. Len(link)
      BY <1>1, <2>2
    <2>5. \A u \in EntryTopics : \A i \in Nat : Behind(link', u, i) = Behind(link, u, i + 1)
      <3>1. SUFFICES ASSUME NEW u \in EntryTopics, NEW i \in Nat
                     PROVE  Behind(link', u, i) = Behind(link, u, i + 1)
        OBVIOUS
      <3>2. Behind(Tail(link), u, i) = Behind(link, u, i + 1)
        BY <1>1, <2>2, BehindTail
      <3> QED BY ONLY <2>2, <3>2, Zenon
    <2>6. \A u \in EntryTopics : Filed(u)' = Filed(u) + (IF h.topic = u THEN 1 ELSE 0)
      <3>1. SUFFICES ASSUME NEW u \in EntryTopics
                     PROVE  Filed(u)' = Filed(u) + (IF h.topic = u THEN 1 ELSE 0)
        OBVIOUS
      <3>2. Filed(u)' = entries[u] - Behind(link', u, 0) /\ Behind(link', u, 0) = Behind(link, u, 1)
        <4>1. 0 \in Nat /\ 0 + 1 = 1
          OBVIOUS
        <4>2. Behind(link', u, 0) = Behind(link, u, 0 + 1)
          BY <2>5, <4>1
        <4> QED BY <1>1, <1>3, <2>2, <2>3, <4>1, <4>2
      <3>3. Behind(link, u, 0) = Behind(link, u, 1) + (IF h.topic = u THEN 1 ELSE 0)
        BY <1>1, <2>1, <2>2, BehindFirst
      <3>4. Behind(link, u, 1) \in Nat /\ entries[u] \in Nat
        BY <1>1, BehindIsNatural
      <3> QED BY <1>2, <3>2, <3>3, <3>4
    <2>7. Numbered'
      <3>1. SUFFICES ASSUME NEW i \in DOMAIN link', link'[i].topic # "state"
                     PROVE  link'[i].entry = entries'[link'[i].topic] - Behind(link', link'[i].topic, i)
        BY DEF Numbered
      <3>2. i \in Nat /\ link'[i] = link[i + 1] /\ i + 1 \in 1 .. Len(link) /\ link[i + 1] \in Messages
        BY <1>1, <2>3, <2>4
      <3>3. PICK u \in EntryTopics : u = link[i + 1].topic
        BY <1>4, <3>1, <3>2
      <3>4. link[i + 1].entry = entries[u] - Behind(link, u, i + 1)
        BY <1>6, <3>2, <3>3
      <3> QED BY <2>2, <2>5, <3>2, <3>3, <3>4
    <2>8. CASE h.topic = "state" /\ rings' = rings
      <3>1. \A u \in EntryTopics : Filed(u)' = Filed(u)
        BY <1>2, <1>5, <2>6, <2>8
      <3> QED BY <1>1, <1>5, <2>2, <2>7, <2>8, <3>1 DEF RingsFit
    <2>9. CASE h.topic \in EntryTopics /\ rings' = [rings EXCEPT ![h.topic] = FileEntry(@, h.entry)]
      <3>1. PICK t \in EntryTopics : t = h.topic
        BY <2>9
      <3>2. PICK n \in Int : n = Filed(t)
        BY <1>2
      <3>3. Filed(t)' = n + 1 /\ \A u \in EntryTopics : u # t => Filed(u)' = Filed(u)
        BY <1>2, <2>6, <3>1, <3>2
      <3>4. h.entry = n + 1
        <4>1. h.entry = entries[t] - Behind(link, t, 1)
          BY <1>6, <2>3, <3>1
        <4>2. Behind(link, t, 0) = Behind(link, t, 1) + 1
          BY <1>1, <2>1, <2>2, <3>1, BehindFirst
        <4>3. Behind(link, t, 1) \in Nat /\ entries[t] \in Nat
          BY <1>1, BehindIsNatural
        <4> QED BY <1>2, <3>2, <4>1, <4>2, <4>3
      <3>5. PICK r : r = FileEntry(rings[t], n + 1)
        OBVIOUS
      <3>6. RingHolds(r, n + 1, cleared[t])
        BY <1>5, <3>2, <3>5, EntryFiled
      <3>7. rings' = [rings EXCEPT ![t] = r]
        BY <2>9, <3>1, <3>4, <3>5
      <3>8. rings' \in [EntryTopics -> Seq(Int)]
        BY <1>1, <3>6, <3>7 DEF RingHolds
      <3>9. \A u \in EntryTopics : RingHolds(rings'[u], Filed(u)', cleared[u])
        BY <1>1, <1>5, <3>3, <3>6, <3>7
      <3> QED BY <1>1, <2>2, <2>7, <3>8, <3>9 DEF RingsFit
    <2> QED BY <2>2, <2>8, <2>9
  <1>11. ASSUME NEW t \in EntryTopics, ClearRing(t) PROVE RingsFit'
    <2>1. /\ rings[t] # <<>> /\ rings' = [rings EXCEPT ![t] = <<>>]
          /\ cleared' = [cleared EXCEPT ![t] = Last(rings[t])] /\ link' = link /\ entries' = entries
      BY <1>11 DEF ClearRing
    <2>2. PICK n \in Int : n = Filed(t)
      BY <1>2
    <2>3. Last(rings[t]) = n /\ RingHolds(<<>>, n, n)
      BY <1>5, <2>1, <2>2, RingCleared
    <2>4. n \in Nat
      BY <2>3 DEF RingHolds
    <2>5. \A u \in EntryTopics : Filed(u)' = Filed(u)
      BY <2>1 DEF Filed
    <2>6. Numbered'
      BY <2>1 DEF Numbered, RingsFit
    <2>7. rings' \in [EntryTopics -> Seq(Int)] /\ cleared' \in [EntryTopics -> Nat]
      BY <1>1, <2>1, <2>3, <2>4
    <2>8. \A u \in EntryTopics : RingHolds(rings'[u], Filed(u)', cleared'[u])
      BY <1>1, <1>5, <2>1, <2>2, <2>3, <2>5
    <2> QED BY <1>1, <2>1, <2>6, <2>7, <2>8 DEF RingsFit
  <1>12. CASE ReportState
    <2>1. link' = Append(link, Document) /\ UNCHANGED <<rings, entries, cleared>>
      BY <1>12 DEF ReportState, Sends, store
    <2>2. Document \in Messages /\ Document.topic = "state"
      BY DEF Measured, Document, Reports, Spas, Messages
    <2> QED BY <1>8, <2>1, <2>2
  <1>13. (\E t \in EntryTopics : SendEntry(t)) \/ (\E t \in EntryTopics : ClearRing(t)) \/ HandleForward
         \/ ReportState \/ UNCHANGED <<link, rings, entries, cleared>>
    BY WhatChanges
  <1> QED BY <1>7, <1>9, <1>10, <1>11, <1>12, <1>13

(* What the page is shown of a ring. *)
Newest(n, kept) == [i \in 1 .. kept |-> n - i + 1]
LEMMA NewestShown ==
    ASSUME NEW ring, NEW n \in Int, NEW c, RingHolds(ring, n, c), NEW limit \in Nat
    PROVE  RecentEntries(ring, limit) = Newest(n, Min({limit, EntryCap, n - c}))
  <1>1. ring \in Seq(Int) /\ c \in Nat /\ c <= n
    BY DEF RingHolds
  <1>2. PICK l \in Nat : l = Len(ring)
    BY <1>1
  <1>3. \A i \in 1 .. l : ring[i] = n - l + i
    BY <1>2, Zenon DEF RingHolds
  <1>4. PICK kept \in Nat : kept = IF limit <= l THEN limit ELSE l
    OBVIOUS
  <1>5. Min({limit, EntryCap, n - c}) = kept
    <2>1. EntryCap \in Int /\ n - c \in Int /\ limit \in Int
      BY <1>1, RingAssumption
    <2>2. l = Min({EntryCap, n - c})
      BY <1>2 DEF RingHolds
    <2>3. Min({limit, EntryCap, n - c}) = Min({limit, l})
      BY <2>1, <2>2, LeastOfThree
    <2> QED BY <1>4, <2>3, LeastOfTwo
  <1>6. PICK first \in Nat : first = (IF l > limit THEN l - limit + 1 ELSE 1) /\ first = l - kept + 1
    <2>1. l - kept + 1 \in Nat /\ l - kept + 1 = IF l > limit THEN l - limit + 1 ELSE 1
      BY <1>4
    <2> QED BY <2>1
  <1>7. PICK s : s = SubSeq(ring, first, l)
    OBVIOUS
  <1>8. Len(s) = kept /\ \A i \in 1 .. kept : s[i] = ring[first + i - 1]
    <2>1. first \in Int /\ l \in Int /\ \A i \in first .. l : ring[i] \in Int
      <3>1. ASSUME NEW i \in first .. l PROVE ring[i] \in Int
        <4>1. i \in 1 .. l
          BY <1>4, <1>6
        <4> QED BY <1>3, <4>1
      <3> QED BY <3>1
    <2>2. /\ Len(s) = IF first <= l THEN l - first + 1 ELSE 0
          /\ \A i \in 1 .. l - first + 1 : s[i] = ring[first + i - 1]
      BY ONLY <1>7, <2>1, SubSeqProperties
    <2>3. l - first + 1 = kept /\ (IF first <= l THEN l - first + 1 ELSE 0) = kept
      BY <1>4, <1>6
    <2> QED BY ONLY <2>2, <2>3, Zenon
  <1>9. RecentEntries(ring, limit) = [i \in 1 .. kept |-> s[(kept - i) + 1]]
    BY <1>2, <1>6, <1>7, <1>8 DEF RecentEntries, Reverse
  <1>10. ASSUME NEW i \in 1 .. kept PROVE s[(kept - i) + 1] = n - i + 1
    <2>1. (kept - i) + 1 \in 1 .. kept /\ first + ((kept - i) + 1) - 1 = l - i + 1 /\ l - i + 1 \in 1 .. l
      BY <1>4, <1>6
    <2>2. s[(kept - i) + 1] = ring[l - i + 1]
      BY <1>8, <2>1
    <2>3. ring[l - i + 1] = n - l + (l - i + 1)
      BY <1>3, <2>1
    <2> QED BY <2>2, <2>3
  <1>11. RecentEntries(ring, limit) = [i \in 1 .. kept |-> n - i + 1]
    BY <1>9, <1>10
  <1> QED BY ONLY <1>5, <1>11, Zenon DEF Newest
LEMMA PageServed == Measured /\ RingsFit => PageShowsNewest
  <1> SUFFICES ASSUME Measured, RingsFit, NEW t \in EntryTopics, NEW limit \in Limits
               PROVE  LET shown == PageEntries(t, limit)
                          kept == Min({limit, EntryCap, Filed(t) - cleared[t]})
                      IN  shown = [i \in 1 .. kept |-> Filed(t) - i + 1]
    BY DEF PageShowsNewest
  <1>1. PICK n : n = Filed(t)
    OBVIOUS
  <1>2. RingHolds(rings[t], n, cleared[t])
    BY <1>1 DEF RingsFit
  <1>3. limit \in Nat
    BY RingAssumption
  <1>4. n \in Int
    BY <1>1, FiledIs DEF Measured, Messages, RingsFit, Filed
  <1>5. RecentEntries(rings[t], limit) = Newest(n, Min({limit, EntryCap, n - cleared[t]}))
    BY <1>2, <1>3, <1>4, NewestShown
  <1> QED BY ONLY <1>1, <1>5, Zenon DEF PageEntries, Newest

-----------------------------------------------------------------------------
(* The target that is answered.                                            *)

LEMMA CelsiusSettles ==
    ASSUME NEW v \in Int, NEW u \in Int, u = 1000 * ((v + 500) \div 1000)
    PROVE  ((u + 50) \div 100) * 100 - v \in -550 .. 550
  <1>1. PICK r \in Int : r = (v + 500) \div 1000
    OBVIOUS
  <1>2. 1000 * r <= v + 500 /\ v + 500 < 1000 * r + 1000
    BY <1>1
  <1>3. PICK k \in Int : k = (u + 50) \div 100
    OBVIOUS
  <1>4. 100 * k <= u + 50 /\ u + 50 < 100 * k + 100
    BY <1>3
  <1>5. u = 1000 * r
    BY <1>1
  <1>6. k * 100 - v \in -550 .. 550
    BY ONLY <1>2, <1>4, <1>5
  <1> QED BY <1>3, <1>6
LEMMA FahrenheitSettles ==
    ASSUME NEW v \in Int, NEW f \in Int, f = (v * 9) \div 5 + 32000,
           NEW u \in Int, u = 1000 * ((f + 500) \div 1000),
           NEW c \in Int, c = ((u - 32000) * 5) \div 9
    PROVE  ((c + 50) \div 100) * 100 - v \in -550 .. 550
  <1>1. PICK g \in Int : g = (v * 9) \div 5
    OBVIOUS
  <1>2. 5 * g <= v * 9 /\ v * 9 < 5 * g + 5 /\ f = g + 32000
    BY <1>1
  <1>3. PICK r \in Int : r = (f + 500) \div 1000
    OBVIOUS
  <1>4. 1000 * r <= f + 500 /\ f + 500 < 1000 * r + 1000 /\ u = 1000 * r
    BY <1>3
  <1>5. 9 * c <= (u - 32000) * 5 /\ (u - 32000) * 5 < 9 * c + 9
    OBVIOUS
  <1>6. PICK k \in Int : k = (c + 50) \div 100
    OBVIOUS
  <1>7. 100 * k <= c + 50 /\ c + 50 < 100 * k + 100
    BY <1>6
  <1>8. k * 100 - v \in -550 .. 550
    BY ONLY <1>2, <1>4, <1>5, <1>7
  <1> QED BY <1>6, <1>8
LEMMA TargetSettles == Measured /\ SampleFits /\ AskedFits => SetpointSettles
  <1> SUFFICES ASSUME Measured, SampleFits, AskedFits, asked # NoSetpoint, channel = <<>>,
                      toDevice = <<>>, reported # NothingYet, reported.set = spa.set
               PROVE  ShowsAsked
    BY DEF SetpointSettles
  <1>1. PICK v \in Int : v = asked
    BY DEF AskedFits
  <1>2. PICK u : u = spa.set
    OBVIOUS
  <1>3. u \in Int /\ u = SetpointPayload(v).v /\ u >= 0
    <2>1. u \in Int
      BY <1>2 DEF Measured, Spas
    <2>2. NoneSets(channel) /\ NoneSets(toDevice)
      BY DEF NoneSets
    <2>3. spa.set = SetpointPayload(asked).v /\ spa.set >= 0
      BY <2>2 DEF AskedFits, OnItsWay
    <2> QED BY <1>1, <1>2, <2>1, <2>3
  <1>4. samples # <<>> /\ Last(samples).set = u
    BY <1>2 DEF SampleFits
  <1>5. /\ QueryThermostat.status = "SUCCESS"
        /\ QueryThermostat.setpoint = Tenths(InCelsius(u))
    BY <1>4 DEF QueryThermostat
  <1>6. u # UnknownTemp
    BY <1>3 DEF UnknownTemp
  <1>7. Unit = 1000 /\ Unit \div 2 = 500 /\ Unit \div 20 = 50 /\ Unit \div 10 = 100 /\ 32 * Unit = 32000
    BY DEF Unit
  <1>8. PICK k \in Int : k = Tenths(InCelsius(u)) /\ k * 100 - v \in -550 .. 550
    <2>1. CASE spa.scale = "Celsius"
      <3>1. u = 1000 * ((v + 500) \div 1000)
        BY <1>3, <1>7, <2>1 DEF SetpointPayload, Number, RoundDegree
      <3>2. InCelsius(u) = u
        BY <1>6, <2>1 DEF InCelsius
      <3>3. Tenths(InCelsius(u)) = (u + 50) \div 100
        BY <1>7, <3>2 DEF Tenths
      <3>4. (u + 50) \div 100 \in Int
        BY <1>3
      <3>5. ((u + 50) \div 100) * 100 - v \in -550 .. 550
        BY <1>3, <3>1, CelsiusSettles
      <3>6. PICK k \in Int : k = (u + 50) \div 100
        BY <3>4
      <3>7. k = Tenths(InCelsius(u)) /\ k * 100 - v \in -550 .. 550
        BY ONLY <3>3, <3>5, <3>6, Zenon
      <3> QED BY <3>7
    <2>2. CASE spa.scale # "Celsius"
      <3>1. PICK f \in Int : f = (v * 9) \div 5 + 32000
        OBVIOUS
      <3>2. u = 1000 * ((f + 500) \div 1000)
        BY <1>3, <1>7, <2>2, <3>1 DEF SetpointPayload, Number, RoundDegree
      <3>3. PICK c \in Int : c = ((u - 32000) * 5) \div 9
        BY <1>3
      <3>4. InCelsius(u) = c
        BY <1>6, <1>7, <2>2, <3>3 DEF InCelsius
      <3>5. Tenths(InCelsius(u)) = (c + 50) \div 100
        BY <1>7, <3>4 DEF Tenths
      <3>6. (c + 50) \div 100 \in Int
        OBVIOUS
      <3>7. ((c + 50) \div 100) * 100 - v \in -550 .. 550
        BY <1>3, <3>1, <3>2, <3>3, FahrenheitSettles
      <3>8. PICK k \in Int : k = (c + 50) \div 100
        BY <3>6
      <3>9. k = Tenths(InCelsius(u)) /\ k * 100 - v \in -550 .. 550
        BY ONLY <3>5, <3>7, <3>8, Zenon
      <3> QED BY <3>9
    <2> QED BY <2>1, <2>2
  <1>9. Close(k, v)
    <2>1. -(Unit \div 2) - 50 = -550 /\ Unit \div 2 + 50 = 550
      BY <1>7
    <2> QED BY <1>7, <1>8, <2>1 DEF Close
  <1> QED BY <1>1, <1>5, <1>8, <1>9 DEF ShowsAsked

-----------------------------------------------------------------------------
(* The invariant, and what follows from it.                                *)

LEMMA HomeStarts == Init => HomeFits
  <1> SUFFICES ASSUME Init PROVE HomeFits
    OBVIOUS
  <1> USE DEF Init
  <1>1. Measured
    BY SpaAssumption DEF Measured, Spas, HalfDegree, Unit
  <1>2. SampleFits
    BY DEF SampleFits
  <1>3. EventsFit
    BY DEF EventsFit
  <1>4. RingsFit
    <2>1. \A t \in EntryTopics : Filed(t) = 0
      <3>1. ASSUME NEW t \in EntryTopics PROVE Filed(t) = 0
        <4>1. {i \in DOMAIN link : link[i].topic = t} = {}
          OBVIOUS
        <4> QED BY <4>1, FS_EmptySet DEF Filed
      <3> QED BY <3>1
    <2>2. Min({EntryCap, 0}) = 0
      BY RingAssumption, LeastOfTwo
    <2>3. RingHolds(<<>>, 0, 0)
      BY <2>2 DEF RingHolds
    <2>4. Numbered
      BY DEF Numbered
    <2> QED BY <2>1, <2>3, <2>4 DEF RingsFit
  <1>5. ConfigFits
    BY DEF ConfigFits
  <1>6. CommandsFit
    BY DEF CommandsFit
  <1>7. AskedFits
    BY DEF AskedFits, NoSetpoint
  <1> QED BY <1>1, <1>2, <1>3, <1>4, <1>5, <1>6, <1>7 DEF HomeFits
LEMMA HomeStays == HomeFits /\ [Next]_vars => HomeFits'
  <1> SUFFICES ASSUME HomeFits, [Next]_vars PROVE HomeFits'
    OBVIOUS
  <1> USE DEF HomeFits
  <1>1. spa \in Spas /\ entries \in [EntryTopics -> Nat]
    BY DEF Measured, RingsFit
  <1>2. Measured'
    BY <1>1, MeasuredStays
  <1>3. SampleFits' /\ EventsFit'
    BY SampleFitsStays, EventsFitStays
  <1>4. RingsFit'
    BY RingsFitStays
  <1>5. ConfigFits' /\ CommandsFit'
    BY <1>1, ConfigFitsStays, CommandsFitStays
  <1>6. AskedFits'
    BY AskedFitsStays
  <1> QED BY <1>2, <1>3, <1>4, <1>5, <1>6

(* The state of the bridge, of its store and of the messages between the   *)
(* spa and Google is sound in every state: the inductive invariant.        *)
THEOREM HomeIsFit == Spec => []HomeFits
  <1>1. Spec => Init /\ [][Next]_vars
    BY PTL DEF Spec
  <1> QED BY <1>1, HomeStarts, HomeStays, PTL

(* Google and the page are served from what the device reported, whatever  *)
(* the rings push out, and a target that arrived is answered to half a     *)
(* degree (query_handler, sync_response, recent, execute_command).         *)
THEOREM HomeIsServed == Spec => []HomeInv
  <1>1. HomeFits => HomeInv
    BY AnsweredRightly, ThermostatAnswered, PageServed, OffersUnderstood, TargetSettles
       DEF HomeFits, HomeInv
  <1> QED BY <1>1, HomeIsFit, PTL

(* A component Google is answered wrongly about is answered rightly after  *)
(* the next report (insert_component_changes, query_handler).              *)
THEOREM MissedEventsAreMended == Spec => MissedEventIsMended
  <1>1. HomeFits /\ [Next]_vars =>
          [HandleForward /\ reported' # reported => \A c \in Components : Wrong(c) => ~Wrong(c)']_vars
    BY Mended DEF HomeFits
  <1>2. Spec => [][Next]_vars
    BY PTL DEF Spec
  <1> QED BY <1>1, <1>2, HomeIsFit, PTL DEF MissedEventIsMended

(* A command of Google toggles no component but the one it names           *)
(* (execute_command, parse_command, query_handler).                        *)
THEOREM CommandsToggleTheirOwn == Spec => TogglesItsOwn
  <1>1. ASSUME HomeFits, DeviceTakes, NEW c \in Components, spa'.on[c] # spa.on[c]
        PROVE  IsSwitch(Head(toDevice).id) /\ QueryComponent(Head(toDevice).id) = c
    <2>1. PICK x : x = Head(toDevice)
      OBVIOUS
    <2>2. spa \in Spas /\ CommandsFit
      BY <1>1 DEF HomeFits, Measured
    <2>3. \/ spa' = spa \/ spa' = [spa EXCEPT !.set = x.payload.v]
          \/ IsSwitch(x.id) /\ x.id \in Components /\ spa' = [spa EXCEPT !.on[x.id] = ~@]
      BY <1>1, <2>1, <2>2, TakesFits
    <2>4. spa' # spa /\ spa' # [spa EXCEPT !.set = x.payload.v]
      BY <1>1, <2>2 DEF Spas
    <2>5. spa'.on = [spa.on EXCEPT ![x.id] = ~@]
      BY <2>2, <2>3, <2>4 DEF Spas
    <2>6. c = x.id
      BY <1>1, <2>2, <2>5 DEF Spas
    <2> QED BY <2>1, <2>3, <2>4, <2>6 DEF QueryComponent
  <1>2. HomeFits /\ [Next]_vars =>
          [DeviceTakes => \A c \in Components :
              spa'.on[c] # spa.on[c] =>
                  IsSwitch(Head(toDevice).id) /\ QueryComponent(Head(toDevice).id) = c]_vars
    BY <1>1
  <1>3. Spec => [][Next]_vars
    BY PTL DEF Spec
  <1> QED BY <1>2, <1>3, HomeIsFit, PTL DEF TogglesItsOwn
=============================================================================
