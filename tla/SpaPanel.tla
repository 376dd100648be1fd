------------------------------ MODULE SpaPanel ------------------------------
(***************************************************************************)
(* The spa as its owner sees it: the water and the clock, the status frame *)
(* they are sent in, the last status of mqtt_task, the document it         *)
(* publishes, the entities Home Assistant was told of, and the commands    *)
(* they send back through the pipe to the spa.                             *)
(*                                                                         *)
(* The pipe stands for the command channel, the queue of SpaApp and the    *)
(* bus, which have modules of their own; here it keeps the order and       *)
(* delays.                                                                 *)
(***************************************************************************)
EXTENDS Vocabulary, SequencesExt

CONSTANTS
    MinutesPerHour, HoursPerDay,    \* 60 and 24
    InitialSpas,                    \* states the spa may start in
    Topics, PanelTemps, WebTexts,   \* what the owner uses and types
    PipeBound, MaxOps,
    Patience,                       \* inputs come, and wait, in the first seconds only
    Codes                           \* fault codes

ASSUME PanelAssumption ==
    /\ MinutesPerHour \in Nat \ {0} /\ HoursPerDay \in Nat \ {0}
    /\ PipeBound \in Nat /\ MaxOps \in Nat /\ Patience \in Nat

(* The spa starts as SpaState::default makes it, in either scale, with     *)
(* targets that its two ranges allow and its status byte can say.          *)
WireTargets(scale) ==
    {t \in {FromWire(byte, scale) : byte \in 0 .. 255} :
        t.value \in LowestOf(scale, "Low") * Unit .. HighestOf(scale, "High") * Unit}
ASSUME SpasAssumption ==
    \A s \in InitialSpas :
        /\ s.temp \in Int /\ s.scale \in Scales
        /\ {s.setHigh, s.setLow} \subseteq WireTargets(s.scale)
        /\ s = DefaultSpa(s.temp, s.setHigh, s.setLow, s.scale)

VARIABLES
    spa,        \* SpaState
    x,          \* clock, fault, priming and reporting of the spa
    last,       \* mqtt_task: the last status (last_scale_range)
    shown,      \* mqtt_task: last_published_status, without its clock
    unit,       \* is_celsius of the retained discovery
    pipe,       \* commands on their way to the spa
    heard,      \* the input of the last step and what the device made of it
    answer,     \* the answer to the data request of the last step
    ops,        \* inputs so far
    age         \* seconds so far, up to Patience
vars == <<spa, x, last, shown, unit, pipe, heard, answer, ops, age>>

NoInput == [from |-> "nobody"]
Init ==
    /\ spa \in InitialSpas
    /\ x = [hour |-> 0, minute |-> 0, fault |-> NoFault, priming |-> 0,
            unknown |-> FALSE, mister |-> FALSE]
    /\ last = NothingYet /\ shown = NothingYet /\ unit = FALSE
    /\ pipe = <<>> /\ heard = NoInput /\ answer = NothingYet
    /\ ops = 0 /\ age = 0

(* Nothing is heard and nothing is answered in the step. *)
Quiet == heard' = NoInput /\ answer' = NothingYet
Counted ==
    /\ ops < MaxOps /\ age < Patience
    /\ ops' = ops + 1 /\ age' = age

-----------------------------------------------------------------------------
(* One second: the water and the clock move, the status goes out, and only *)
(* then do the fault and priming count down.                               *)
NextMinute(c) ==
    IF c.minute + 1 < MinutesPerHour THEN [c EXCEPT !.minute = @ + 1]
    ELSE [c EXCEPT !.minute = 0, !.hour = (@ + 1) % HoursPerDay]
CountDown(c) ==
    [c EXCEPT !.fault = FaultTick(@), !.priming = IF @ > 0 THEN @ - 1 ELSE 0]
WithoutClock(status) == [status EXCEPT !.hour = 0, !.minute = 0]
StateArrives(status) ==
    /\ last' = status
    /\ shown' = IF StatusChanged(shown, status) THEN WithoutClock(status) ELSE shown
Tick ==
    /\ age < Patience \/ pipe = <<>>
    /\ \E water \in {SimulatePhysics(spa)}, timed \in {NextMinute(x)} :
       \E sent \in {GenerateStatus(water, timed)} :
        /\ spa' = water /\ x' = CountDown(timed)
        /\ StateArrives(HandleStatus(sent))
        /\ age' = Smaller(age + 1, Patience)
        /\ Quiet /\ UNCHANGED <<unit, pipe, ops>>

-----------------------------------------------------------------------------
(* Inputs.                                                                 *)

Receive(from, sub, p) ==
    LET r == ClientAccepts(sub, p, last)
    IN  /\ heard' = [from |-> from, got |-> r,
                     want |-> IF p.is = "number" THEN p.v ELSE None]
        /\ pipe' = IF r.result = "Valid" THEN Append(pipe, r.cmd) ELSE pipe
        /\ answer' = NothingYet
        /\ UNCHANGED <<spa, x, last, shown, unit>>

UserOperates(e, p) ==
    /\ Counted /\ Len(pipe) < PipeBound
    /\ e.writes \in Topics
    /\ e.writes = <<"set_temperature">> => p \in PanelTemps
    /\ Receive("entity", e.writes, p)
WebPublishes(t) ==
    /\ Counted /\ Len(pipe) < PipeBound
    /\ Receive("web", t.sub, t.text)

SpaExecutes ==
    /\ pipe # <<>>
    /\ spa' = SpaTakes(spa, EncodeCommand(Head(pipe)))
    /\ pipe' = Tail(pipe)
    /\ Quiet /\ UNCHANGED <<x, last, shown, unit, ops, age>>

(* The data requests of the device and the simulator's answers: the        *)
(* settings requests by their second byte, everything else ignored.        *)
Filter1 == [hour |-> 8, minute |-> 0, hours |-> 4, minutes |-> 0, enabled |-> TRUE]
Filter2 == [hour |-> 16, minute |-> 0, hours |-> 2, minutes |-> 0, enabled |-> TRUE]
Information ==
    [software |-> <<100, 220, 17, 0>>, model |-> <<66, 70, 66, 80, 50, 48, 32, 32>>, setup |-> 1,
     signature |-> <<61, 18, 56, 46>>, voltage |-> 1, heater |-> 10, dip |-> <<4, 0>>]
Configuration == <<2, 2, 0, 0, 0, 10, 0, 1, 129, 0>>
GenerateAnswer(bytes) ==
    CASE bytes[1] = 4 -> GenerateConfig(Configuration, spa.scale)
      [] bytes[1] = 34 /\ bytes[2] = 1 -> GenerateFilterCycles(Filter1, Filter2)
      [] bytes[1] = 34 /\ bytes[2] = 2 -> GenerateInformation(Information)
      [] bytes[1] = 34 /\ bytes[2] = 32 ->
            GenerateFaultLog(FaultLogConfig(x.fault.code), <<>>, 1)
      [] OTHER -> <<>>
Requests ==
    {[kind |-> "FaultLogRequest", entry |-> 255], [kind |-> "FilterCyclesRequest"],
     [kind |-> "InformationRequest"], [kind |-> "ConfigurationRequest"]}
DeviceAsks(c) ==
    /\ Counted
    /\ answer' = Dispatch0abf(GenerateAnswer(EncodeCommand(c)))
    /\ heard' = NoInput
    /\ UNCHANGED <<spa, x, last, shown, unit, pipe>>

-----------------------------------------------------------------------------
(* What the tests of the simulator do to it, and the device's connections. *)

Disturb(water, other) ==
    /\ Counted /\ spa' = water /\ x' = other
    /\ Quiet /\ UNCHANGED <<last, shown, unit, pipe>>
SpaFaults ==
    \E code \in Codes :
        \/ Disturb(spa, [x EXCEPT !.fault = FaultState(@, code)])
        \/ Disturb(spa, [x EXCEPT !.fault = TransientFault(@, code, 1)])
        \/ Disturb(spa, [x EXCEPT !.fault = ClearFault(@)])
SpaPrimes == \E ticks \in {0, 2} : Disturb(spa, [x EXCEPT !.priming = ticks])
SensorLost == Disturb(spa, [x EXCEPT !.unknown = ~@])
(* The water then cools for minutes: a bound, it is the last input. *)
CircStops ==
    /\ ops < MaxOps /\ age < Patience /\ ops' = MaxOps
    /\ spa' = [spa EXCEPT !.circ = FALSE]
    /\ Quiet /\ UNCHANGED <<x, last, shown, unit, pipe, age>>
PanelButtons ==
    \E mister \in BOOLEAN : Disturb(spa, [x EXCEPT !.mister = mister])

(* publish_discovery: is_celsius is FALSE before the first status. *)
Discovery ==
    /\ unit' = (last # NothingYet /\ last.scale = "Celsius")
    /\ Quiet /\ UNCHANGED <<spa, x, last, shown, pipe>>
HaRestarts == Counted /\ Discovery

Next ==
    \/ Tick
    \/ \E e \in Entities[unit] : \E p \in e.sends : UserOperates(e, p)
    \/ \E t \in WebTexts : WebPublishes(t)
    \/ SpaExecutes
    \/ \E c \in Requests : DeviceAsks(c)
    \/ SpaFaults \/ SpaPrimes \/ SensorLost \/ CircStops \/ PanelButtons
    \/ HaRestarts

(* The spa sends a status every second, and takes the commands sent to it. *)
Spec == Init /\ [][Next]_vars /\ WF_vars(Tick) /\ WF_vars(SpaExecutes)

-----------------------------------------------------------------------------
TypeOK ==
    /\ spa.items \in [TrackedItems -> ItemStates] /\ spa.temp \in Int
    /\ x.hour \in 0 .. HoursPerDay - 1 /\ x.minute \in 0 .. MinutesPerHour - 1
    /\ unit \in BOOLEAN /\ ops \in 0 .. MaxOps /\ age \in 0 .. Patience
    /\ Len(pipe) <= PipeBound

(* The status the device decodes is the spa's: every item at its own place *)
(* in the packed bytes, the target exactly, and the temperature to half a  *)
(* step of its byte; too cold or too hot for that byte, it is unknown.     *)
(* Priming is hidden by a fault, as in the init byte.                      *)
StepOf(scale) == IF scale = "Celsius" THEN Unit \div 2 ELSE Unit
HalfStep(scale) == StepOf(scale) \div 2
Tellable(scale) == -HalfStep(scale) .. 255 * StepOf(scale) - HalfStep(scale) - 1
Agrees(status, s, c) ==
    /\ \A i \in 1 .. 6 : status.pumps[i] = s.items[i]
    /\ \A i \in 1 .. 4 : status.lights[i] = (s.items[7 + i] = 1)
    /\ status.blower = (s.items[Blower] = 1) /\ status.hold = (s.items[HoldMode] = 1)
    /\ <<status.mode, status.range, status.scale, status.heating, status.circ, status.set>>
         = <<s.mode, s.range, s.scale, s.heating, s.circ, s.set>>
    /\ <<status.hour, status.minute, status.mister>> = <<c.hour, c.minute, c.mister>>
    /\ status.priming = (c.priming > 0 /\ ~c.fault.active)
    /\ LET temp == Convert(Temperature(s.temp, "Fahrenheit"), s.scale).value
       IN  IF c.unknown \/ temp \notin Tellable(s.scale) THEN status.temp = None
           ELSE status.temp - temp \in -HalfStep(s.scale) .. HalfStep(s.scale)
StatusIsTruthful == [][Tick => Agrees(last', spa', NextMinute(x))]_vars

(* A skipped publication costs the owner nothing but the clock: every      *)
(* field an announced entity shows has the value of the last status.       *)
ShownFields ==
    (UNION {e.shows : e \in Entities[TRUE]}) \ (DeviceFields \cup {"hour", "minute"})
ShownIsCurrent ==
    shown # NothingYet =>
        LET then == StateDocument(shown)
            now == StateDocument(last)
        IN  \A f \in ShownFields : then[f] = now[f]

(* The target the owner picked is the one the spa is sent, to the half     *)
(* degree, through a check that is made in whole degrees.                  *)
IsTarget(r) == r.result = "Valid" /\ r.cmd.kind = "SetTemperature"
TargetSentExactly ==
    heard.from = "entity" /\ IsTarget(heard.got) =>
        FromWire(heard.got.cmd.temp, spa.scale).value = heard.want

(* Whatever is typed, and whichever range the spa is in when the command   *)
(* reaches it, no target leaves the span of the two ranges by more than    *)
(* the half degree that the rounding of the check lets through.            *)
TargetWithinSpan ==
    spa.set.value \in LowestOf(spa.scale, "Low") * Unit - Unit \div 2
                        .. HighestOf(spa.scale, "High") * Unit + Unit \div 2

(* The active target is the one saved for the active range, so a change of *)
(* range and back restores it.                                             *)
RangeKeepsTarget == spa.set = IF spa.range = "High" THEN spa.setHigh ELSE spa.setLow

(* Every accepted command can be encoded for the spa: none is taken from   *)
(* the owner and then lost in Command::encode.                             *)
ForTheSpa(c) == c.kind \notin {"Sniff", "Reboot"}
AcceptedIsSendable == \A i \in DOMAIN pipe : ForTheSpa(pipe[i]) => EncodeCommand(pipe[i]) # <<>>

(* No text that an announced entity sends is unknown to the device: the    *)
(* topics and payloads of the discovery are those of the parser.  (A       *)
(* temperature may be refused for the range the spa is in.)                *)
EntitiesUnderstood ==
    heard.from = "entity" => heard.got.result \notin {"UnknownSubtopic", "InvalidPayload"}

(* The answers the device decodes are the spa's: the fault log names the   *)
(* last fault, the configuration the scale, and no answer is refused.      *)
AnswersAreTruthful ==
    CASE answer.msg = "FaultLogResponse" ->
            answer.fault = [named |-> x.fault.code \in NamedFaults, code |-> x.fault.code]
      [] answer.msg = "ControlConfiguration" ->
            answer.celsius = (spa.scale = "Celsius") /\ answer.circ /\ answer.blower
      [] answer.msg = "FilterCyclesResponse" ->
            answer.filter1 = Filter1 /\ answer.filter2 = Filter2
      [] answer.msg = "InformationResponse" ->
            answer.dip = Information.dip /\ answer.model = Information.model
      [] OTHER -> answer = NothingYet

(* While water flows the temperature settles around the target: at most    *)
(* one cold step below the lower threshold, at most the pumps' heat above  *)
(* the upper one.                                                          *)
Warmth(s) == PumpHeat * RunningPumps(s)
InBand ==
    spa.temp \in CoolStep(LowerTarget(spa)) - Warmth(spa) .. HeatTarget(spa) + Warmth(spa)
Settles == <>[]Flow(spa) => <>[]InBand

(* What the owner is told is the spa: the state shown, the answers, and    *)
(* the types they rest on, whatever was skipped (status_changed).          *)
OwnerSeesTheSpa == TypeOK /\ ShownIsCurrent /\ AnswersAreTruthful

(* What the owner asks for is understood, sent as it was meant and kept by *)
(* the spa: discovery, parser, conversion, encoder and the simulator's two *)
(* ranges agree (parse_command, Command::encode).                          *)
CommandsAreMeant ==
    /\ EntitiesUnderstood
    /\ AcceptedIsSendable
    /\ TargetSentExactly
    /\ TargetWithinSpan
    /\ RangeKeepsTarget
=============================================================================
