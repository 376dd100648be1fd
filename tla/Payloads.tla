------------------------------ MODULE Payloads ------------------------------
(***************************************************************************)
(* The bytes of the spa's frames, both ends: the generators of the         *)
(* simulator and the parsers of launa-protocol.  A payload is the sequence *)
(* of its bytes; the code's offset i is element i + 1.                     *)
(***************************************************************************)
EXTENDS SpaState

ASSUME PayloadAssumption == NumPumps = 6 /\ NumSwitches = 5
Blower == 7
Lights == 8 .. 11

Bits(byte, low, n) == (byte \div 2 ^ low) % 2 ^ n
Flag(b, weight) == IF b THEN weight ELSE 0
Err == [msg |-> "Unknown"]

-----------------------------------------------------------------------------
(* The faults of the spa: fault_manager.rs.  left = 0 in an active fault   *)
(* means that it stays until it is cleared.                                *)
NoFault == [active |-> FALSE, left |-> 0, code |-> 27]
FaultState(f, code) == [active |-> TRUE, left |-> 0, code |-> code]
ClearFault(f) == [f EXCEPT !.active = FALSE, !.left = 0]
TransientFault(f, code, ticks) ==
    IF ticks = 0 THEN ClearFault(f) ELSE [active |-> TRUE, left |-> ticks, code |-> code]
FaultTick(f) ==
    IF f.left = 0 THEN f ELSE [f EXCEPT !.left = @ - 1, !.active = f.left # 1]

-----------------------------------------------------------------------------
(* The status frame.  x holds what the water does not: the clock, the      *)
(* fault, priming, whether the temperature is reported, and the mister.    *)

ReportedTemp(s, x) ==
    LET wire == ToWire(Convert(Temperature(s.temp, "Fahrenheit"), s.scale))
    IN  IF x.unknown \/ wire < 0 \/ wire > 255 THEN 255 ELSE wire
(* Four fields of two bits in a byte, the first one lowest. *)
PackPairsSwapped(a, b, c, d) == 64 * a + 16 * b + 4 * c + d
PackPairs(a, b, c, d) == a + 4 * b + 16 * c + 64 * d
ModeBits == [Ready |-> 0, Rest |-> 1, ReadyInRest |-> 3]

StatusPayload(s, x) ==
    [k \in 1 .. 24 |->
        CASE k = 1 -> Flag(s.items[HoldMode] = 1, 5)
          [] k = 2 -> IF x.fault.active THEN 2 ELSE Flag(x.priming > 0, 1)
          [] k = 3 -> ReportedTemp(s, x)
          [] k = 4 -> x.hour
          [] k = 5 -> x.minute
          [] k = 6 -> ModeBits[s.mode]
          [] k = 10 -> Flag(s.scale = "Celsius", 1) + 2
          [] k = 11 -> Flag(s.heating, 48) + Flag(s.range = "High", 4)
          [] k = 12 -> PackPairs(s.items[1], s.items[2], s.items[3], s.items[4])
          [] k = 13 -> PackPairs(s.items[5], s.items[6], 0, 0)
          [] k = 14 -> Flag(s.circ, 2) + Flag(s.items[Blower] = 1, 12)
          [] k = 15 -> PackPairs(3 * s.items[8], 3 * s.items[9], 3 * s.items[10], 3 * s.items[11])
          [] k = 16 -> Flag(x.mister, 1)
          [] k = 21 -> ToWire(s.set)
          [] OTHER -> 0]
(* The prefix of real hardware in front of the payload. *)
GenerateStatus(s, x) == <<19>> \o StatusPayload(s, x)

(* pump_bits.rs *)
DecodePumpRaw(byte1, byte2) ==
    [i \in 1 .. 6 |-> IF i <= 4 THEN Bits(byte1, 2 * (i - 1), 2) ELSE Bits(byte2, 2 * (i - 5), 2)]
DecodeLights(byte) == [i \in 1 .. 4 |-> Bits(byte, 2 * (i - 1), 2) # 0]

(* StatusUpdate::parse.  A mode or pump value of 2 bits that no frame of   *)
(* the spa uses falls back to Ready or Off.                                *)
ParseStatus(p) ==
    LET scale == IF Bits(p[10], 0, 1) = 1 THEN "Celsius" ELSE "Fahrenheit"
        hold == p[1] = 5
        raw == DecodePumpRaw(p[12], p[13])
    IN  [msg |-> "StatusUpdate",
         temp |-> IF p[3] = 255 THEN None ELSE FromWire(p[3], scale).value,
         set |-> FromWire(p[21], scale),
         hour |-> p[4], minute |-> p[5],
         mode |-> CASE p[6] % 4 = 1 -> "Rest" [] p[6] % 4 = 3 -> "ReadyInRest" [] OTHER -> "Ready",
         scale |-> scale,
         is24h |-> Bits(p[10], 1, 1) = 1,
         filter |-> Bits(p[10], 2, 2),
         heating |-> Bits(p[11], 4, 2) # 0,
         range |-> IF Bits(p[11], 2, 1) = 1 THEN "High" ELSE "Low",
         pumps |-> [i \in 1 .. 6 |-> IF raw[i] = 3 THEN 0 ELSE raw[i]],
         circ |-> Bits(p[14], 1, 1) = 1,
         blower |-> Bits(p[14], 2, 2) # 0,
         mister |-> p[16] # 0,
         lights |-> DecodeLights(p[15]),
         priming |-> p[2] = 1,
         hold |-> hold,
         notification |-> p[7],
         locks |-> <<Bits(p[19], 0, 1), Bits(p[20], 0, 1)>>,
         m8 |-> p[22],
         sensorA |-> IF hold THEN None ELSE FromWire(p[8], scale).value,
         sensorB |-> IF p[1] = 20 THEN FromWire(p[9], scale).value ELSE None,
         holdMinutes |-> IF hold THEN p[8] ELSE None]

(* handle_status: the prefix 0x13 is taken off a frame of 25 bytes. *)
HandleStatus(p) ==
    LET data == IF Len(p) = 25 /\ p[1] = 19 THEN Tail(p) ELSE p
    IN  IF Len(data) < 24 THEN Err ELSE ParseStatus(data)

-----------------------------------------------------------------------------
(* The answers to data requests.                                           *)

FaultLogConfig(code) ==
    [count |-> 3, entry |-> 1, code |-> code, days |-> 2, hour |-> 14, minute |-> 30,
     flags |-> 4, set |-> 104, sensorA |-> 104, sensorB |-> 102]
FaultBytes(c) ==
    <<c.count, c.entry, c.code, c.days, c.hour, c.minute, c.flags, c.set, c.sensorA, c.sensorB>>
(* generate_fault_log_response_for_entry: entries beyond the list get the  *)
(* sentinel of zeros; without a list every entry is the configured one.    *)
GenerateFaultLog(config, entries, n) ==
    <<40>> \o (CASE entries = <<>> -> FaultBytes(config)
                [] entries # <<>> /\ n \in DOMAIN entries -> FaultBytes(entries[n])
                [] OTHER -> [k \in 1 .. 10 |-> 0])

(* FaultCode::from_code and code: the codes without a name are kept. *)
NamedFaults == (15 .. 20) \cup {22} \cup (26 .. 32) \cup (34 .. 37)
FromCode(code) == [named |-> code \in NamedFaults, code |-> code]
ParseFaultLog(p) ==
    IF Len(p) < 10 THEN Err
    ELSE [msg |-> "FaultLogResponse", count |-> p[1], entry |-> p[2], fault |-> FromCode(p[3]),
          days |-> p[4], hour |-> p[5], minute |-> p[6], flags |-> p[7],
          set |-> p[8], sensorA |-> p[9], sensorB |-> p[10]]

(* A filter cycle; the high bit of the second one's hour enables it. *)
GenerateFilterCycles(f1, f2) ==
    <<35, f1.hour, f1.minute, f1.hours, f1.minutes,
      (f2.hour % 128) + Flag(f2.enabled, 128), f2.minute, f2.hours, f2.minutes>>
ParseFilterCycles(p) ==
    IF Len(p) < 8 THEN Err
    ELSE [msg |-> "FilterCyclesResponse",
          filter1 |-> [hour |-> p[1], minute |-> p[2], hours |-> p[3], minutes |-> p[4],
                       enabled |-> TRUE],
          filter2 |-> [hour |-> p[5] % 128, minute |-> p[6], hours |-> p[7], minutes |-> p[8],
                       enabled |-> p[5] >= 128]]

(* The configuration is answered as it was given, but for the scale. *)
GenerateConfig(raw, scale) ==
    <<46>> \o [raw EXCEPT ![4] = (@ - (@ % 2)) + Flag(scale = "Celsius", 1)]
ParseConfig(p) ==
    IF Len(p) < 10 THEN Err
    ELSE LET raw == DecodePumpRaw(p[6], p[7])
         IN  [msg |-> "ControlConfiguration",
              pumps |-> [i \in 1 .. 6 |-> IF raw[i] = 3 THEN 0 ELSE raw[i]],
              lights |-> DecodeLights(p[8]),
              circ |-> Bits(p[9], 7, 1) = 1, blower |-> Bits(p[9], 0, 2) # 0,
              mister |-> Bits(p[10], 4, 2) # 0,
              aux |-> <<Bits(p[10], 0, 1) = 1, Bits(p[10], 1, 1) = 1>>,
              celsius |-> Bits(p[4], 0, 1) = 1]

(* Information: ids, versions and the signature are texts made of the      *)
(* bytes; two texts are equal exactly when the bytes are.                  *)
GenerateInformation(c) ==
    <<36>> \o c.software \o c.model \o <<c.setup>> \o c.signature
           \o <<c.voltage, c.heater>> \o c.dip
ParseInformation(p) ==
    IF Len(p) < 21 THEN Err
    ELSE [msg |-> "InformationResponse", software |-> SubSeq(p, 1, 4),
          model |-> SubSeq(p, 5, 12), setup |-> p[13], signature |-> SubSeq(p, 14, 17),
          is240V |-> p[18] = 1, standard |-> p[19] = 10, dip |-> SubSeq(p, 20, 21)]

(* handle_0abf and handle_settings_0x22. *)
From(p, offset) == SubSeq(p, offset + 1, Len(p))
Dispatch0abf(p) ==
    CASE p = <<>> -> Err
      [] p # <<>> /\ p[1] = 34 ->
            IF Len(p) <= 3 THEN Err
            ELSE CASE p[2] = 1 -> ParseFilterCycles(From(p, 3))
                   [] p[2] = 2 -> ParseInformation(From(p, 3))
                   [] p[2] = 32 -> ParseFaultLog(From(p, 3))
                   [] OTHER -> Err
      [] p # <<>> /\ p[1] = 35 -> ParseFilterCycles(From(p, 1))
      [] p # <<>> /\ p[1] = 36 -> ParseInformation(From(p, 1))
      [] p # <<>> /\ p[1] = 37 -> [msg |-> "SetupParametersResponse"]
      [] p # <<>> /\ p[1] = 38 -> [msg |-> "PreferencesResponse"]
      [] p # <<>> /\ p[1] = 40 -> ParseFaultLog(From(p, 1))
      [] p # <<>> /\ p[1] \in {46, 148} -> ParseConfig(From(p, 1))
      [] OTHER -> Err
=============================================================================
