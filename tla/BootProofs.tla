----------------------------- MODULE BootProofs -----------------------------
(***************************************************************************)
(* Proofs about Boot, for any configuration files, panic messages, size of *)
(* the serial FIFO, and any number of faults and of things a person does:  *)
(* what becomes of the record of a crash, and what becomes of a            *)
(* configuration that the device acknowledged.                             *)
(***************************************************************************)
EXTENDS Boot, TLAPS, SequenceTheorems, NaturalsInduction, WellFoundedInduction

-----------------------------------------------------------------------------
(* The inductive invariant.  As long as no record or clearing was cut      *)
(* short, a crash flag in flash comes with the reason of the crash that    *)
(* was recorded last, which was not told yet; once it is read into alarm,  *)
(* either the flag is still there and nothing was told, or it is cleared   *)
(* and nobody will read it again.                                          *)
Phases == {"boot", "loaded", "early", "clearing", "wifi", "window", "connecting", "main",
           "saving", "panicking"}
Reasons == DOMAIN ReasonCode
Writes(values) == [key : Keys \cup CrashKeys, value : values]
Alarms == [crash : Nat, reason : Reasons]

(* A record with the fields of dev. *)
IsDev(d) ==
    d = [phase |-> d.phase, cfg |-> d.cfg, handle |-> d.handle, alarm |-> d.alarm,
         rx |-> d.rx, todo |-> d.todo, late |-> d.late, attempt |-> d.attempt]

BootTypeOK ==
    /\ nvs = [k \in Keys \cup CrashKeys |-> nvs[k]]
    /\ IsDev(dev)
    /\ dev.phase \in Phases
    /\ dev.alarm \in Reasons \cup {NoAlarm}
    /\ \E values : dev.todo \in Seq(Writes(values))
    /\ recorded \in Seq(Reasons)
    /\ cuts \in Nat
    /\ alarms \in Seq(Alarms)
NothingToWrite == dev.phase \notin {"saving", "clearing", "panicking"} => dev.todo = <<>>
OnlyConfigKeys == dev.phase = "saving" => \A i \in DOMAIN dev.todo : dev.todo[i].key \in Keys

Latest == recorded[Len(recorded)]
Untold == recorded # <<>> /\ \A i \in DOMAIN alarms : alarms[i].crash < Len(recorded)
NoRecord == nvs["magic"] = Absent
RecordOfLatest == nvs["magic"] = CRASH_MAGIC /\ nvs["reason"] = <<ReasonCode[Latest]>>
Kept == NoRecord \/ (RecordOfLatest /\ Untold)

ClearingPlan ==
    \/ dev.todo = ClearCrashOps
    \/ dev.todo = <<NvsWrite("reason", Absent), NvsWrite("magic", Absent)>>
    \/ dev.todo = <<NvsWrite("magic", Absent)>>
    \/ dev.todo = <<>> /\ NoRecord
PanicPlan ==
    \/ dev.todo = <<NvsWrite("magic", CRASH_MAGIC), NvsWrite("reason", <<ReasonCode[Latest]>>),
                    NvsWrite("message", <<1>>)>>
    \/ /\ dev.todo = <<NvsWrite("reason", <<ReasonCode[Latest]>>), NvsWrite("message", <<1>>)>>
       /\ nvs["magic"] = CRASH_MAGIC
    \/ dev.todo = <<NvsWrite("message", <<1>>)>> /\ RecordOfLatest
    \/ dev.todo = <<>> /\ RecordOfLatest

RecordFits ==
    /\ dev.phase \in {"boot", "main"} => dev.alarm = NoAlarm /\ Kept
    /\ dev.phase = "saving" => Kept
    /\ dev.phase \in {"loaded", "early"} =>
          \/ dev.alarm = NoAlarm /\ NoRecord
          \/ dev.alarm = Latest /\ Untold /\ RecordOfLatest
    /\ dev.phase = "clearing" =>
          \/ dev.alarm = NoAlarm /\ NoRecord /\ dev.todo = <<>>
          \/ dev.alarm = Latest /\ Untold /\ ClearingPlan
    /\ dev.phase \in {"wifi", "window", "connecting"} =>
          \/ dev.alarm = NoAlarm /\ Kept
          \/ dev.alarm = Latest /\ Untold /\ NoRecord
    /\ dev.phase = "panicking" => Untold /\ PanicPlan
BootInv ==
    /\ BootTypeOK
    /\ NothingToWrite
    /\ OnlyConfigKeys
    /\ cuts = 0 => RecordFits /\ CrashToldOnce

-----------------------------------------------------------------------------
(* Reasons.                                                                *)

(* What a panic is recorded as can be read back, and is an alarm. *)
LEMMA ReasonsFit ==
    /\ \A m : Classify(m) \in Reasons
    /\ \A code : FromU8(code) \in Reasons
    /\ \A r \in Reasons : FromU8(ReasonCode[r]) = r /\ r # NoAlarm
  <1>1. Reasons = {"panic", "oom", "stack_overflow", "assertion", "index_out_of_bounds",
                   "arithmetic_overflow", "unknown"}
    BY DEF Reasons, ReasonCode
  <1>2. \A m : Classify(m) \in Reasons
    BY <1>1 DEF Classify
  <1>3. \A r, q \in Reasons : ReasonCode[r] = ReasonCode[q] => r = q
    BY <1>1 DEF ReasonCode
  <1>4. \A r \in Reasons : FromU8(ReasonCode[r]) = r
    BY <1>3 DEF FromU8, Reasons
  <1>5. \A r \in Reasons : r # NoAlarm
    BY <1>1 DEF NoAlarm
  <1>6. \A code : FromU8(code) \in Reasons
    BY <1>1 DEF FromU8, Reasons
  <1> QED BY <1>2, <1>4, <1>5, <1>6

(* The crash keys are none of the configuration. *)
LEMMA KeysApart ==
    "magic" \notin Keys /\ "reason" \notin Keys /\ "message" \notin Keys
  <1>1. Keys = {"wifi_ssid", "wifi_pass", "mqtt_host", "mqtt_port", "mqtt_user", "mqtt_pass",
                "device_id"}
    BY DEF Keys, KeyOrder
  <1> QED BY <1>1

(* A save writes configuration keys only. *)
LEMMA SaveOpsFit ==
    ASSUME NEW cfg, NEW key, NEW nonce
    PROVE  /\ \E values : SaveOps(cfg, key, nonce) \in Seq(Writes(values))
           /\ \A i \in DOMAIN SaveOps(cfg, key, nonce) : SaveOps(cfg, key, nonce)[i].key \in Keys
  <1> DEFINE V(i) == IF KeyOrder[i] \in Passwords THEN Encrypt(cfg[KeyOrder[i]], key, nonce[KeyOrder[i]])
                     ELSE cfg[KeyOrder[i]]
             values == {V(i) : i \in 1 .. Len(KeyOrder)}
             writes == SaveOps(cfg, key, nonce)
  <1>1. writes = [i \in 1 .. Len(KeyOrder) |-> [key |-> KeyOrder[i], value |-> V(i)]]
    BY DEF SaveOps, NvsWrite
  <1>2. Len(KeyOrder) \in Nat
    BY DEF KeyOrder
  <1>3. \A i \in 1 .. Len(KeyOrder) : KeyOrder[i] \in Keys /\ V(i) \in values
    BY DEF Keys
  <1> HIDE DEF V, writes, values
  <1>4. \A i \in 1 .. Len(KeyOrder) : [key |-> KeyOrder[i], value |-> V(i)] \in Writes(values)
    BY <1>3 DEF Writes
  <1>5. writes \in Seq(Writes(values))
    BY <1>1, <1>2, <1>4
  <1>6. \A i \in DOMAIN writes : writes[i].key \in Keys
    BY <1>1, <1>3
  <1> QED BY <1>5, <1>6 DEF writes

(* The operations of a panic and of a clearing are writes. *)
LEMMA CrashOpsFit ==
    /\ \E values : ClearCrashOps \in Seq(Writes(values))
    /\ \A m : \E values : WriteCrashOps(m) \in Seq(Writes(values))
    /\ \E values : <<>> \in Seq(Writes(values))
  <1>1. ASSUME NEW a, NEW b, NEW c
        PROVE  LET writes == <<NvsWrite("magic", a), NvsWrite("reason", b), NvsWrite("message", c)>>
               IN  \E values : writes \in Seq(Writes(values))
    <2>1. \A k \in CrashKeys, v \in {a, b, c} : NvsWrite(k, v) \in Writes({a, b, c})
      BY DEF Writes, NvsWrite
    <2> QED BY <2>1 DEF CrashKeys
  <1>2. \E values : ClearCrashOps \in Seq(Writes(values))
    <2>1. \A k \in CrashKeys : NvsWrite(k, Absent) \in Writes({Absent})
      BY DEF Writes, NvsWrite
    <2> QED BY <2>1 DEF CrashKeys, ClearCrashOps
  <1>3. \A m : \E values : WriteCrashOps(m) \in Seq(Writes(values))
    BY <1>1 DEF WriteCrashOps
  <1> QED BY <1>2, <1>3

(* Short sequences of operations. *)
LEMMA ShortTails ==
    /\ \A a : <<a>> # <<>> /\ Head(<<a>>) = a /\ Tail(<<a>>) = <<>>
    /\ \A a, b : <<a, b>> # <<>> /\ Head(<<a, b>>) = a /\ Tail(<<a, b>>) = <<b>>
    /\ \A a, b, c : <<a, b, c>> # <<>> /\ Head(<<a, b, c>>) = a /\ Tail(<<a, b, c>>) = <<b, c>>
  OBVIOUS

-----------------------------------------------------------------------------
(* One lemma per kind of step.                                             *)

(* Before the first boot nothing was recorded. *)
LEMMA InitBootFits == Init => BootInv
  <1> SUFFICES ASSUME Init PROVE BootInv
    OBVIOUS
  <1>1. dev = PoweredUp /\ recorded = <<>> /\ cuts = 0 /\ alarms = <<>>
        /\ nvs = [k \in Keys \cup CrashKeys |-> Absent]
    BY DEF Init
  <1>2. IsDev(dev) /\ dev.phase = "boot" /\ dev.todo = <<>> /\ dev.alarm = NoAlarm
    BY <1>1 DEF PoweredUp, IsDev
  <1>3. BootTypeOK
    BY <1>1, <1>2, CrashOpsFit DEF BootTypeOK, Phases
  <1>4. NoRecord
    BY <1>1 DEF NoRecord, CrashKeys
  <1> QED BY <1>1, <1>2, <1>3, <1>4
          DEF BootInv, NothingToWrite, OnlyConfigKeys, RecordFits, CrashToldOnce, Kept

(* A reset finds the record as it was left, if it was not cut short. *)
LEMMA ResetFits ==
    ASSUME BootInv, dev' = PoweredUp, UNCHANGED <<nvs, recorded, alarms>>, cuts' \in Nat,
           cuts' = 0 => /\ cuts = 0
                        /\ dev.phase \in {"clearing", "panicking"} => dev.todo = <<>>
    PROVE  BootInv'
  <1>1. IsDev(dev') /\ dev'.phase = "boot" /\ dev'.todo = <<>> /\ dev'.alarm = NoAlarm
    BY DEF PoweredUp, IsDev
  <1>2. BootTypeOK'
    BY <1>1, CrashOpsFit DEF BootInv, BootTypeOK, Phases
  <1>3. ASSUME cuts' = 0 PROVE RecordFits' /\ CrashToldOnce'
    <2>1. cuts = 0 /\ RecordFits /\ CrashToldOnce /\ dev.phase \in Phases
      BY <1>3 DEF BootInv, BootTypeOK
    <2>2. Kept
      <3>1. CASE dev.phase \in {"boot", "main", "saving", "loaded", "early", "wifi", "window",
                                "connecting"}
        BY <2>1, <3>1 DEF RecordFits, Kept
      <3>2. CASE dev.phase = "clearing"
        <4>1. dev.todo = <<>>
          BY <1>3, <3>2
        <4>2. ClearingPlan => NoRecord
          BY <4>1, ShortTails DEF ClearingPlan, ClearCrashOps
        <4> QED BY <2>1, <3>2, <4>2 DEF RecordFits, Kept
      <3>3. CASE dev.phase = "panicking"
        <4>1. dev.todo = <<>>
          BY <1>3, <3>3
        <4>2. PanicPlan => RecordOfLatest
          BY <4>1, ShortTails DEF PanicPlan
        <4> QED BY <2>1, <3>3, <4>2 DEF RecordFits, Kept
      <3> QED BY <2>1, <3>1, <3>2, <3>3 DEF Phases
    <2>3. Kept'
      BY <2>2 DEF Kept, NoRecord, RecordOfLatest, Untold, Latest
    <2>4. CrashToldOnce'
      BY <2>1 DEF CrashToldOnce
    <2> QED BY <1>1, <2>3, <2>4 DEF RecordFits
  <1> QED BY <1>1, <1>2, <1>3 DEF BootInv, NothingToWrite, OnlyConfigKeys

(* A step from one waiting place to the next. *)
LEMMA MoveFits ==
    ASSUME BootInv, IsDev(dev'), UNCHANGED <<nvs, recorded, cuts, alarms>>,
           dev'.todo = dev.todo, dev'.alarm = dev.alarm,
           \/ dev'.phase = dev.phase
           \/ dev.phase = "boot" /\ dev'.phase = "wifi"
           \/ dev.phase = "loaded" /\ dev'.phase = "early"
           \/ dev.phase = "wifi" /\ dev'.phase = "window"
           \/ dev.phase = "window" /\ dev'.phase = "connecting"
    PROVE  BootInv'
  <1>1. BootTypeOK'
    BY DEF BootInv, BootTypeOK, Phases
  <1>2. (NothingToWrite /\ OnlyConfigKeys)'
    BY DEF BootInv, NothingToWrite, OnlyConfigKeys
  <1>3. ASSUME cuts' = 0 PROVE RecordFits' /\ CrashToldOnce'
    <2>1. RecordFits /\ CrashToldOnce
      BY <1>3 DEF BootInv
    <2>2. CrashToldOnce'
      BY <2>1 DEF CrashToldOnce
    <2>3. /\ Latest' = Latest /\ (Untold <=> Untold') /\ (NoRecord <=> NoRecord')
          /\ (RecordOfLatest <=> RecordOfLatest') /\ (Kept <=> Kept')
          /\ (ClearingPlan <=> ClearingPlan') /\ (PanicPlan <=> PanicPlan')
      BY DEF Latest, Untold, NoRecord, RecordOfLatest, Kept, ClearingPlan, PanicPlan
    <2> QED BY <2>1, <2>2, <2>3 DEF RecordFits
  <1> QED BY <1>1, <1>2, <1>3 DEF BootInv

(* A panic that is recorded: the flash holds no record, and the new one is *)
(* the latest.                                                             *)
LEMMA PanicFits ==
    ASSUME BootInv, NEW m, dev.phase = "loaded", nvs["magic"] = Absent,
           dev' = [dev EXCEPT !.phase = "panicking", !.todo = WriteCrashOps(m)],
           recorded' = Append(recorded, Classify(m)), UNCHANGED <<nvs, cuts, alarms>>
    PROVE  BootInv'
  <1>0. /\ BootTypeOK /\ recorded \in Seq(Reasons) /\ alarms \in Seq(Alarms)
        /\ IsDev(dev) /\ Classify(m) \in Reasons
    BY ReasonsFit DEF BootInv, BootTypeOK
  <1>1. /\ IsDev(dev') /\ dev'.phase = "panicking" /\ dev'.todo = WriteCrashOps(m)
        /\ dev'.alarm = dev.alarm
    BY <1>0 DEF IsDev
  <1>2. /\ recorded' \in Seq(Reasons) /\ Len(recorded') = Len(recorded) + 1
        /\ recorded'[Len(recorded')] = Classify(m)
        /\ \A i \in 1 .. Len(recorded) : recorded'[i] = recorded[i]
    BY <1>0
  <1>3. BootTypeOK'
    BY <1>0, <1>1, <1>2, CrashOpsFit DEF BootTypeOK, Phases
  <1>4. ASSUME cuts' = 0 PROVE RecordFits' /\ CrashToldOnce'
    <2>1. CrashToldOnce
      BY <1>4 DEF BootInv
    <2>2. DOMAIN alarms = 1 .. Len(alarms)
      BY <1>0
    <2>3. \A i \in DOMAIN alarms : alarms[i].crash \in 1 .. Len(recorded)
      BY <1>4, <2>1, <2>2 DEF CrashToldOnce
    <2>4. Untold'
      BY <1>0, <1>2, <2>3 DEF Untold, Latest
    <2>5. PanicPlan'
      BY <1>1, <1>2 DEF PanicPlan, WriteCrashOps, Latest
    <2>6. CrashToldOnce'
      BY <1>0, <1>2, <1>4, <2>1, <2>2, <2>3 DEF CrashToldOnce
    <2> QED BY <1>1, <2>4, <2>5, <2>6 DEF RecordFits
  <1> QED BY <1>1, <1>3, <1>4 DEF BootInv, NothingToWrite, OnlyConfigKeys

(* The record is read at boot. *)
LEMMA LoadFits ==
    ASSUME BootInv, LoadConfig
    PROVE  BootInv'
  <1>0. /\ BootTypeOK /\ recorded \in Seq(Reasons) /\ IsDev(dev) /\ dev.phase = "boot"
        /\ UNCHANGED <<nvs, recorded, cuts, alarms>>
    BY DEF BootInv, BootTypeOK, LoadConfig, store, ghosts
  <1>1. /\ IsDev(dev') /\ dev'.phase = "loaded" /\ dev'.todo = dev.todo
        /\ dev'.alarm = ReadCrashInfo
    BY <1>0 DEF IsDev, LoadConfig
  <1>2. BootTypeOK'
    <2>1. ReadCrashInfo \in Reasons \cup {NoAlarm}
      BY ReasonsFit DEF ReadCrashInfo
    <2> QED BY <1>0, <1>1, <2>1 DEF BootTypeOK, Phases
  <1>3. ASSUME cuts' = 0 PROVE RecordFits' /\ CrashToldOnce'
    <2>1. Kept /\ CrashToldOnce
      BY <1>0, <1>3 DEF BootInv, RecordFits
    <2>2. CASE NoRecord
      <3>1. ReadCrashInfo = NoAlarm
        BY <2>2 DEF ReadCrashInfo, NoRecord, Absent, CRASH_MAGIC
      <3> QED BY <1>0, <1>1, <2>1, <2>2, <3>1 DEF RecordFits, CrashToldOnce, NoRecord
    <2>3. CASE RecordOfLatest /\ Untold
      <3>1. Latest \in Reasons
        BY <1>0, <2>3 DEF Latest, Untold
      <3>2. ReasonCode[Latest] # -1
        BY <3>1 DEF Reasons, ReasonCode
      <3>3. nvs["reason"] # Absent /\ nvs["reason"][1] = ReasonCode[Latest]
        BY <2>3, <3>2 DEF RecordOfLatest, Absent
      <3>4. ReadCrashInfo = Latest
        BY <2>3, <3>1, <3>3, ReasonsFit DEF ReadCrashInfo, RecordOfLatest
      <3> QED BY <1>0, <1>1, <2>1, <2>3, <3>4
              DEF RecordFits, CrashToldOnce, RecordOfLatest, Untold, Latest
    <2> QED BY <2>1, <2>2, <2>3 DEF Kept
  <1> QED BY <1>0, <1>1, <1>2, <1>3 DEF BootInv, NothingToWrite, OnlyConfigKeys

(* What was read is cleared, once the handle is handed over. *)
LEMMA HandOverFits ==
    ASSUME BootInv, HandOver
    PROVE  BootInv'
  <1>0. /\ BootTypeOK /\ recorded \in Seq(Reasons) /\ IsDev(dev)
        /\ dev.phase \in {"loaded", "early"} /\ UNCHANGED <<nvs, recorded, cuts, alarms>>
    BY DEF BootInv, BootTypeOK, HandOver, CanHandOver, store, ghosts
  <1>1. /\ IsDev(dev') /\ dev'.phase = "clearing" /\ dev'.alarm = dev.alarm
        /\ dev'.todo = IF dev.alarm # NoAlarm THEN ClearCrashOps ELSE <<>>
    BY <1>0 DEF IsDev, HandOver
  <1>2. BootTypeOK'
    BY <1>0, <1>1, CrashOpsFit DEF BootTypeOK, Phases
  <1>3. ASSUME cuts' = 0 PROVE RecordFits' /\ CrashToldOnce'
    <2>1. RecordFits /\ CrashToldOnce
      BY <1>0, <1>3 DEF BootInv
    <2>2. CASE dev.alarm = NoAlarm /\ NoRecord
      BY <1>0, <1>1, <2>1, <2>2 DEF RecordFits, CrashToldOnce, NoRecord
    <2>3. CASE dev.alarm = Latest /\ Untold /\ RecordOfLatest
      <3>1. Latest \in Reasons
        BY <1>0, <2>3 DEF Latest, Untold
      <3>2. ClearingPlan'
        BY <1>1, <2>3, <3>1, ReasonsFit DEF ClearingPlan
      <3> QED BY <1>0, <1>1, <2>1, <2>3, <3>2 DEF RecordFits, CrashToldOnce, Untold, Latest
    <2> QED BY <1>0, <2>1, <2>2, <2>3 DEF RecordFits
  <1> QED BY <1>1, <1>2, <1>3 DEF BootInv, NothingToWrite, OnlyConfigKeys

(* One write of a panic or of a clearing leads to the next part of its     *)
(* plan; one of a save leaves the record alone.                            *)
LEMMA FlashStepFits ==
    ASSUME BootInv, FlashStep
    PROVE  BootInv'
  <1> DEFINE op == Head(dev.todo)
  <1>0. /\ BootTypeOK /\ IsDev(dev) /\ dev.todo # <<>>
        /\ nvs = [k \in Keys \cup CrashKeys |-> nvs[k]]
        /\ nvs' = [nvs EXCEPT ![op.key] = op.value] /\ UNCHANGED <<recorded, cuts, alarms>>
    BY DEF BootInv, BootTypeOK, FlashStep, ghosts
  <1>1. /\ IsDev(dev') /\ dev'.phase = dev.phase /\ dev'.alarm = dev.alarm
        /\ dev'.todo = Tail(dev.todo)
    BY <1>0 DEF IsDev, FlashStep
  <1>2. PICK values : dev.todo \in Seq(Writes(values))
    BY <1>0 DEF BootTypeOK
  <1>3. /\ op \in Writes(values) /\ Tail(dev.todo) \in Seq(Writes(values))
        /\ op = dev.todo[1] /\ 1 \in DOMAIN dev.todo
        /\ \A i \in DOMAIN Tail(dev.todo) : i + 1 \in DOMAIN dev.todo
                                            /\ Tail(dev.todo)[i] = dev.todo[i + 1]
    BY <1>0, <1>2
  <1> HIDE DEF op
  <1>4. nvs' = [k \in Keys \cup CrashKeys |-> nvs'[k]]
    BY <1>0
  <1>5. BootTypeOK'
    BY <1>0, <1>1, <1>3, <1>4 DEF BootTypeOK
  <1>6. dev.phase \in {"saving", "clearing", "panicking"}
    BY <1>0 DEF BootInv, NothingToWrite
  <1>7. OnlyConfigKeys'
    BY <1>1, <1>3 DEF BootInv, OnlyConfigKeys
  <1>8. {"magic", "reason", "message"} \subseteq Keys \cup CrashKeys
    BY DEF CrashKeys
  <1>9. ASSUME cuts' = 0 PROVE RecordFits'
    <2>0. RecordFits
      BY <1>0, <1>9 DEF BootInv
    <2>1. CASE dev.phase = "saving"
      <3>1. op.key \in Keys
        BY <1>3, <2>1 DEF BootInv, OnlyConfigKeys
      <3>2. nvs'["magic"] = nvs["magic"] /\ nvs'["reason"] = nvs["reason"]
        BY <1>0, <1>8, <3>1, KeysApart
      <3> QED BY <1>0, <1>1, <2>0, <2>1, <3>2
              DEF RecordFits, Kept, NoRecord, RecordOfLatest, Untold, Latest
    <2>2. CASE dev.phase = "clearing"
      <3>1. dev.alarm = Latest /\ Untold /\ ClearingPlan
        BY <1>0, <2>0, <2>2 DEF RecordFits
      <3>2. ClearingPlan'
        <4>1. CASE dev.todo = ClearCrashOps
          BY <1>1, <4>1, ShortTails DEF ClearCrashOps, ClearingPlan
        <4>2. CASE dev.todo = <<NvsWrite("reason", Absent), NvsWrite("magic", Absent)>>
          BY <1>1, <4>2, ShortTails DEF ClearingPlan
        <4>3. CASE dev.todo = <<NvsWrite("magic", Absent)>>
          <5>1. op = NvsWrite("magic", Absent) /\ dev'.todo = <<>>
            BY <1>1, <4>3, ShortTails DEF op
          <5>2. nvs'["magic"] = Absent
            BY <1>0, <1>8, <5>1 DEF NvsWrite
          <5> QED BY <5>1, <5>2 DEF ClearingPlan, NoRecord
        <4> QED BY <1>0, <3>1, <4>1, <4>2, <4>3 DEF ClearingPlan
      <3> QED BY <1>0, <1>1, <2>2, <3>1, <3>2 DEF RecordFits, Untold, Latest
    <2>3. CASE dev.phase = "panicking"
      <3>1. Untold /\ PanicPlan
        BY <2>0, <2>3 DEF RecordFits
      <3>2. PICK code : code = ReasonCode[Latest] /\ code = ReasonCode[Latest]'
        BY <1>0 DEF Latest
      <3>3. PanicPlan'
        <4>1. CASE dev.todo = <<NvsWrite("magic", CRASH_MAGIC), NvsWrite("reason", <<code>>),
                                NvsWrite("message", <<1>>)>>
          <5>1. /\ op = NvsWrite("magic", CRASH_MAGIC)
                /\ dev'.todo = <<NvsWrite("reason", <<code>>), NvsWrite("message", <<1>>)>>
            BY <1>1, <4>1, ShortTails DEF op
          <5>2. nvs'["magic"] = CRASH_MAGIC
            BY <1>0, <1>8, <5>1 DEF NvsWrite
          <5> QED BY <3>2, <5>1, <5>2 DEF PanicPlan
        <4>2. CASE /\ dev.todo = <<NvsWrite("reason", <<code>>), NvsWrite("message", <<1>>)>>
                   /\ nvs["magic"] = CRASH_MAGIC
          <5>1. op = NvsWrite("reason", <<code>>) /\ dev'.todo = <<NvsWrite("message", <<1>>)>>
            BY <1>1, <4>2, ShortTails DEF op
          <5>2. nvs'["magic"] = CRASH_MAGIC /\ nvs'["reason"] = <<code>>
            BY <1>0, <1>8, <4>2, <5>1 DEF NvsWrite
          <5> QED BY <3>2, <5>1, <5>2 DEF PanicPlan, RecordOfLatest
        <4>3. CASE dev.todo = <<NvsWrite("message", <<1>>)>> /\ RecordOfLatest
          <5>1. op = NvsWrite("message", <<1>>) /\ dev'.todo = <<>>
            BY <1>1, <4>3, ShortTails DEF op
          <5>2. nvs'["magic"] = CRASH_MAGIC /\ nvs'["reason"] = <<code>>
            BY <1>0, <1>8, <3>2, <4>3, <5>1 DEF NvsWrite, RecordOfLatest
          <5> QED BY <3>2, <5>1, <5>2 DEF PanicPlan, RecordOfLatest
        <4> QED BY <1>0, <3>1, <3>2, <4>1, <4>2, <4>3 DEF PanicPlan
      <3> QED BY <1>0, <1>1, <2>3, <3>1, <3>3 DEF RecordFits, Untold
    <2> QED BY <1>6, <2>1, <2>2, <2>3
  <1>10. cuts' = 0 => CrashToldOnce'
    BY <1>0 DEF BootInv, CrashToldOnce
  <1> QED BY <1>1, <1>5, <1>6, <1>7, <1>9, <1>10 DEF BootInv, NothingToWrite

(* A failed write is a cut, unless it is one of a save. *)
LEMMA FlashErrorFits ==
    ASSUME BootInv, FlashError
    PROVE  BootInv'
  <1>0. /\ BootTypeOK /\ IsDev(dev) /\ dev.todo # <<>> /\ cuts \in Nat
        /\ UNCHANGED <<nvs, recorded, alarms>>
        /\ cuts' = IF dev.phase # "saving" THEN cuts + 1 ELSE cuts
    BY DEF BootInv, BootTypeOK, FlashError, store
  <1>1. /\ IsDev(dev') /\ dev'.phase = dev.phase /\ dev'.alarm = dev.alarm
        /\ dev'.todo = Tail(dev.todo)
    BY <1>0 DEF IsDev, FlashError
  <1>2. PICK values : dev.todo \in Seq(Writes(values))
    BY <1>0 DEF BootTypeOK
  <1>3. /\ Tail(dev.todo) \in Seq(Writes(values))
        /\ \A i \in DOMAIN Tail(dev.todo) : i + 1 \in DOMAIN dev.todo
                                            /\ Tail(dev.todo)[i] = dev.todo[i + 1]
    BY <1>0, <1>2
  <1>4. BootTypeOK'
    BY <1>0, <1>1, <1>3 DEF BootTypeOK
  <1>5. OnlyConfigKeys' /\ NothingToWrite'
    BY <1>0, <1>1, <1>3 DEF BootInv, OnlyConfigKeys, NothingToWrite
  <1>6. ASSUME cuts' = 0 PROVE RecordFits' /\ CrashToldOnce'
    <2>1. cuts = 0 /\ dev.phase = "saving"
      BY <1>0, <1>6
    <2> QED BY <1>0, <1>1, <2>1 DEF BootInv, RecordFits, CrashToldOnce, Kept, NoRecord,
               RecordOfLatest, Untold, Latest
  <1> QED BY <1>4, <1>5, <1>6 DEF BootInv

(* An accepted configuration is saved. *)
LEMMA SaveFits ==
    ASSUME BootInv, dev.phase \in {"early", "window", "main"},
           \E cfg, nonce :
              dev' = [dev EXCEPT !.phase = "saving", !.todo = SaveOps(cfg, efuse, nonce)],
           UNCHANGED <<nvs, recorded, cuts, alarms>>
    PROVE  BootInv'
  <1>0. BootTypeOK /\ IsDev(dev)
    BY DEF BootInv, BootTypeOK
  <1>a. PICK cfg, nonce :
          dev' = [dev EXCEPT !.phase = "saving", !.todo = SaveOps(cfg, efuse, nonce)]
    OBVIOUS
  <1>1. /\ IsDev(dev') /\ dev'.phase = "saving" /\ dev'.todo = SaveOps(cfg, efuse, nonce)
        /\ dev'.alarm = dev.alarm
    BY <1>0, <1>a DEF IsDev
  <1>2. BootTypeOK'
    BY <1>0, <1>1, SaveOpsFit DEF BootTypeOK, Phases
  <1>3. OnlyConfigKeys' /\ NothingToWrite'
    BY <1>1, SaveOpsFit DEF OnlyConfigKeys, NothingToWrite
  <1>4. ASSUME cuts' = 0 PROVE RecordFits' /\ CrashToldOnce'
    <2>1. Kept /\ CrashToldOnce
      BY <1>4 DEF BootInv, RecordFits, Kept
    <2> QED BY <1>1, <2>1 DEF RecordFits, CrashToldOnce, Kept, NoRecord, RecordOfLatest,
               Untold, Latest
  <1> QED BY <1>2, <1>3, <1>4 DEF BootInv

(* The alarm is queued once the broker is reached, and forgotten. *)
LEMMA ConnectedFits ==
    ASSUME BootInv, dev.phase = "connecting", Connected, UNCHANGED <<nvs, recorded, cuts>>
    PROVE  BootInv'
  <1>0. /\ BootTypeOK /\ IsDev(dev) /\ recorded \in Seq(Reasons) /\ alarms \in Seq(Alarms)
        /\ cuts \in Nat
    BY DEF BootInv, BootTypeOK
  <1>1. IsDev(dev') /\ dev'.phase = "main" /\ dev'.todo = dev.todo /\ dev'.alarm = NoAlarm
    BY <1>0 DEF IsDev, Connected
  <1>2. dev.todo = <<>>
    BY DEF BootInv, NothingToWrite
  <1>3. CASE dev.alarm = NoAlarm
    <2>1. alarms' = alarms
      BY <1>3 DEF Connected
    <2>2. BootTypeOK'
      BY <1>0, <1>1, <2>1 DEF BootTypeOK, Phases
    <2>3. ASSUME cuts' = 0 PROVE RecordFits' /\ CrashToldOnce'
      <3>1. Kept /\ CrashToldOnce
        BY <2>3 DEF BootInv, RecordFits, Kept
      <3> QED BY <1>1, <2>1, <3>1 DEF RecordFits, CrashToldOnce, Kept, NoRecord, RecordOfLatest,
                 Untold, Latest
    <2> QED BY <1>1, <1>2, <2>2, <2>3 DEF BootInv, NothingToWrite, OnlyConfigKeys
  <1>4. CASE dev.alarm # NoAlarm
    <2> DEFINE told == [crash |-> Len(recorded), reason |-> dev.alarm]
    <2>1. alarms' = Append(alarms, told)
      BY <1>4 DEF Connected
    <2>2. told \in Alarms /\ told.crash = Len(recorded) /\ told.reason = dev.alarm
      BY <1>0, <1>4 DEF Alarms, BootTypeOK
    <2> HIDE DEF told
    <2>3. /\ alarms' \in Seq(Alarms) /\ Len(alarms') = Len(alarms) + 1
          /\ alarms'[Len(alarms) + 1] = told /\ Len(alarms) \in Nat
          /\ \A i \in 1 .. Len(alarms) : alarms'[i] = alarms[i]
      BY <1>0, <2>1, <2>2
    <2>4. BootTypeOK'
      BY <1>0, <1>1, <2>3 DEF BootTypeOK, Phases
    <2>5. ASSUME cuts' = 0 PROVE RecordFits' /\ CrashToldOnce'
      <3>1. dev.alarm = Latest /\ Untold /\ NoRecord /\ CrashToldOnce
        BY <1>4, <2>5 DEF BootInv, RecordFits
      <3>2. Len(recorded) \in Nat /\ Len(recorded) \in 1 .. Len(recorded)
        BY <1>0, <3>1 DEF Untold
      <3>3. \A i \in 1 .. Len(alarms) : alarms[i].crash < Len(recorded)
        BY <1>0, <3>1 DEF Untold
      <3>4. \A i \in 1 .. Len(alarms) :
              /\ alarms[i].crash \in 1 .. Len(recorded)
              /\ alarms[i].reason = recorded[alarms[i].crash]
              /\ \A j \in 1 .. i - 1 : alarms[j].crash < alarms[i].crash
        BY <2>5, <3>1 DEF CrashToldOnce
      <3>5. ASSUME NEW i \in 1 .. Len(alarms')
            PROVE  /\ alarms'[i].crash \in 1 .. Len(recorded')
                   /\ alarms'[i].reason = recorded'[alarms'[i].crash]
                   /\ \A j \in 1 .. i - 1 : alarms'[j].crash < alarms'[i].crash
        <4>1. CASE i = Len(alarms) + 1
          BY <2>2, <2>3, <3>1, <3>2, <3>3, <4>1 DEF Latest
        <4>2. CASE i \in 1 .. Len(alarms)
          <5>1. \A j \in 1 .. i - 1 : j \in 1 .. Len(alarms)
            BY <2>3, <4>2
          <5> QED BY <2>3, <3>4, <4>2, <5>1
        <4> QED BY <2>3, <4>1, <4>2
      <3>6. CrashToldOnce'
        BY <3>5 DEF CrashToldOnce
      <3> QED BY <1>1, <3>1, <3>6 DEF RecordFits, Kept, NoRecord
    <2> QED BY <1>1, <1>2, <2>4, <2>5 DEF BootInv, NothingToWrite, OnlyConfigKeys
  <1> QED BY <1>3, <1>4

(* Every step keeps the invariant. *)
LEMMA NextBootFits ==
    ASSUME BootInv, [Next]_vars
    PROVE  BootInv'
  <1>0. BootTypeOK /\ IsDev(dev) /\ cuts \in Nat
    BY DEF BootInv, BootTypeOK
  <1>1. CASE LoadConfig
    BY <1>1, LoadFits
  <1>2. CASE WaitForConfig \/ NvsUnavailable \/ AwaitWifi \/ CloseWindow
    <2>1. /\ UNCHANGED <<nvs, recorded, cuts, alarms>> /\ IsDev(dev')
          /\ dev'.todo = dev.todo /\ dev'.alarm = dev.alarm
          /\ \/ dev'.phase = dev.phase
             \/ dev.phase = "boot" /\ dev'.phase = "wifi"
             \/ dev.phase = "loaded" /\ dev'.phase = "early"
             \/ dev.phase = "wifi" /\ dev'.phase = "window"
             \/ dev.phase = "window" /\ dev'.phase = "connecting"
      <3>1. CASE WaitForConfig
        BY <1>0, <3>1 DEF WaitForConfig, Enter, IsDev, store, ghosts
      <3>2. CASE NvsUnavailable
        BY <1>0, <3>2 DEF NvsUnavailable, Enter, IsDev, store, ghosts
      <3>3. CASE AwaitWifi
        BY <1>0, <3>3 DEF AwaitWifi, IsDev, store, ghosts
      <3>4. CASE CloseWindow
        BY <1>0, <3>4 DEF CloseWindow, IsDev, store, ghosts
      <3> QED BY <1>2, <3>1, <3>2, <3>3, <3>4
    <2> QED BY <2>1, MoveFits
  <1>3. CASE HandOver
    BY <1>3, HandOverFits
  <1>4. CASE FlashStep
    BY <1>4, FlashStepFits
  <1>5. CASE FlashError
    BY <1>5, FlashErrorFits
  <1>6. CASE FlashDone
    <2>1. UNCHANGED <<nvs, recorded, cuts, alarms>> /\ dev.todo = <<>>
      BY <1>6 DEF FlashDone, store
    <2>2. CASE dev.phase = "clearing"
      <3>1. /\ IsDev(dev') /\ dev'.phase = "wifi" /\ dev'.todo = dev.todo
            /\ dev'.alarm = dev.alarm
        BY <1>0, <1>6, <2>2 DEF FlashDone, Enter, IsDev
      <3>2. BootTypeOK'
        BY <1>0, <2>1, <3>1 DEF BootTypeOK, Phases
      <3>3. ASSUME cuts' = 0 PROVE RecordFits' /\ CrashToldOnce'
        <4>1. ClearingPlan => NoRecord
          BY <2>1, ShortTails DEF ClearingPlan, ClearCrashOps
        <4>2. /\ CrashToldOnce
              /\ (dev.alarm = NoAlarm /\ NoRecord) \/ (dev.alarm = Latest /\ Untold /\ NoRecord)
          BY <2>1, <2>2, <3>3, <4>1 DEF BootInv, RecordFits
        <4> QED BY <2>1, <3>1, <4>2 DEF RecordFits, CrashToldOnce, Kept, NoRecord, Untold, Latest
      <3> QED BY <2>1, <3>1, <3>2, <3>3 DEF BootInv, NothingToWrite, OnlyConfigKeys
    <2>3. CASE dev.phase # "clearing"
      BY <1>0, <1>6, <2>1, <2>3, ResetFits DEF FlashDone, Reset
    <2> QED BY <2>2, <2>3
  <1>7. CASE Connect
    <2>1. UNCHANGED <<nvs, recorded, cuts>> /\ dev.phase = "connecting"
      BY <1>7 DEF Connect, store
    <2>2. CASE Connected
      BY <2>1, <2>2, ConnectedFits
    <2>3. CASE ConnectFails /\ Reset
      BY <1>0, <2>1, <2>3, ResetFits DEF ConnectFails, Reset
    <2>4. CASE ConnectFails /\ ~Reset
      <3>1. /\ IsDev(dev') /\ dev'.phase = dev.phase /\ dev'.todo = dev.todo
            /\ dev'.alarm = dev.alarm /\ alarms' = alarms
        BY <1>0, <2>4 DEF ConnectFails, IsDev
      <3> QED BY <2>1, <3>1, MoveFits
    <2> QED BY <1>7, <2>2, <2>3, <2>4 DEF Connect
  <1>8. CASE PollSerial
    <2>1. UNCHANGED <<nvs, recorded, cuts, alarms>> /\ dev.phase \in {"early", "window", "main"}
      BY <1>8 DEF PollSerial, Polls, store
    <2>2. \/ \E r : dev' = [dev EXCEPT !.rx = r]
          \/ \E cfg, nonce :
                dev' = [dev EXCEPT !.phase = "saving", !.todo = SaveOps(cfg, efuse, nonce)]
          \/ \E r : dev' = [dev EXCEPT !.rx = r, !.phase = IF @ = "window" THEN "connecting" ELSE @]
      BY <1>8 DEF PollSerial, Accept
    <2>3. CASE \E cfg, nonce :
                 dev' = [dev EXCEPT !.phase = "saving", !.todo = SaveOps(cfg, efuse, nonce)]
      BY <2>1, <2>3, SaveFits
    <2>4. CASE \/ \E r : dev' = [dev EXCEPT !.rx = r]
               \/ \E r : dev' = [dev EXCEPT !.rx = r,
                                            !.phase = IF @ = "window" THEN "connecting" ELSE @]
      <3>1. /\ IsDev(dev') /\ dev'.todo = dev.todo /\ dev'.alarm = dev.alarm
            /\ dev'.phase = dev.phase \/ (dev.phase = "window" /\ dev'.phase = "connecting")
        BY <1>0, <2>4 DEF IsDev
      <3> QED BY <2>1, <3>1, MoveFits
    <2> QED BY <2>2, <2>3, <2>4
  <1>9. CASE WatchdogBites \/ WifiFails
    BY <1>0, <1>9, ResetFits DEF WatchdogBites, WifiFails, Reset, store, ghosts
  <1>10. CASE Panic
    <2>1. PICK message \in Messages, heapLeft \in BOOLEAN :
            IF NvsPtrSet /\ heapLeft /\ nvs["magic"] = Absent
            THEN /\ dev' = [dev EXCEPT !.phase = "panicking", !.todo = WriteCrashOps(message)]
                 /\ recorded' = Append(recorded, Classify(message)) /\ cuts' = cuts
            ELSE /\ Reset /\ recorded' = recorded
                 /\ cuts' = IF dev.phase = "clearing" THEN cuts + 1 ELSE cuts
      BY <1>10 DEF Panic
    <2>2. UNCHANGED <<nvs, alarms>> /\ dev.phase # "panicking"
      BY <1>10 DEF Panic, store
    <2>3. CASE NvsPtrSet /\ heapLeft /\ nvs["magic"] = Absent
      BY <2>1, <2>2, <2>3, PanicFits DEF NvsPtrSet
    <2>4. CASE ~(NvsPtrSet /\ heapLeft /\ nvs["magic"] = Absent)
      BY <1>0, <2>1, <2>2, <2>4, ResetFits DEF Reset
    <2> QED BY <2>3, <2>4
  <1>11. CASE PowerLoss
    <2>1. /\ Reset /\ UNCHANGED <<nvs, recorded, alarms>>
          /\ cuts' = IF dev.phase \in {"clearing", "panicking"} THEN cuts + 1 ELSE cuts
      BY <1>11 DEF PowerLoss, store
    <2> QED BY <1>0, <2>1, ResetFits DEF Reset
  <1>12. CASE StartFlash
    <2>1. PICK reset \in BOOLEAN :
            /\ IF reset THEN Reset ELSE dev' = dev
            /\ cuts' = IF reset /\ dev.todo # <<>> THEN cuts + 1 ELSE cuts
      BY <1>12 DEF StartFlash
    <2>2. UNCHANGED <<nvs, recorded, alarms>>
      BY <1>12 DEF StartFlash, store
    <2>3. CASE reset
      BY <1>0, <2>1, <2>2, <2>3, ResetFits DEF Reset
    <2>4. CASE ~reset
      BY <1>0, <2>1, <2>2, <2>4, MoveFits
    <2> QED BY <2>3, <2>4
  <1>13. CASE Provision
    <2>1. /\ Reset /\ UNCHANGED <<nvs, recorded, alarms>>
          /\ cuts' = IF dev.todo # <<>> THEN cuts + 1 ELSE cuts
      BY <1>13 DEF Provision
    <2> QED BY <1>0, <2>1, ResetFits DEF Reset
  <1>14. CASE SendLine \/ EndFlash \/ NetworkDrops \/ NetworkReturns \/ UNCHANGED vars
    <2>1. UNCHANGED <<nvs, recorded, cuts, alarms, dev>>
      BY <1>14 DEF SendLine, EndFlash, NetworkDrops, NetworkReturns, vars, store, ghosts
    <2> QED BY <1>0, <2>1, MoveFits
  <1> QED BY <1>1, <1>2, <1>3, <1>4, <1>5, <1>6, <1>7, <1>8, <1>9, <1>10, <1>11, <1>12, <1>13,
             <1>14 DEF Next, Firmware, Person, Faults

-----------------------------------------------------------------------------
(* A crash is told at most once and as what it was, whatever comes between *)
(* the panic, the next boots, the clearing of the record and the alarm     *)
(* (write_crash_info, read_crash_info, clear_crash_info).                  *)
THEOREM CrashIsToldOnce == Spec => []CrashToldOnce
  <1>1. BootInv => CrashToldOnce
    BY DEF BootInv, CrashToldOnce
  <1> QED BY <1>1, InitBootFits, NextBootFits, PTL DEF Spec

-----------------------------------------------------------------------------
(* Passwords: what was encrypted and padded comes back.                   *)
Bytes == 0 .. 255

(* The least element of a set of numbers. *)
LEMMA LeastIsThere ==
    ASSUME NEW I \in SUBSET Nat, I # {}
    PROVE  \E i \in I : \A j \in I : i <= j
  <1>1. PICK i \in I : \A j \in I : ~(<<j, i>> \in OpToRel(<, Nat))
    BY NatLessThanWellFounded, WFMin
  <1>2. \A j \in I : j \in Nat
    OBVIOUS
  <1>3. \A j \in I : i <= j
    <2> SUFFICES ASSUME NEW j \in I PROVE i <= j
      OBVIOUS
    <2>1. ~(j < i)
      BY <1>1, <1>2 DEF OpToRel
    <2> QED BY <1>2, <2>1
  <1> QED BY <1>3

(* The element of a singleton, by which the model names a value once.      *)
LEMMA TakenOut == \A e : (CHOOSE c \in {e} : TRUE) = e
  OBVIOUS

(* Doing a step n times from a start: there is a function that says where  *)
(* one is after each.                                                      *)
LEMMA Iterated ==
    ASSUME NEW S, NEW start \in S, NEW N \in Nat, NEW step \in [1 .. N -> [S -> S]]
    PROVE  \E f \in [0 .. N -> S] :
              /\ f[0] = start /\ \A k \in 1 .. N : f[k] = step[k][f[k - 1]]
  <1> DEFINE Good(n, f) == f[0] = start /\ \A k \in 1 .. n : f[k] = step[k][f[k - 1]]
             Bad == {n \in 0 .. N : ~\E f \in [0 .. n -> S] : Good(n, f)}
  <1>1. SUFFICES ASSUME Bad # {} PROVE FALSE
    BY DEF Bad
  <1>0. Bad \in SUBSET Nat /\ \A n : n \in Bad <=> n \in 0 .. N /\ ~\E f \in [0 .. n -> S] : Good(n, f)
    OBVIOUS
  <1> HIDE DEF Bad
  <1>2. PICK n \in Bad : \A j \in Bad : n <= j
    BY <1>0, <1>1, LeastIsThere
  <1>3. n \in 0 .. N /\ ~\E f \in [0 .. n -> S] : Good(n, f)
    BY <1>0, <1>2
  <1>4. CASE n = 0
    <2>1. [i \in 0 .. 0 |-> start] \in [0 .. 0 -> S] /\ Good(0, [i \in 0 .. 0 |-> start])
      OBVIOUS
    <2> QED BY <1>3, <1>4, <2>1
  <1>5. CASE n # 0
    <2>1. n - 1 \in 0 .. N /\ n - 1 \notin Bad
      <3>1. n - 1 \in 0 .. N /\ ~(n <= n - 1)
        BY <1>3, <1>5
      <3> QED BY <1>2, <3>1
    <2>2. PICK f \in [0 .. n - 1 -> S] : Good(n - 1, f)
      BY <1>0, <2>1
    <2>3. n - 1 \in 0 .. n - 1 /\ n \in 1 .. N
      BY <1>3, <1>5
    <2>4. step[n][f[n - 1]] \in S
      BY <2>2, <2>3
    <2> DEFINE g == [i \in 0 .. n |-> IF i = n THEN step[n][f[n - 1]] ELSE f[i]]
    <2>5. g \in [0 .. n -> S]
      <3>1. \A i \in 0 .. n : i # n => i \in 0 .. n - 1
        BY <1>3
      <3> QED BY <2>2, <2>4, <3>1
    <2>6. g[0] = start
      BY <1>3, <1>5, <2>2
    <2>7. ASSUME NEW k \in 1 .. n PROVE g[k] = step[k][g[k - 1]]
      <3>1. k - 1 \in 0 .. n - 1 /\ k \in 0 .. n /\ k - 1 # n /\ k - 1 \in 0 .. n
        BY <1>3
      <3>2. g[k - 1] = f[k - 1]
        BY <3>1
      <3>3. CASE k = n
        BY <3>1, <3>2, <3>3
      <3>4. CASE k # n
        <4>1. k \in 1 .. n - 1
          BY <1>3, <3>4
        <4> QED BY <2>2, <3>1, <3>2, <3>4, <4>1
      <3> QED BY <3>3, <3>4
    <2> HIDE DEF g
    <2> QED BY <1>3, <2>5, <2>6, <2>7
  <1> QED BY <1>4, <1>5

(* The counter blocks. *)
Blocks == [1 .. BlockSize -> Bytes]
(* The next counter is a block too (increment_counter).                    *)
LEMMA CounterNext ==
    ASSUME NEW c \in Blocks PROVE IncrementCounter(c) \in Blocks
  <1> DEFINE Carry == CHOOSE Carry : Carry = [i \in 1 .. BlockSize + 1 |->
                         i = BlockSize + 1 \/ (Carry[i + 1] /\ c[i] = 255)]
  <1>1. IncrementCounter(c) =
          [i \in 1 .. BlockSize |-> IF Carry[i + 1] THEN (c[i] + 1) % 256 ELSE c[i]]
    BY DEF IncrementCounter
  <1> HIDE DEF Carry
  <1>2. \A i \in 1 .. BlockSize : c[i] \in Bytes /\ (c[i] + 1) % 256 \in Bytes
    <2> TAKE i \in 1 .. BlockSize
    <2>1. c[i] \in Bytes
      BY DEF Blocks
    <2> QED BY <2>1 DEF Bytes
  <1> QED BY <1>1, <1>2 DEF Blocks

CountsFrom(counter, n, f) ==
    f = [k \in 0 .. n |-> IF k = 0 THEN counter
                          ELSE CHOOSE c \in {IncrementCounter(b) : b \in {f[k - 1]}} : TRUE]
(* The counters of a buffer are blocks (ctr_crypt).                        *)
LEMMA CountersTyped ==
    ASSUME NEW counter \in Blocks, NEW n \in Nat
    PROVE  CounterBlocks(n, counter) \in [0 .. n -> Blocks]
  <1> DEFINE step == [k \in 1 .. n |-> [b \in Blocks |-> IncrementCounter(b)]]
  <1>1. step \in [1 .. n -> [Blocks -> Blocks]]
    BY CounterNext
  <1>2. PICK f \in [0 .. n -> Blocks] :
          f[0] = counter /\ \A k \in 1 .. n : f[k] = step[k][f[k - 1]]
    <2> HIDE DEF step
    <2> QED BY <1>1, Iterated
  <1>3. \A k \in 0 .. n : f[k] = IF k = 0 THEN counter
            ELSE CHOOSE c \in {IncrementCounter(b) : b \in {f[k - 1]}} : TRUE
    <2> SUFFICES ASSUME NEW k \in 0 .. n, k # 0
                 PROVE  f[k] = CHOOSE c \in {IncrementCounter(b) : b \in {f[k - 1]}} : TRUE
      BY <1>2
    <2>1. k \in 1 .. n /\ k - 1 \in 0 .. n
      OBVIOUS
    <2>2. f[k] = IncrementCounter(f[k - 1])
      BY <1>2, <2>1
    <2>3. {IncrementCounter(b) : b \in {f[k - 1]}} = {f[k]}
      BY <2>2
    <2> QED BY <2>3, TakenOut
  <1>4. CountsFrom(counter, n, f)
    BY <1>2, <1>3 DEF CountsFrom
  <1>5. CountsFrom(counter, n, CounterBlocks(n, counter))
    BY <1>4 DEF CountsFrom, CounterBlocks
  <1> DEFINE g == CounterBlocks(n, counter)
  <1> HIDE DEF g
  <1>6. /\ DOMAIN g = 0 .. n /\ g[0] = counter
        /\ \A k \in 1 .. n : g[k] = IncrementCounter(g[k - 1])
    BY <1>5, TakenOut DEF CountsFrom, g
  <1>7. \A k \in 0 .. n : g[k] \in Blocks
    <2> DEFINE Bad == {k \in 0 .. n : g[k] \notin Blocks}
    <2>1. SUFFICES ASSUME Bad # {} PROVE FALSE
      BY DEF Bad
    <2>0. Bad \in SUBSET Nat /\ \A k : k \in Bad <=> k \in 0 .. n /\ g[k] \notin Blocks
      OBVIOUS
    <2> HIDE DEF Bad
    <2>2. PICK k \in Bad : \A j \in Bad : k <= j
      BY <2>0, <2>1, LeastIsThere
    <2>3. k \in 0 .. n /\ k # 0
      BY <1>6, <2>0, <2>2
    <2>4. k - 1 \in 0 .. n /\ k \in 1 .. n /\ ~(k <= k - 1)
      BY <2>3
    <2>5. g[k - 1] \in Blocks
      BY <2>0, <2>2, <2>4
    <2> QED BY <1>6, <2>0, <2>2, <2>4, <2>5, CounterNext
  <1>8. g = [k \in 0 .. n |-> g[k]]
    BY <1>5 DEF CountsFrom, g
  <1> QED BY <1>7, <1>8 DEF g

(* XOR with the same byte twice changes nothing.                           *)
LEMMA Powers4 == 2 ^ 0 = 1 /\ 2 ^ 1 = 2 /\ 2 ^ 2 = 4 /\ 2 ^ 3 = 8
  OBVIOUS

(* A half of a byte is known by its four bits.                             *)
Xor1(a, b) == IF a # b THEN 1 ELSE 0
HasBits(x, a, b, c, d) ==
    /\ x \in 0 .. 15 /\ x = a + 2 * b + 4 * c + 8 * d
    /\ Bit(x, 0) = a /\ Bit(x, 1) = b /\ Bit(x, 2) = c /\ Bit(x, 3) = d
(* Half a byte has four bits.                                              *)
LEMMA BitsKnown ==
    ASSUME NEW x \in 0 .. 15
    PROVE  \E a, b, c, d \in 0 .. 1 : HasBits(x, a, b, c, d)
  <1> DEFINE a == x % 2
             b == (x \div 2) % 2
             c == (x \div 4) % 2
             d == (x \div 8) % 2
  <1>1. a \in 0 .. 1 /\ b \in 0 .. 1 /\ c \in 0 .. 1 /\ d \in 0 .. 1
    OBVIOUS
  <1>2. x = a + 2 * b + 4 * c + 8 * d
    OBVIOUS
  <1>3. x \div 1 = x
    OBVIOUS
  <1>4. Bit(x, 0) = a /\ Bit(x, 1) = b /\ Bit(x, 2) = c /\ Bit(x, 3) = d
    BY <1>3, Powers4 DEF Bit
  <1> HIDE DEF a, b, c, d
  <1> QED BY <1>1, <1>2, <1>4 DEF HasBits

(* The bits of a sum of powers of two are those that were added.           *)
LEMMA BitsOfSum ==
    ASSUME NEW a \in 0 .. 1, NEW b \in 0 .. 1, NEW c \in 0 .. 1, NEW d \in 0 .. 1,
           NEW x, x = a + 2 * b + 4 * c + 8 * d
    PROVE  HasBits(x, a, b, c, d)
  <1>1. x \in 0 .. 15
    OBVIOUS
  <1>2. x % 2 = a /\ (x \div 2) % 2 = b /\ (x \div 4) % 2 = c /\ (x \div 8) % 2 = d /\ x \div 1 = x
    OBVIOUS
  <1>3. Bit(x, 0) = a /\ Bit(x, 1) = b /\ Bit(x, 2) = c /\ Bit(x, 3) = d
    BY <1>2, Powers4 DEF Bit
  <1> QED BY <1>1, <1>3 DEF HasBits

(* The table of halves combines bit by bit (^= in ctr_crypt).              *)
LEMMA XorOfBits ==
    ASSUME NEW x, NEW y,
           NEW a \in 0 .. 1, NEW b \in 0 .. 1, NEW c \in 0 .. 1, NEW d \in 0 .. 1,
           NEW p \in 0 .. 1, NEW q \in 0 .. 1, NEW r \in 0 .. 1, NEW s \in 0 .. 1,
           HasBits(x, a, b, c, d), HasBits(y, p, q, r, s)
    PROVE  HasBits(XorHalf[x][y], Xor1(a, p), Xor1(b, q), Xor1(c, r), Xor1(d, s))
  <1> DEFINE z == XorHalf[x][y]
             e == Xor1(a, p)
             f == Xor1(b, q)
             g == Xor1(c, r)
             h == Xor1(d, s)
  <1>1. e \in 0 .. 1 /\ f \in 0 .. 1 /\ g \in 0 .. 1 /\ h \in 0 .. 1
    BY DEF Xor1
  <1>2. z = Differ(x, y, 0) + Differ(x, y, 1) + Differ(x, y, 2) + Differ(x, y, 3)
    <2>1. x \in 0 .. 15 /\ y \in 0 .. 15
      BY DEF HasBits
    <2> QED BY <2>1 DEF XorHalf
  <1>3. /\ Differ(x, y, 0) = e /\ Differ(x, y, 1) = 2 * f
        /\ Differ(x, y, 2) = 4 * g /\ Differ(x, y, 3) = 8 * h
    BY Powers4 DEF Xor1, Differ, HasBits
  <1> HIDE DEF e, f, g, h, z
  <1>4. z = e + 2 * f + 4 * g + 8 * h
    BY <1>2, <1>3
  <1>5. HasBits(z, e, f, g, h)
    BY <1>1, <1>4, BitsOfSum
  <1> QED BY <1>5 DEF e, f, g, h, z

(* Combining a half twice with the same half gives it back.                *)
LEMMA XorHalfTwice ==
    ASSUME NEW x \in 0 .. 15, NEW y \in 0 .. 15
    PROVE  XorHalf[x][y] \in 0 .. 15 /\ XorHalf[XorHalf[x][y]][y] = x
  <1>1. PICK a, b, c, d \in 0 .. 1 : HasBits(x, a, b, c, d)
    BY BitsKnown
  <1>2. PICK p, q, r, s \in 0 .. 1 : HasBits(y, p, q, r, s)
    BY BitsKnown
  <1> DEFINE e == Xor1(a, p)
             f == Xor1(b, q)
             g == Xor1(c, r)
             h == Xor1(d, s)
             z == XorHalf[x][y]
  <1>3. e \in 0 .. 1 /\ f \in 0 .. 1 /\ g \in 0 .. 1 /\ h \in 0 .. 1
    BY DEF Xor1
  <1>4. Xor1(e, p) = a /\ Xor1(f, q) = b /\ Xor1(g, r) = c /\ Xor1(h, s) = d
    BY DEF Xor1
  <1>5. HasBits(z, e, f, g, h)
    BY <1>1, <1>2, XorOfBits
  <1> HIDE DEF e, f, g, h, z
  <1>6. HasBits(XorHalf[z][y], Xor1(e, p), Xor1(f, q), Xor1(g, r), Xor1(h, s))
    BY <1>2, <1>3, <1>5, XorOfBits
  <1> QED BY <1>1, <1>4, <1>5, <1>6 DEF HasBits, z

(* A byte is its two halves.                                               *)
LEMMA Halves ==
    ASSUME NEW x \in Bytes
    PROVE  /\ x \div 16 \in 0 .. 15 /\ x % 16 \in 0 .. 15
           /\ x = 16 * (x \div 16) + (x % 16)
  BY DEF Bytes

(* Two halves are a byte, and its halves are these two.                    *)
LEMMA ByteOfHalves ==
    ASSUME NEW h \in 0 .. 15, NEW l \in 0 .. 15
    PROVE  /\ 16 * h + l \in Bytes /\ (16 * h + l) \div 16 = h /\ (16 * h + l) % 16 = l
  BY DEF Bytes

(* Combining a byte twice with the same byte gives it back (^= in          *)
(* ctr_crypt).                                                             *)
LEMMA XorTwice ==
    ASSUME NEW x \in Bytes, NEW y \in Bytes
    PROVE  XorByte(x, y) \in Bytes /\ XorByte(XorByte(x, y), y) = x
  <1> DEFINE h == XorHalf[x \div 16][y \div 16]
             l == XorHalf[x % 16][y % 16]
  <1>1. /\ x \div 16 \in 0 .. 15 /\ x % 16 \in 0 .. 15 /\ y \div 16 \in 0 .. 15 /\ y % 16 \in 0 .. 15
        /\ x = 16 * (x \div 16) + (x % 16)
    BY Halves
  <1>2. h \in 0 .. 15 /\ XorHalf[h][y \div 16] = x \div 16
    BY <1>1, XorHalfTwice
  <1>3. l \in 0 .. 15 /\ XorHalf[l][y % 16] = x % 16
    BY <1>1, XorHalfTwice
  <1>4. XorByte(x, y) = 16 * h + l
    BY DEF XorByte
  <1> HIDE DEF h, l
  <1>5. XorByte(x, y) \in Bytes /\ XorByte(x, y) \div 16 = h /\ XorByte(x, y) % 16 = l
    <2>1. h \in 0 .. 15 /\ l \in 0 .. 15
      BY <1>2, <1>3
    <2>2. 16 * h + l \in Bytes /\ (16 * h + l) \div 16 = h /\ (16 * h + l) % 16 = l
      BY <2>1, ByteOfHalves, Zenon
    <2> QED BY <1>4, <2>2
  <1>6. XorByte(XorByte(x, y), y) = 16 * XorHalf[h][y \div 16] + XorHalf[l][y % 16]
    BY <1>5 DEF XorByte
  <1> QED BY <1>1, <1>2, <1>3, <1>5, <1>6

(* Counter mode: what a byte is encrypted with depends on its place only,  *)
(* so encrypting twice gives back what was there.                          *)
KeyFits(key) == key \in Seq(Bytes) /\ Len(key) > 0
(* The cipher makes bytes, for every key and block.                        *)
LEMMA AesTyped ==
    ASSUME NEW key, KeyFits(key), NEW c \in Blocks, NEW i \in 1 .. BlockSize
    PROVE  AesBlock(key, c)[i] \in Bytes
  <1> DEFINE v == key[1 + (i % Len(key))] + 31 * c[i] + 7 * c[NonceSize] + c[BlockSize]
  <1>1. BlockSize \in Nat /\ NonceSize \in 1 .. BlockSize /\ BlockSize \in 1 .. BlockSize
    BY BlockAssumption
  <1>2. 1 + (i % Len(key)) \in 1 .. Len(key)
    BY LenProperties DEF KeyFits
  <1>3. key[1 + (i % Len(key))] \in Bytes
    BY <1>2, ElementOfSeq DEF KeyFits
  <1>4. c[i] \in Bytes /\ c[NonceSize] \in Bytes /\ c[BlockSize] \in Bytes
    BY <1>1 DEF Blocks
  <1>5. v \in Int
    <2>1. \A p, q, r, t \in Bytes : p + 31 * q + 7 * r + t \in Int
      BY DEF Bytes
    <2> QED BY <1>3, <1>4, <2>1
  <1>6. AesBlock(key, c)[i] = v % 256
    BY DEF AesBlock
  <1> HIDE DEF v
  <1>7. v % 256 \in Bytes
    BY <1>5 DEF Bytes
  <1> QED BY <1>6, <1>7

(* The byte that is mixed into place i of a text of n bytes. *)
Mask(n, key, counter, i) ==
    AesBlock(key, CounterBlocks(n \div BlockSize, counter)[(i - 1) \div BlockSize])
        [1 + ((i - 1) % BlockSize)]

(* The block a place belongs to, and the place within the block            *)
(* (chunks_exact_mut in ctr_crypt).                                        *)
LEMMA Quotients ==
    ASSUME NEW n \in Nat, NEW b \in Nat \ {0}, NEW i \in 1 .. n
    PROVE  /\ n \div b \in Nat /\ (i - 1) \div b \in 0 .. n \div b
           /\ 1 + ((i - 1) % b) \in 1 .. b
  <1> DEFINE q == n \div b
             r == (i - 1) \div b
  <1>1. q \in Int /\ b * q <= n /\ n < b * q + b
    OBVIOUS
  <1>2. r \in Int /\ b * r <= i - 1 /\ i - 1 < b * r + b
    OBVIOUS
  <1>3. (i - 1) % b \in 0 .. b - 1
    OBVIOUS
  <1> HIDE DEF q, r
  <1>4. r >= 0 /\ r <= q
    <2>1. ASSUME r < 0 PROVE FALSE
      <3>1. r + 1 <= 0
        BY <1>2, <2>1
      <3>2. b * (r + 1) <= 0
        BY <1>2, <3>1
      <3>3. b * (r + 1) = b * r + b
        BY <1>2
      <3> QED BY <1>2, <3>2, <3>3
    <2>2. ASSUME q < r PROVE FALSE
      <3>1. q + 1 <= r
        BY <1>1, <1>2, <2>2
      <3>2. b * (q + 1) <= b * r
        BY <1>1, <1>2, <3>1
      <3>3. b * (q + 1) = b * q + b
        BY <1>1
      <3> QED BY <1>1, <1>2, <3>2, <3>3
    <2> QED BY <1>1, <1>2, <2>1, <2>2
  <1>5. q >= 0
    BY <1>1, <1>2, <1>4
  <1> QED BY <1>1, <1>2, <1>3, <1>4, <1>5 DEF q, r

(* What is mixed in are bytes.                                             *)
LEMMA MaskTyped ==
    ASSUME NEW n \in Nat, NEW key, KeyFits(key), NEW counter \in Blocks, NEW i \in 1 .. n
    PROVE  Mask(n, key, counter, i) \in Bytes
  <1>1. BlockSize \in Nat \ {0}
    BY BlockAssumption
  <1>2. /\ n \div BlockSize \in Nat /\ (i - 1) \div BlockSize \in 0 .. n \div BlockSize
        /\ 1 + ((i - 1) % BlockSize) \in 1 .. BlockSize
    BY <1>1, Quotients
  <1>3. CounterBlocks(n \div BlockSize, counter)[(i - 1) \div BlockSize] \in Blocks
    BY <1>2, CountersTyped
  <1> QED BY <1>2, <1>3, AesTyped DEF Mask

(* Every byte is mixed with the mask of its place (ctr_crypt).             *)
LEMMA CtrMasks ==
    ASSUME NEW buf \in Seq(Bytes), NEW key, KeyFits(key), NEW counter \in Blocks
    PROVE  LET out == CtrCrypt(buf, key, counter)
           IN  /\ out \in Seq(Bytes) /\ Len(out) = Len(buf)
               /\ \A i \in 1 .. Len(buf) :
                     out[i] = XorByte(buf[i], Mask(Len(buf), key, counter, i))
  <1> DEFINE n == Len(buf)
             e(i) == XorByte(buf[i], Mask(n, key, counter, i))
             out == CtrCrypt(buf, key, counter)
  <1>1. out = [i \in 1 .. n |-> e(i)]
    BY DEF CtrCrypt, Mask
  <1>2. n \in Nat
    OBVIOUS
  <1>3. \A i \in 1 .. n : e(i) \in Bytes
    <2> TAKE i \in 1 .. n
    <2>1. buf[i] \in Bytes
      BY ElementOfSeq
    <2> QED BY <1>2, <2>1, MaskTyped, XorTwice
  <1> HIDE DEF e, n, out
  <1>4. out \in Seq(Bytes) /\ Len(out) = n
    BY <1>1, <1>2, <1>3
  <1>5. \A i \in 1 .. n : out[i] = e(i)
    BY <1>1
  <1> QED BY <1>4, <1>5 DEF e, n, out

(* Decrypting is encrypting once more (ctr_crypt, encrypt, maybe_decrypt). *)
LEMMA CtrTwice ==
    ASSUME NEW buf \in Seq(Bytes), NEW key, KeyFits(key), NEW counter \in Blocks
    PROVE  CtrCrypt(CtrCrypt(buf, key, counter), key, counter) = buf
  <1> DEFINE once == CtrCrypt(buf, key, counter)
             twice == CtrCrypt(once, key, counter)
  <1>1. /\ once \in Seq(Bytes) /\ Len(once) = Len(buf)
        /\ \A i \in 1 .. Len(buf) : once[i] = XorByte(buf[i], Mask(Len(buf), key, counter, i))
    BY CtrMasks
  <1> HIDE DEF once
  <1>2. /\ twice \in Seq(Bytes) /\ Len(twice) = Len(once)
        /\ \A i \in 1 .. Len(once) : twice[i] = XorByte(once[i], Mask(Len(once), key, counter, i))
    BY <1>1, CtrMasks
  <1> HIDE DEF twice
  <1>3. ASSUME NEW i \in 1 .. Len(buf) PROVE twice[i] = buf[i]
    <2>1. buf[i] \in Bytes /\ Len(buf) \in Nat
      BY ElementOfSeq
    <2>2. Mask(Len(buf), key, counter, i) \in Bytes
      BY <2>1, MaskTyped
    <2>3. twice[i] = XorByte(once[i], Mask(Len(buf), key, counter, i))
      BY <1>1, <1>2
    <2> QED BY <1>1, <2>1, <2>2, <2>3, XorTwice
  <1>4. twice = buf
    BY <1>1, <1>2, <1>3, SeqEqual
  <1> QED BY <1>4 DEF once, twice

(* Padding fills whole blocks and can be told from the text.               *)
LEMMA Multiples ==
    ASSUME NEW b \in Nat \ {0}, NEW m \in Nat
    PROVE  /\ b - (m % b) \in 1 .. b
           /\ (m + (b - (m % b))) % b = 0 /\ b <= m + (b - (m % b))
  <1> DEFINE q == m \div b
             r == m % b
             t == m + (b - r)
             d == t \div b
  <1>1. q \in Int /\ r \in 0 .. b - 1 /\ m = b * q + r
    OBVIOUS
  <1>2. t \in Int /\ t = b * q + b
    BY <1>1
  <1>3. d \in Int /\ t % b \in 0 .. b - 1 /\ t = b * d + (t % b)
    BY <1>1
  <1> HIDE DEF q, r, d, t
  <1>4. d = q + 1
    <2>1. ASSUME d < q + 1 PROVE FALSE
      <3>1. b * (d + 1) <= b * (q + 1)
        BY <1>1, <1>3, <2>1
      <3>2. b * (d + 1) = b * d + b /\ b * (q + 1) = b * q + b
        BY <1>1, <1>3
      <3> QED BY <1>1, <1>2, <1>3, <3>1, <3>2
    <2>2. ASSUME q + 1 < d PROVE FALSE
      <3>1. b * (q + 2) <= b * d
        BY <1>1, <1>3, <2>2
      <3>2. b * (q + 2) = b * q + 2 * b
        BY <1>1
      <3> QED BY <1>1, <1>2, <1>3, <3>1, <3>2
    <2> QED BY <1>1, <1>3, <2>1, <2>2
  <1>5. b * d = b * q + b
    BY <1>1, <1>4
  <1>6. t % b = 0
    BY <1>1, <1>2, <1>3, <1>5
  <1>7. b <= t
    BY <1>1, <1>2 DEF t
  <1> QED BY <1>1, <1>6, <1>7 DEF t, r

Plain == 0 .. 127
(* What was padded has whole blocks, and tells where the text ends         *)
(* (encrypt, maybe_decrypt).                                               *)
LEMMA PaddingTold ==
    ASSUME NEW text \in Seq(Plain)
    PROVE  /\ Padded(text) \in Seq(Bytes)
           /\ Len(Padded(text)) % BlockSize = 0 /\ BlockSize <= Len(Padded(text))
           /\ Unpadded(Padded(text)) = text
  <1> DEFINE m == Len(text)
             pad == BlockSize - (m % BlockSize)
             fill == [i \in 1 .. pad |-> pad]
             buf == text \o fill
  <1>1. BlockSize \in Nat \ {0} /\ BlockSize < 256 /\ m \in Nat
    BY BlockAssumption
  <1>2. pad \in 1 .. BlockSize /\ (m + pad) % BlockSize = 0 /\ BlockSize <= m + pad
    BY <1>1, Multiples
  <1>3. Padded(text) = buf
    BY DEF Padded
  <1> HIDE DEF pad
  <1>4. pad \in Bytes /\ pad \in Nat
    BY <1>1, <1>2 DEF Bytes
  <1>5. fill \in Seq(Bytes) /\ Len(fill) = pad /\ \A i \in 1 .. pad : fill[i] = pad
    BY <1>4
  <1> HIDE DEF fill
  <1>6. text \in Seq(Bytes)
    BY SeqMonotonic DEF Plain, Bytes
  <1>7. /\ buf \in Seq(Bytes) /\ Len(buf) = m + pad
        /\ \A i \in 1 .. m + pad : buf[i] = IF i <= m THEN text[i] ELSE fill[i - m]
    BY <1>5, <1>6, ConcatProperties
  <1> HIDE DEF buf
  <1>8. buf[Len(buf)] = pad
    <2>1. m + pad \in 1 .. m + pad /\ ~(m + pad <= m) /\ (m + pad) - m \in 1 .. pad
      BY <1>1, <1>2
    <2> QED BY <1>5, <1>7, <2>1
  <1>9. \A i \in Len(buf) - pad + 1 .. Len(buf) : buf[i] = pad
    <2> TAKE i \in Len(buf) - pad + 1 .. Len(buf)
    <2>1. i \in 1 .. m + pad /\ ~(i <= m) /\ i - m \in 1 .. pad
      BY <1>1, <1>2, <1>7
    <2> QED BY <1>5, <1>7, <2>1
  <1>10. Unpadded(buf) = SubSeq(buf, 1, m)
    <2>1. pad > 0 /\ pad <= BlockSize /\ Len(buf) - pad = m
      BY <1>1, <1>2, <1>7
    <2> QED BY <1>8, <1>9, <2>1 DEF Unpadded
  <1>11. SubSeq(buf, 1, m) = text
    <2>1. \A i \in 1 .. m : buf[i] = text[i] /\ buf[i] \in Bytes
      <3> TAKE i \in 1 .. m
      <3>1. i \in 1 .. m + pad /\ i <= m
        BY <1>1, <1>2
      <3> QED BY <1>6, <1>7, <3>1, ElementOfSeq
    <2>2. /\ SubSeq(buf, 1, m) \in Seq(Bytes) /\ Len(SubSeq(buf, 1, m)) = m
          /\ \A i \in 1 .. m : SubSeq(buf, 1, m)[i] = buf[i]
      BY <1>1, <2>1
    <2> QED BY <1>6, <2>1, <2>2, SeqEqual
  <1> QED BY <1>2, <1>3, <1>7, <1>10, <1>11

(* A password that is encrypted is not what was typed, is never taken for  *)
(* a missing key, and comes back under the same key (AppConfig::load and   *)
(* save).                                                                  *)
Fuses == {e \in Seq(Bytes) : Len(e) = 4}
NonceFits(nonce) == nonce \in Seq(Bytes) /\ Len(nonce) = NonceSize
(* The key that is read from the eFuse block consists of bytes (read_key). *)
LEMMA KeyOfFuses ==
    ASSUME NEW fuse \in Fuses PROVE KeyFits(ReadKey(fuse))
  <1> DEFINE t == <<165, 60, 150, 240>>
             e(i) == XorByte(fuse[i], t[i])
  <1>1. fuse \in Seq(Bytes) /\ Len(fuse) = 4
    BY DEF Fuses
  <1>2. t \in Seq(Bytes) /\ Len(t) = 4
    BY DEF Bytes
  <1>3. ReadKey(fuse) = [i \in 1 .. Len(fuse) |-> e(i)]
    BY DEF ReadKey, XorBytes
  <1> HIDE DEF t
  <1>4. \A i \in 1 .. Len(fuse) : e(i) \in Bytes
    <2> TAKE i \in 1 .. Len(fuse)
    <2>1. fuse[i] \in Bytes
      BY <1>1, ElementOfSeq
    <2>2. t[i] \in Bytes
      BY <1>1, <1>2, ElementOfSeq
    <2> QED BY <2>1, <2>2, XorTwice
  <1> HIDE DEF e
  <1>5. ReadKey(fuse) \in Seq(Bytes) /\ Len(ReadKey(fuse)) = 4
    BY <1>1, <1>3, <1>4
  <1> QED BY <1>5 DEF KeyFits

(* The first counter is a block: the nonce, then zeros (encrypt).          *)
LEMMA CounterOfNonce ==
    ASSUME NEW nonce, NonceFits(nonce) PROVE Counter0(nonce) \in Blocks
  <1> DEFINE rest == [i \in 1 .. BlockSize - NonceSize |-> 0]
             c == nonce \o rest
  <1>1. nonce \in Seq(Bytes) /\ Len(nonce) = NonceSize
    BY DEF NonceFits
  <1>2. /\ BlockSize \in Nat /\ NonceSize \in Nat /\ BlockSize - NonceSize \in Nat
        /\ NonceSize + (BlockSize - NonceSize) = BlockSize
    BY BlockAssumption
  <1>3. rest \in Seq(Bytes) /\ Len(rest) = BlockSize - NonceSize
    <2>1. 0 \in Bytes
      BY DEF Bytes
    <2> QED BY <1>2, <2>1
  <1> HIDE DEF rest
  <1>4. c \in Seq(Bytes) /\ Len(c) = NonceSize + (BlockSize - NonceSize)
    BY <1>1, <1>3, ConcatProperties
  <1> HIDE DEF c
  <1>5. c \in [1 .. BlockSize -> Bytes]
    BY <1>2, <1>4, LenProperties
  <1> QED BY <1>5 DEF c, rest, Counter0, Blocks

(* The parts of what is stored: prefix, nonce and cipher text. *)
LEMMA PartsOfStored ==
    ASSUME NEW nonce, NonceFits(nonce), NEW cipher \in Seq(Bytes)
    PROVE  LET value == <<EncPrefix>> \o nonce \o cipher
           IN  /\ value \in Seq(Int) /\ Len(value) = 1 + NonceSize + Len(cipher)
               /\ value # <<>> /\ value[1] = EncPrefix
               /\ SubSeq(value, 2, NonceSize + 1) = nonce
               /\ SubSeq(value, NonceSize + 2, Len(value)) = cipher
  <1> DEFINE n == NonceSize
             c == Len(cipher)
             front == <<EncPrefix>> \o nonce
             value == front \o cipher
  <1>1. n \in Nat /\ c \in Nat /\ nonce \in Seq(Bytes) /\ Len(nonce) = n
    BY BlockAssumption DEF NonceFits
  <1>2. nonce \in Seq(Int) /\ cipher \in Seq(Int) /\ <<EncPrefix>> \in Seq(Int) /\ Len(<<EncPrefix>>) = 1
    <2>1. Bytes \subseteq Int /\ EncPrefix \in Int
      BY DEF Bytes, EncPrefix
    <2>2. nonce \in Seq(Int)
      BY <1>1, <2>1, SeqMonotonic
    <2>3. cipher \in Seq(Int)
      BY <2>1, SeqMonotonic
    <2>4. \A e \in Int : <<e>> \in Seq(Int) /\ Len(<<e>>) = 1
      OBVIOUS
    <2> QED BY <2>1, <2>2, <2>3, <2>4
  <1>3. /\ front \in Seq(Int) /\ Len(front) = 1 + n
        /\ \A i \in 1 .. 1 + n : front[i] = IF i <= 1 THEN <<EncPrefix>>[i] ELSE nonce[i - 1]
    BY <1>1, <1>2, ConcatProperties
  <1> HIDE DEF front, n, c
  <1>4. /\ value \in Seq(Int) /\ Len(value) = 1 + n + c
        /\ \A i \in 1 .. 1 + n + c :
              value[i] = IF i <= 1 + n THEN front[i] ELSE cipher[i - (1 + n)]
    <2>1. /\ value \in Seq(Int) /\ Len(value) = Len(front) + Len(cipher)
          /\ \A i \in 1 .. Len(front) + Len(cipher) :
              value[i] = IF i <= Len(front) THEN front[i] ELSE cipher[i - Len(front)]
      BY <1>2, <1>3, ConcatProperties
    <2> HIDE DEF value
    <2> QED BY <1>3, <2>1 DEF c
  <1> HIDE DEF value
  <1>5. value # <<>> /\ value[1] = EncPrefix
    <2>1. 1 \in 1 .. 1 + n + c /\ 1 <= 1 + n /\ 1 \in 1 .. 1 + n /\ 1 + n + c # 0
      BY <1>1
    <2> QED BY <1>3, <1>4, <2>1
  <1>6. SubSeq(value, 2, n + 1) = nonce
    <2> DEFINE s == SubSeq(value, 2, n + 1)
    <2>1. \A i \in 2 .. n + 1 : i \in 1 .. Len(value)
      BY <1>1, <1>4
    <2>2. \A i \in 2 .. n + 1 : value[i] \in Int
      BY <1>4, <2>1, ElementOfSeq
    <2>3. /\ s \in Seq(Int) /\ Len(s) = n
          /\ \A i \in 1 .. (n + 1) - 2 + 1 : s[i] = value[2 + i - 1]
      <3>1. 2 \in Int /\ n + 1 \in Int /\ (IF 2 <= n + 1 THEN (n + 1) - 2 + 1 ELSE 0) = n
        BY <1>1
      <3>2. /\ s \in Seq(Int) /\ Len(s) = IF 2 <= n + 1 THEN (n + 1) - 2 + 1 ELSE 0
            /\ \A i \in 1 .. (n + 1) - 2 + 1 : s[i] = value[2 + i - 1]
        <4> DEFINE lo == 2
                   hi == n + 1
        <4>1. lo \in Int /\ hi \in Int /\ \A i \in lo .. hi : value[i] \in Int
          BY <2>2, <3>1
        <4> HIDE DEF lo, hi
        <4>2. /\ SubSeq(value, lo, hi) \in Seq(Int)
              /\ Len(SubSeq(value, lo, hi)) = IF lo <= hi THEN hi - lo + 1 ELSE 0
              /\ \A i \in 1 .. hi - lo + 1 : SubSeq(value, lo, hi)[i] = value[lo + i - 1]
          BY <4>1, SubSeqProperties
        <4> QED BY <4>2 DEF lo, hi
      <3> HIDE DEF s
      <3> QED BY <3>1, <3>2
    <2> HIDE DEF s
    <2>4. \A i \in 1 .. n : s[i] = nonce[i]
      <3> TAKE i \in 1 .. n
      <3>1. /\ i \in 1 .. (n + 1) - 2 + 1 /\ 2 + i - 1 = i + 1 /\ i + 1 \in 1 .. 1 + n + c
            /\ i + 1 <= 1 + n /\ i + 1 \in 1 .. 1 + n /\ ~(i + 1 <= 1) /\ (i + 1) - 1 = i
        BY <1>1
      <3> QED BY <1>3, <1>4, <2>3, <3>1
    <2>5. s = nonce
      BY <1>1, <1>2, <2>3, <2>4, SeqEqual
    <2> QED BY <2>5 DEF s
  <1>7. SubSeq(value, n + 2, Len(value)) = cipher
    <2> DEFINE s == SubSeq(value, n + 2, Len(value))
    <2>1. \A i \in n + 2 .. Len(value) : i \in 1 .. Len(value)
      BY <1>1, <1>4
    <2>2. \A i \in n + 2 .. Len(value) : value[i] \in Int
      BY <1>4, <2>1, ElementOfSeq
    <2>3. /\ s \in Seq(Int) /\ Len(s) = c
          /\ \A i \in 1 .. Len(value) - (n + 2) + 1 : s[i] = value[(n + 2) + i - 1]
      <3>1. /\ n + 2 \in Int /\ Len(value) \in Int
            /\ (IF n + 2 <= Len(value) THEN Len(value) - (n + 2) + 1 ELSE 0) = c
        BY <1>1, <1>4
      <3> QED BY <2>2, <3>1, SubSeqProperties
    <2> HIDE DEF s
    <2>4. \A i \in 1 .. c : s[i] = cipher[i]
      <3> TAKE i \in 1 .. c
      <3>1. /\ i \in 1 .. Len(value) - (n + 2) + 1
            /\ (n + 2) + i - 1 \in 1 .. 1 + n + c
            /\ ~((n + 2) + i - 1 <= 1 + n) /\ ((n + 2) + i - 1) - (1 + n) = i
        BY <1>1, <1>4
      <3> QED BY <1>4, <2>3, <3>1
    <2>5. s = cipher
      BY <1>2, <2>3, <2>4, SeqEqual DEF c
    <2> QED BY <2>5 DEF s
  <1> QED BY <1>4, <1>5, <1>6, <1>7 DEF value, front, n, c

(* Whatever was encrypted under a key is decrypted under it to what it     *)
(* was, and is never taken for a key that is missing in flash (encrypt,    *)
(* maybe_decrypt, AppConfig::load).                                        *)
LEMMA EncryptedComesBack ==
    ASSUME NEW text \in Seq(Plain), NEW fuses \in Fuses, NEW nonce, NonceFits(nonce)
    PROVE  /\ MaybeDecrypt(Encrypt(text, fuses, nonce), fuses) = text
           /\ Encrypt(text, fuses, nonce) # <<-1>>
  <1>1. CASE text = <<>>
    <2>1. Encrypt(text, fuses, nonce) = <<>> /\ ~IsEncrypted(<<>>)
      BY <1>1 DEF Encrypt, IsEncrypted
    <2>2. <<>> # <<-1>>
      OBVIOUS
    <2> QED BY <1>1, <2>1, <2>2 DEF MaybeDecrypt
  <1>2. CASE text # <<>>
    <2> DEFINE key == ReadKey(fuses)
               counter == Counter0(nonce)
               padded == Padded(text)
               cipher == CtrCrypt(padded, key, counter)
               value == <<EncPrefix>> \o nonce \o cipher
    <2>1. KeyFits(key) /\ counter \in Blocks
      BY KeyOfFuses, CounterOfNonce
    <2>2. /\ padded \in Seq(Bytes) /\ Len(padded) % BlockSize = 0 /\ BlockSize <= Len(padded)
          /\ Unpadded(padded) = text
      BY PaddingTold
    <2>3. Encrypt(text, fuses, nonce) = value
      BY <1>2 DEF Encrypt
    <2> HIDE DEF padded, key, counter
    <2>4. cipher \in Seq(Bytes) /\ Len(cipher) = Len(padded) /\ CtrCrypt(cipher, key, counter) = padded
      BY <2>1, <2>2, CtrMasks, CtrTwice
    <2> HIDE DEF cipher
    <2>5. /\ value \in Seq(Int) /\ Len(value) = 1 + NonceSize + Len(cipher)
          /\ value # <<>> /\ value[1] = EncPrefix
          /\ SubSeq(value, 2, NonceSize + 1) = nonce
          /\ SubSeq(value, NonceSize + 2, Len(value)) = cipher
      BY <2>4, PartsOfStored
    <2> HIDE DEF value
    <2>6. IsUtf8(text)
      <3>1. \A i \in 1 .. Len(text) : text[i] \in Plain
        BY ElementOfSeq
      <3>2. \A x \in Plain : x < 128
        BY DEF Plain
      <3> HIDE DEF Plain
      <3> QED BY <3>1, <3>2 DEF IsUtf8
    <2>7. ~(~IsEncrypted(value) \/ Len(value) < 1 + NonceSize + BlockSize
              \/ Len(cipher) % BlockSize # 0)
      <3>1. IsEncrypted(value)
        BY <2>5 DEF IsEncrypted
      <3>2. NonceSize \in Nat /\ BlockSize \in Nat /\ Len(padded) \in Nat
        BY <2>2, BlockAssumption
      <3>3. Len(value) = 1 + NonceSize + Len(padded) /\ ~(Len(value) < 1 + NonceSize + BlockSize)
        BY <2>2, <2>4, <2>5, <3>2
      <3> QED BY <2>2, <2>4, <3>1, <3>3
    <2>8. MaybeDecrypt(value, fuses) =
            CHOOSE t \in {IF IsUtf8(Unpadded(b)) THEN Unpadded(b) ELSE value :
                             b \in {CtrCrypt(cipher, key, counter)}} : TRUE
      BY <2>5, <2>7 DEF MaybeDecrypt, key, counter
    <2>9. {IF IsUtf8(Unpadded(b)) THEN Unpadded(b) ELSE value : b \in {CtrCrypt(cipher, key, counter)}}
            = {text}
      BY <2>2, <2>4, <2>6
    <2>10. MaybeDecrypt(value, fuses) = text
      BY <2>8, <2>9, TakenOut
    <2>11. value # <<-1>>
      <3>1. <<-1>>[1] = -1
        OBVIOUS
      <3> QED BY <2>5, <3>1 DEF EncPrefix
    <2> QED BY <2>3, <2>10, <2>11
  <1> QED BY <1>1, <1>2

-----------------------------------------------------------------------------
(* The serial link: the lines of a configuration, as the receiver reads    *)
(* them.                                                                   *)
(* The places of two and of four sequences in their concatenation. *)
Joins(all, S, a, b) ==
    /\ all \in Seq(S) /\ Len(all) = Len(a) + Len(b)
    /\ \A i \in 1 .. Len(a) : all[i] = a[i]
    /\ \A i \in 1 .. Len(b) : all[Len(a) + i] = b[i]
(* Where the elements of two sequences are in their concatenation.         *)
LEMMA TwoParts ==
    ASSUME NEW S, NEW a \in Seq(S), NEW b \in Seq(S)
    PROVE  Joins(a \o b, S, a, b)
  <1> DEFINE n == Len(a)
             m == Len(b)
             all == a \o b
  <1>0. n \in Nat /\ m \in Nat
    OBVIOUS
  <1>1. /\ all \in Seq(S) /\ Len(all) = n + m
        /\ \A i \in 1 .. n + m : all[i] = IF i <= n THEN a[i] ELSE b[i - n]
    BY ConcatProperties
  <1> HIDE DEF n, m, all
  <1>2. \A i \in 1 .. n : i \in 1 .. n + m /\ i <= n
    BY <1>0
  <1>3. \A i \in 1 .. m : n + i \in 1 .. n + m /\ ~(n + i <= n) /\ (n + i) - n = i
    BY <1>0
  <1>4. \A i \in 1 .. n : all[i] = a[i]
    BY <1>1, <1>2
  <1>5. \A i \in 1 .. m : all[n + i] = b[i]
    BY <1>1, <1>3
  <1> QED BY <1>1, <1>4, <1>5 DEF n, m, all, Joins

JoinsFour(all, S, a, b, c, d) ==
    /\ all \in Seq(S) /\ Len(all) = Len(a) + Len(b) + Len(c) + Len(d)
    /\ \A i \in 1 .. Len(a) : all[i] = a[i]
    /\ \A i \in 1 .. Len(b) : all[Len(a) + i] = b[i]
    /\ \A i \in 1 .. Len(c) : all[Len(a) + Len(b) + i] = c[i]
    /\ \A i \in 1 .. Len(d) : all[Len(a) + Len(b) + Len(c) + i] = d[i]
(* Where the elements of four sequences are in their concatenation.        *)
LEMMA FourParts ==
    ASSUME NEW S, NEW a \in Seq(S), NEW b \in Seq(S), NEW c \in Seq(S), NEW d \in Seq(S)
    PROVE  JoinsFour(a \o b \o c \o d, S, a, b, c, d)
  <1> DEFINE all == a \o b \o c \o d ab == a \o b
             abc == ab \o c
             abcd == abc \o d
  <1>0. Len(a) \in Nat /\ Len(b) \in Nat /\ Len(c) \in Nat /\ Len(d) \in Nat
    OBVIOUS
  <1>1. Joins(ab, S, a, b)
    BY TwoParts
  <1>2. ab \in Seq(S)
    BY <1>1 DEF Joins
  <1>3. all = abcd
    OBVIOUS
  <1> HIDE DEF all, ab
  <1>4. Joins(abc, S, ab, c)
    BY <1>2, TwoParts
  <1>5. abc \in Seq(S)
    BY <1>4 DEF Joins
  <1> HIDE DEF abc
  <1>6. Joins(abcd, S, abc, d)
    BY <1>5, TwoParts
  <1> HIDE DEF abcd
  <1>7. \A i \in 1 .. Len(a) : all[i] = a[i]
    <2> TAKE i \in 1 .. Len(a)
    <2>1. i \in 1 .. Len(ab) /\ i \in 1 .. Len(abc)
      BY <1>0, <1>1, <1>4 DEF Joins
    <2> QED BY <1>1, <1>3, <1>4, <1>6, <2>1 DEF Joins
  <1>8. \A i \in 1 .. Len(b) : all[Len(a) + i] = b[i]
    <2> TAKE i \in 1 .. Len(b)
    <2>1. Len(a) + i \in 1 .. Len(ab) /\ Len(a) + i \in 1 .. Len(abc)
      BY <1>0, <1>1, <1>4 DEF Joins
    <2> QED BY <1>1, <1>3, <1>4, <1>6, <2>1 DEF Joins
  <1>9. \A i \in 1 .. Len(c) : all[Len(a) + Len(b) + i] = c[i]
    <2> TAKE i \in 1 .. Len(c)
    <2>1. Len(ab) + i \in 1 .. Len(abc)
      BY <1>0, <1>1, <1>4 DEF Joins
    <2> QED BY <1>1, <1>3, <1>4, <1>6, <2>1 DEF Joins
  <1>10. JoinsFour(all, S, a, b, c, d)
    BY <1>1, <1>3, <1>4, <1>6, <1>7, <1>8, <1>9 DEF Joins, JoinsFour
  <1> QED BY <1>10 DEF all

(* What config-flash sends of a configuration that is fit: a START, every  *)
(* pair that is not an empty credential, an END (config_flash::run).       *)
Sendable(cfg) ==
    /\ cfg = [k \in Keys |-> cfg[k]] /\ \A k \in Keys : cfg[k] \in Seq(Plain)
    /\ ValidPort(cfg["mqtt_port"])
Start == Line("START", <<>>)
End == Line("END", <<>>)
LinesOf(cfg) == {Start, End} \cup {PairLine(cfg, k) : k \in Keys}
(* The keys of a configuration (KEY_* in config.rs).                       *)
LEMMA KeysListed ==
    /\ Keys = {"wifi_ssid", "wifi_pass", "mqtt_host", "mqtt_port", "mqtt_user", "mqtt_pass",
               "device_id"}
    /\ Credentials = {"mqtt_user", "mqtt_pass"}
  BY DEF Keys, KeyOrder, Credentials
(* config-flash sends START, pairs of the configuration and END; a pair    *)
(* that it leaves out is an empty credential (run in config_flash.rs).     *)
LEMMA LinesSent ==
    ASSUME NEW cfg
    PROVE  LET lines == ConfigLines(cfg)
               n == Len(lines)
           IN  /\ lines \in Seq(LinesOf(cfg)) /\ n \in Nat /\ n >= 2
               /\ lines[1] = Start /\ lines[n] = End
               /\ \A i \in 2 .. n - 1 : \E k \in Keys : lines[i] = PairLine(cfg, k)
               /\ \A k \in Keys : \/ \E i \in 2 .. n - 1 : lines[i] = PairLine(cfg, k)
                                  \/ k \in Credentials /\ cfg[k] = <<>>
  <1> DEFINE P(k) == PairLine(cfg, k)
             a == <<Start, P("wifi_ssid"), P("wifi_pass"), P("mqtt_host"), P("mqtt_port")>>
             b == IfFilledIn(cfg, "mqtt_user")
             c == IfFilledIn(cfg, "mqtt_pass")
             d == <<P("device_id"), End>>
             S == LinesOf(cfg)
             lines == ConfigLines(cfg)
             n == Len(lines)
  <1>1. lines = a \o b \o c \o d
    BY DEF ConfigLines, Start, End
  <1>2. Start \in S /\ End \in S /\ \A k \in Keys : P(k) \in S
    BY DEF LinesOf
  <1>3. \/ b = <<>> /\ cfg["mqtt_user"] = <<>>
        \/ b = <<P("mqtt_user")>>
    BY DEF IfFilledIn
  <1>4. \/ c = <<>> /\ cfg["mqtt_pass"] = <<>>
        \/ c = <<P("mqtt_pass")>>
    BY DEF IfFilledIn
  <1> HIDE DEF P, b, c, S, lines
  <1>5. /\ a \in Seq(S) /\ Len(a) = 5 /\ a[1] = Start /\ a[2] = P("wifi_ssid")
        /\ a[3] = P("wifi_pass") /\ a[4] = P("mqtt_host") /\ a[5] = P("mqtt_port")
    BY <1>2, KeysListed
  <1>6. /\ b \in Seq(S)
        /\ \/ Len(b) = 0 /\ cfg["mqtt_user"] = <<>>
           \/ Len(b) = 1 /\ b[1] = P("mqtt_user")
    <2>1. P("mqtt_user") \in S
      BY <1>2, KeysListed
    <2>2. /\ <<P("mqtt_user")>> \in Seq(S) /\ Len(<<P("mqtt_user")>>) = 1
          /\ <<P("mqtt_user")>>[1] = P("mqtt_user")
      BY <2>1
    <2>3. <<>> \in Seq(S) /\ Len(<<>>) = 0
      OBVIOUS
    <2> QED BY <1>3, <2>2, <2>3
  <1>7. /\ c \in Seq(S)
        /\ \/ Len(c) = 0 /\ cfg["mqtt_pass"] = <<>>
           \/ Len(c) = 1 /\ c[1] = P("mqtt_pass")
    <2>1. P("mqtt_pass") \in S
      BY <1>2, KeysListed
    <2>2. /\ <<P("mqtt_pass")>> \in Seq(S) /\ Len(<<P("mqtt_pass")>>) = 1
          /\ <<P("mqtt_pass")>>[1] = P("mqtt_pass")
      BY <2>1
    <2>3. <<>> \in Seq(S) /\ Len(<<>>) = 0
      OBVIOUS
    <2> QED BY <1>4, <2>2, <2>3
  <1>8. d \in Seq(S) /\ Len(d) = 2 /\ d[1] = P("device_id") /\ d[2] = End
    BY <1>2, KeysListed
  <1> HIDE DEF a, d
  <1> DEFINE p == Len(b)
             q == Len(c)
  <1>0. p \in 0 .. 1 /\ q \in 0 .. 1
    BY <1>6, <1>7
  <1>9. /\ lines \in Seq(S) /\ n = 7 + p + q
        /\ \A i \in 1 .. 5 : lines[i] = a[i]
        /\ \A i \in 1 .. p : lines[5 + i] = b[i]
        /\ \A i \in 1 .. q : lines[5 + p + i] = c[i]
        /\ \A i \in 1 .. 2 : lines[5 + p + q + i] = d[i]
    <2>1. /\ lines \in Seq(S) /\ n = Len(a) + Len(b) + Len(c) + Len(d)
          /\ \A i \in 1 .. Len(a) : lines[i] = a[i]
          /\ \A i \in 1 .. Len(b) : lines[Len(a) + i] = b[i]
          /\ \A i \in 1 .. Len(c) : lines[Len(a) + Len(b) + i] = c[i]
          /\ \A i \in 1 .. Len(d) : lines[Len(a) + Len(b) + Len(c) + i] = d[i]
      <3>1. JoinsFour(lines, S, a, b, c, d)
        <4>1. JoinsFour(a \o b \o c \o d, S, a, b, c, d)
          BY <1>5, <1>6, <1>7, <1>8, FourParts
        <4> QED BY <1>1, <4>1
      <3> QED BY <3>1 DEF JoinsFour
    <2> HIDE DEF n
    <2> QED BY <1>0, <1>5, <1>8, <2>1
  <1>12. \/ cfg["mqtt_user"] = <<>> /\ p = 0
         \/ p = 1 /\ lines[6] = P("mqtt_user")
    <2>1. CASE p = 1
      <3>1. 1 \in 1 .. p /\ 5 + 1 = 6
        BY <2>1
      <3> QED BY <1>6, <1>9, <2>1, <3>1
    <2> QED BY <1>6, <2>1
  <1>13. \/ cfg["mqtt_pass"] = <<>> /\ q = 0
         \/ q = 1 /\ lines[6 + p] = P("mqtt_pass")
    <2>1. CASE q = 1
      <3>1. 1 \in 1 .. q /\ 5 + p + 1 = 6 + p
        BY <1>0, <2>1
      <3> QED BY <1>7, <1>9, <2>1, <3>1
    <2> QED BY <1>7, <2>1
  <1> HIDE DEF n, p, q
  <1>10. /\ lines[1] = Start /\ lines[2] = P("wifi_ssid") /\ lines[3] = P("wifi_pass")
         /\ lines[4] = P("mqtt_host") /\ lines[5] = P("mqtt_port")
    BY <1>5, <1>9
  <1>11. /\ n \in 7 .. 9 /\ lines[n - 1] = P("device_id") /\ lines[n] = End
    <2>1. n \in 7 .. 9 /\ 5 + p + q + 1 = n - 1 /\ 5 + p + q + 2 = n /\ 1 \in 1 .. 2 /\ 2 \in 1 .. 2
      BY <1>0, <1>9
    <2> QED BY <1>8, <1>9, <2>1
  <1>14. ASSUME NEW i \in 2 .. n - 1 PROVE \E k \in Keys : lines[i] = P(k)
    <2>1. i \in 2 .. 5 \/ (i = 6 /\ p = 1) \/ (i = 6 + p /\ q = 1) \/ i = n - 1
      BY <1>0, <1>9
    <2>2. CASE i \in 2 .. 5
      <3>1. i = 2 \/ i = 3 \/ i = 4 \/ i = 5
        BY <2>2
      <3> QED BY <1>10, <3>1, KeysListed
    <2>3. CASE i = 6 /\ p = 1
      BY <1>12, <2>3, KeysListed
    <2>4. CASE i = 6 + p /\ q = 1
      BY <1>13, <2>4, KeysListed
    <2>5. CASE i = n - 1
      BY <1>11, <2>5, KeysListed
    <2> QED BY <2>1, <2>2, <2>3, <2>4, <2>5
  <1>15. ASSUME NEW k \in Keys
         PROVE  \/ \E i \in 2 .. n - 1 : lines[i] = P(k)
                \/ k \in Credentials /\ cfg[k] = <<>>
    <2>1. /\ 2 \in 2 .. n - 1 /\ 3 \in 2 .. n - 1 /\ 4 \in 2 .. n - 1 /\ 5 \in 2 .. n - 1
          /\ n - 1 \in 2 .. n - 1
      BY <1>11
    <2>2. (p = 1 => 6 \in 2 .. n - 1) /\ (q = 1 => 6 + p \in 2 .. n - 1)
      BY <1>0, <1>9
    <2>3. CASE k = "mqtt_user"
      BY <1>12, <2>2, <2>3, KeysListed
    <2>4. CASE k = "mqtt_pass"
      BY <1>13, <2>2, <2>4, KeysListed
    <2>5. CASE k \in {"wifi_ssid", "wifi_pass", "mqtt_host", "mqtt_port", "device_id"}
      BY <1>10, <1>11, <2>1, <2>5
    <2> QED BY <2>3, <2>4, <2>5, KeysListed
  <1> QED BY <1>9, <1>10, <1>11, <1>14, <1>15 DEF P, S, lines, n

(* The greatest element of a set of bounded numbers. *)
LEMMA GreatestIsThere ==
    ASSUME NEW n \in Nat, NEW I \in SUBSET (1 .. n), I # {}
    PROVE  \E i \in I : \A j \in I : j <= i
  <1> DEFINE R == {n - i : i \in I}
  <1>1. R \in SUBSET Nat /\ R # {}
    <2>1. \A i \in I : n - i \in Nat /\ n - i \in R
      OBVIOUS
    <2>2. \A r \in R : r \in Nat
      BY <2>1
    <2>3. PICK i : i \in I
      OBVIOUS
    <2>4. n - i \in R
      BY <2>1, <2>3
    <2> HIDE DEF R
    <2> QED BY <2>2, <2>4
  <1>2. PICK r \in R : \A s \in R : r <= s
    <2> HIDE DEF R
    <2> QED BY <1>1, LeastIsThere
  <1>3. PICK i \in I : r = n - i
    BY <1>2
  <1>4. ASSUME NEW j \in I PROVE j <= i
    <2>1. n - i <= n - j
      BY <1>2, <1>3
    <2> QED BY <2>1
  <1> QED BY <1>4

(* The receiver after d of the lines of a configuration. *)
Pairs(lines, d) == [i \in 1 .. d - 1 |-> NvsWrite(lines[i + 1].text, lines[i + 1].value)]
Progress(lines, d) ==
    IF d = 0 THEN NewReceiver ELSE [buf |-> NoLine, started |-> TRUE, pairs |-> Pairs(lines, d)]

(* A line that finds an empty buffer is read as it is (poll).              *)
LEMMA LineAlone ==
    ASSUME NEW line PROVE Glued(NoLine, line) = line
  BY DEF Glued

(* The fields of a line.                                                   *)
LEMMA LineFields ==
    \A t, v : Line(t, v).text = t /\ Line(t, v).value = v /\ Line(t, v).cut = FALSE
  BY DEF Line

(* A line that follows those before it moves the receiver on (poll).       *)
LEMMA NextLineTaken ==
    ASSUME NEW cfg, NEW d \in Nat, d + 1 < Len(ConfigLines(cfg))
    PROVE  TakeLine(Progress(ConfigLines(cfg), d), ConfigLines(cfg)[d + 1])
             = Progress(ConfigLines(cfg), d + 1)
  <1> DEFINE lines == ConfigLines(cfg)
             n == Len(lines)
             rx == Progress(lines, d)
             line == lines[d + 1]
  <1>1. /\ n \in Nat /\ n >= 2 /\ lines[1] = Start
        /\ \A i \in 2 .. n - 1 : \E k \in Keys : lines[i] = PairLine(cfg, k)
    BY LinesSent
  <1> HIDE DEF lines
  <1>2. CASE d = 0
    <2>1. line = Start /\ rx = NewReceiver
      BY <1>1, <1>2 DEF Progress
    <2>2. TakeLine(rx, line) = [NewReceiver EXCEPT !.buf = NoLine, !.started = TRUE, !.pairs = <<>>]
      BY <2>1, LineAlone DEF TakeLine, NewReceiver, Start, Line
    <2>3. Pairs(lines, 1) = <<>>
      BY DEF Pairs
    <2>4. Progress(lines, 1) = [buf |-> NoLine, started |-> TRUE, pairs |-> <<>>]
      <3>1. Progress(lines, 1) = [buf |-> NoLine, started |-> TRUE, pairs |-> Pairs(lines, 1)]
        BY DEF Progress
      <3> QED BY <2>3, <3>1, Zenon
    <2>5. TakeLine(rx, line) = Progress(lines, 1)
      BY <2>2, <2>4 DEF NewReceiver
    <2>6. d + 1 = 1
      BY <1>2
    <2> HIDE DEF rx, line
    <2>7. TakeLine(rx, line) = Progress(lines, d + 1)
      BY <2>5, <2>6
    <2> QED BY <2>7 DEF lines, rx, line
  <1>3. CASE d # 0
    <2>1. d + 1 \in 2 .. n - 1
      BY <1>1, <1>3 DEF lines
    <2>2. PICK k \in Keys : line = PairLine(cfg, k)
      BY <1>1, <2>1
    <2>3. rx = [buf |-> NoLine, started |-> TRUE, pairs |-> Pairs(lines, d)]
      BY <1>3 DEF Progress
    <2> HIDE DEF rx, line
    <2>4. line.text = k /\ line.cut = FALSE /\ line.text \in Keys
      BY <2>2 DEF PairLine, Line
    <2>5. TakeLine(rx, line)
            = [buf |-> NoLine, started |-> TRUE,
               pairs |-> Append(Pairs(lines, d), NvsWrite(line.text, line.value))]
      <3>1. rx.buf = NoLine /\ rx.started = TRUE /\ rx.pairs = Pairs(lines, d)
        BY <2>3
      <3>2. Glued(rx.buf, line) = line
        BY <3>1, LineAlone
      <3>3. line.text # "START" /\ line.text # "END"
        BY <2>4, KeysListed
      <3>4. TakeLine(rx, line) =
              [[rx EXCEPT !.buf = NoLine] EXCEPT !.pairs = Append(@, NvsWrite(line.text, line.value))]
        <4> HIDE DEF Pairs, NvsWrite, NoLine
        <4> QED BY <2>4, <3>1, <3>2 DEF TakeLine
      <3> QED BY <2>3, <3>4
    <2>6. Append(Pairs(lines, d), NvsWrite(line.text, line.value)) = Pairs(lines, d + 1)
      <3> DEFINE w(i) == NvsWrite(lines[i + 1].text, lines[i + 1].value)
                 W == {w(i) : i \in 1 .. d}
                 s == [i \in 1 .. d - 1 |-> w(i)]
      <3>1. d - 1 \in Nat /\ d \in 1 .. d /\ \A i \in 1 .. d - 1 : i \in 1 .. d
        BY <1>3
      <3>2. s \in Seq(W) /\ Len(s) = d - 1
        <4>1. \A i \in 1 .. d - 1 : w(i) \in W
          BY <3>1
        <4> HIDE DEF w, W
        <4> QED BY <3>1, <4>1
      <3>3. w(d) \in W
        BY <3>1
      <3> HIDE DEF W
      <3>4. Append(s, w(d)) = [i \in 1 .. d |-> w(i)]
        <4> DEFINE t == Append(s, w(d))
        <4>1. t \in Seq(W) /\ Len(t) = d /\ \A i \in 1 .. d : t[i] = IF i = d THEN w(d) ELSE s[i]
          BY <3>1, <3>2, <3>3
        <4>2. t = [i \in 1 .. d |-> t[i]]
          <5> HIDE DEF t
          <5> QED BY <4>1, LenProperties
        <4>3. \A i \in 1 .. d : t[i] = w(i)
          BY <3>1, <4>1
        <4> HIDE DEF t, w, s
        <4>4. t = [i \in 1 .. d |-> w(i)]
          BY <4>2, <4>3
        <4> QED BY <4>4 DEF t
      <3>5. w(d) = NvsWrite(line.text, line.value)
        BY DEF line
      <3>6. Pairs(lines, d) = s
        BY DEF Pairs
      <3>7. Pairs(lines, d + 1) = [i \in 1 .. d |-> w(i)]
        <4>1. (d + 1) - 1 = d
          OBVIOUS
        <4> QED BY <4>1 DEF Pairs
      <3> QED BY <3>4, <3>5, <3>6, <3>7
    <2>7. Progress(lines, d + 1) = [buf |-> NoLine, started |-> TRUE, pairs |-> Pairs(lines, d + 1)]
      BY DEF Progress
    <2> QED BY <2>5, <2>6, <2>7 DEF lines, rx, line
  <1> QED BY <1>2, <1>3

(* What a receiver is after each of the lines, told by a function that     *)
(* makes its steps.                                                        *)
AfterFrom(rx, lines, f) ==
    f = [i \in 0 .. Len(lines) |-> IF i = 0 THEN rx
           ELSE CHOOSE r \in {TakeLine(b, lines[i]) : b \in {f[i - 1]}} : TRUE]
Follows(f, rx, lines) ==
    /\ f = [i \in 0 .. Len(lines) |-> f[i]] /\ f[0] = rx
    /\ \A i \in 1 .. Len(lines) : f[i] = TakeLine(f[i - 1], lines[i])
(* The receiver is where following the lines one by one leads (poll).      *)
LEMMA AfterTold ==
    ASSUME NEW rx, NEW lines, Len(lines) \in Nat, NEW f, Follows(f, rx, lines)
    PROVE  AfterLines(rx, lines) = f
  <1> DEFINE n == Len(lines)
             g == AfterLines(rx, lines)
  <1>0. /\ n \in Nat /\ f = [i \in 0 .. n |-> f[i]] /\ f[0] = rx
        /\ \A i \in 1 .. n : f[i] = TakeLine(f[i - 1], lines[i])
    BY DEF Follows
  <1>1. \A i \in 0 .. n : f[i] = IF i = 0 THEN rx
            ELSE CHOOSE r \in {TakeLine(b, lines[i]) : b \in {f[i - 1]}} : TRUE
    <2> SUFFICES ASSUME NEW i \in 0 .. n, i # 0
                 PROVE  f[i] = CHOOSE r \in {TakeLine(b, lines[i]) : b \in {f[i - 1]}} : TRUE
      BY <1>0
    <2>1. i \in 1 .. n
      BY <1>0
    <2>2. {TakeLine(b, lines[i]) : b \in {f[i - 1]}} = {f[i]}
      BY <1>0, <2>1
    <2> QED BY <2>2, TakenOut
  <1>2. AfterFrom(rx, lines, f)
    BY <1>0, <1>1 DEF AfterFrom
  <1>3. AfterFrom(rx, lines, g)
    BY <1>2 DEF AfterFrom, AfterLines
  <1> HIDE DEF g
  <1>4. /\ g = [i \in 0 .. n |-> g[i]] /\ g[0] = rx
        /\ \A i \in 1 .. n : g[i] = TakeLine(g[i - 1], lines[i])
    <2>1. DOMAIN g = 0 .. n
      BY <1>3 DEF AfterFrom
    <2>2. g = [i \in DOMAIN g |-> g[i]]
      BY <1>3 DEF AfterFrom
    <2>3. g[0] = rx
      BY <1>0, <1>3 DEF AfterFrom
    <2>4. ASSUME NEW i \in 1 .. n PROVE g[i] = TakeLine(g[i - 1], lines[i])
      <3>1. i \in 0 .. n /\ i # 0
        BY <1>0
      <3>2. g[i] = CHOOSE r \in {TakeLine(b, lines[i]) : b \in {g[i - 1]}} : TRUE
        BY <1>3, <3>1 DEF AfterFrom
      <3>3. {TakeLine(b, lines[i]) : b \in {g[i - 1]}} = {TakeLine(g[i - 1], lines[i])}
        OBVIOUS
      <3> QED BY <3>2, <3>3, TakenOut
    <2> QED BY <2>1, <2>2, <2>3, <2>4
  <1>5. \A i \in 0 .. n : g[i] = f[i]
    <2> DEFINE Bad == {i \in 0 .. n : g[i] # f[i]}
    <2>1. SUFFICES ASSUME Bad # {} PROVE FALSE
      BY DEF Bad
    <2>0. Bad \in SUBSET Nat /\ \A i : i \in Bad <=> i \in 0 .. n /\ g[i] # f[i]
      BY <1>0
    <2> HIDE DEF Bad
    <2>2. PICK i \in Bad : \A j \in Bad : i <= j
      BY <2>0, <2>1, LeastIsThere
    <2>3. i \in 1 .. n /\ i - 1 \in 0 .. n /\ ~(i <= i - 1)
      <3>1. i \in 0 .. n /\ g[i] # f[i]
        BY <2>0, <2>2
      <3>2. i # 0
        BY <1>0, <1>4, <3>1
      <3> QED BY <1>0, <3>1, <3>2
    <2>4. g[i - 1] = f[i - 1]
      BY <2>0, <2>2, <2>3
    <2> QED BY <1>0, <1>4, <2>0, <2>2, <2>3, <2>4
  <1>6. g = f
    BY <1>0, <1>4, <1>5
  <1> QED BY <1>6 DEF g

(* All pairs of a configuration make it: parse_and_respond. *)
LEMMA ParsedAsSent ==
    ASSUME NEW cfg, Sendable(cfg)
    PROVE  LET lines == ConfigLines(cfg)
           IN  ParseAndRespond(Pairs(lines, Len(lines) - 1))
                 = [answer |-> "CONFIG_OK", config |-> cfg]
  <1> DEFINE lines == ConfigLines(cfg)
             n == Len(lines)
             pairs == Pairs(lines, n - 1)
             m == n - 2
  <1>1. /\ n \in Nat /\ n >= 2
        /\ \A i \in 2 .. n - 1 : \E k \in Keys : lines[i] = PairLine(cfg, k)
        /\ \A k \in Keys : \/ \E i \in 2 .. n - 1 : lines[i] = PairLine(cfg, k)
                           \/ k \in Credentials /\ cfg[k] = <<>>
    BY LinesSent
  <1> HIDE DEF lines, n
  <1>2. pairs = [i \in 1 .. m |-> NvsWrite(lines[i + 1].text, lines[i + 1].value)] /\ m \in Nat
    <2>1. (n - 1) - 1 = n - 2 /\ n - 2 \in Nat
      BY <1>1
    <2> QED BY <2>1 DEF Pairs
  <1>3. Len(pairs) = m
    BY <1>2
  <1>4. \A k : PairLine(cfg, k).text = k /\ PairLine(cfg, k).value = cfg[k]
    BY DEF PairLine, Line
  <1>5. \A i \in 1 .. m : pairs[i].key \in Keys /\ pairs[i].value = cfg[pairs[i].key]
    <2> TAKE i \in 1 .. m
    <2>1. i + 1 \in 2 .. n - 1
      BY <1>1
    <2>2. PICK k \in Keys : lines[i + 1] = PairLine(cfg, k)
      BY <1>1, <2>1
    <2>3. pairs[i] = NvsWrite(k, cfg[k])
      BY <1>2, <1>4, <2>2
    <2> QED BY <2>3 DEF NvsWrite
  <1>6. ASSUME NEW k \in Keys
        PROVE  \/ \E i \in 1 .. m : pairs[i].key = k
               \/ k \in Credentials /\ cfg[k] = <<>>
    <2>1. ASSUME NEW i \in 2 .. n - 1, lines[i] = PairLine(cfg, k)
          PROVE  i - 1 \in 1 .. m /\ pairs[i - 1].key = k
      <3>1. i - 1 \in 1 .. m /\ (i - 1) + 1 = i
        BY <1>1
      <3>2. pairs[i - 1] = NvsWrite(k, cfg[k])
        BY <1>2, <1>4, <2>1, <3>1
      <3> QED BY <3>1, <3>2 DEF NvsWrite
    <2> QED BY <1>1, <2>1
  <1> HIDE DEF pairs, m
  <1>7. ~\E i \in 1 .. Len(pairs) : pairs[i].key = "mqtt_port" /\ ~ValidPort(pairs[i].value)
    BY <1>3, <1>5 DEF Sendable
  <1>8. ASSUME NEW k \in Keys, NEW i \in 1 .. m, pairs[i].key = k
        PROVE  LastPair(pairs, k) = cfg[k]
    <2> DEFINE at == {j \in 1 .. Len(pairs) : pairs[j].key = k}
    <2>1. at \in SUBSET (1 .. m) /\ at # {}
      BY <1>3, <1>8
    <2>2. \E j \in at : \A l \in at : l <= j
      <3> HIDE DEF at
      <3> QED BY <1>2, <2>1, GreatestIsThere
    <2> DEFINE last == CHOOSE j \in at : \A l \in at : l <= j
    <2>3. last \in at
      <3> HIDE DEF at
      <3> QED BY <2>2
    <2>4. LastPair(pairs, k) = pairs[last].value
      BY DEF LastPair
    <2> HIDE DEF last
    <2>5. last \in 1 .. m /\ pairs[last].key = k
      BY <1>3, <2>3
    <2> QED BY <1>5, <2>4, <2>5
  <1> DEFINE found(k) == IF \E i \in 1 .. Len(pairs) : pairs[i].key = k
                         THEN LastPair(pairs, k) ELSE Default[k]
  <1>9. ASSUME NEW k \in Keys PROVE found(k) = cfg[k]
    <2>1. CASE \E i \in 1 .. m : pairs[i].key = k
      BY <1>3, <1>8, <2>1
    <2>2. CASE ~\E i \in 1 .. m : pairs[i].key = k
      <3>1. k \in Credentials /\ cfg[k] = <<>>
        BY <1>6, <2>2
      <3>2. Default[k] = <<>>
        BY <3>1, KeysListed DEF Default
      <3> QED BY <1>3, <2>2, <3>1, <3>2
    <2> QED BY <2>1, <2>2
  <1>10. ParseAndRespond(pairs) = [answer |-> "CONFIG_OK", config |-> [k \in Keys |-> found(k)]]
    BY <1>7 DEF ParseAndRespond
  <1> HIDE DEF found
  <1>11. [k \in Keys |-> found(k)] = cfg
    BY <1>9 DEF Sendable
  <1>12. ParseAndRespond(pairs) = [answer |-> "CONFIG_OK", config |-> cfg]
    BY <1>10, <1>11
  <1> QED BY <1>12 DEF pairs, lines, n

(* A receiver that missed the START takes nothing. *)
LEMMA PollMissesAll ==
    ASSUME NEW rx, NEW S, NEW queue \in Seq(S),
           rx = [buf |-> NoLine, started |-> FALSE, pairs |-> rx.pairs],
           \A i \in 1 .. Len(queue) : queue[i].cut = FALSE /\ queue[i].text # "START"
    PROVE  Poll(rx, queue) = PollResult(rx, <<>>, "", NoConfig)
  <1> DEFINE n == Len(queue)
             f == [i \in 0 .. n |-> rx]
  <1>0. n \in Nat
    OBVIOUS
  <1>a. rx.buf = NoLine /\ rx.started = FALSE /\ [rx EXCEPT !.buf = NoLine] = rx
    OBVIOUS
  <1>1. ASSUME NEW i \in 1 .. n PROVE TakeLine(rx, queue[i]) = rx
    <2>1. Glued(rx.buf, queue[i]) = queue[i]
      BY <1>a, LineAlone
    <2> QED BY <1>a, <2>1 DEF TakeLine
  <1>2. AfterLines(rx, queue) = f
    <2>1. \A i \in 1 .. n : i - 1 \in 0 .. n /\ i \in 0 .. n
      BY <1>0
    <2>2. \A i \in 1 .. n : f[i] = TakeLine(f[i - 1], queue[i])
      BY <1>1, <2>1
    <2>3. f = [i \in 0 .. n |-> f[i]] /\ f[0] = rx
      BY <1>0
    <2> HIDE DEF f
    <2>4. Follows(f, rx, queue)
      BY <2>2, <2>3 DEF Follows
    <2> QED BY <1>0, <2>4, AfterTold
  <1> DEFINE ends == {i \in 1 .. n : EndsConfig(f[i - 1], queue[i])}
  <1>3. ends = {}
    <2>1. ASSUME NEW i \in 1 .. n PROVE ~EndsConfig(f[i - 1], queue[i])
      <3>1. f[i - 1] = rx
        BY <1>0
      <3> QED BY <1>a, <3>1 DEF EndsConfig
    <2> QED BY <2>1
  <1>4. f[n] = rx
    BY <1>0
  <1> HIDE DEF f
  <1> QED BY <1>2, <1>3, <1>4 DEF Poll

(* A receiver that has seen d of the lines and finds the next ones up to m *)
(* takes them, and has the configuration when they were the last.          *)
Waits(rx, queue, lines, d, m) ==
    d < Len(lines) /\ queue = SubSeq(lines, d + 1, m) /\ rx = Progress(lines, d)
Takes(r, cfg, m) ==
    /\ m < Len(ConfigLines(cfg)) => r = PollResult(Progress(ConfigLines(cfg), m), <<>>, "", NoConfig)
    /\ m = Len(ConfigLines(cfg)) => r = PollResult(NewReceiver, <<>>, "CONFIG_OK", cfg)
(* A poll that finds the next lines of a configuration, however many of    *)
(* them, goes on where the last one stopped, and at END answers with the   *)
(* configuration that was sent (SerialConfigReceiver::poll).               *)
LEMMA PollTakesOn ==
    ASSUME NEW cfg, Sendable(cfg), NEW m \in 1 .. Len(ConfigLines(cfg)), NEW d \in 0 .. m,
           NEW rx, NEW queue, Waits(rx, queue, ConfigLines(cfg), d, m)
    PROVE  Takes(Poll(rx, queue), cfg, m)
  <1> DEFINE lines == ConfigLines(cfg)
             n == Len(lines)
             S == LinesOf(cfg)
             q == Len(queue)
  <1>1. /\ lines \in Seq(S) /\ n \in Nat /\ n >= 2 /\ lines[1] = Start /\ lines[n] = End
        /\ \A i \in 2 .. n - 1 : \E k \in Keys : lines[i] = PairLine(cfg, k)
    BY LinesSent
  <1>2. m \in 1 .. n /\ d \in 0 .. m /\ d < n /\ rx = Progress(lines, d) /\ queue = SubSeq(lines, d + 1, m)
    BY DEF Waits
  <1>3. \A i \in Nat : i + 1 < n => TakeLine(Progress(lines, i), lines[i + 1]) = Progress(lines, i + 1)
    BY NextLineTaken
  <1>a. ParseAndRespond(Pairs(lines, n - 1)) = [answer |-> "CONFIG_OK", config |-> cfg]
    BY ParsedAsSent
  <1> HIDE DEF lines, n, S
  <1>4. queue \in Seq(S) /\ q = m - d /\ \A i \in 1 .. m - d : queue[i] = lines[d + i]
    <2> DEFINE lo == d + 1
    <2>1. lo \in Int /\ m \in Int /\ \A i \in lo .. m : i \in 1 .. n
      BY <1>1, <1>2
    <2>2. \A i \in lo .. m : lines[i] \in S
      <3>1. \A i \in 1 .. n : lines[i] \in S
        BY <1>1, ElementOfSeq DEF n
      <3> HIDE DEF lo
      <3> QED BY <2>1, <3>1
    <2> HIDE DEF lo, q
    <2>3. /\ queue \in Seq(S) /\ Len(queue) = (IF lo <= m THEN m - lo + 1 ELSE 0)
          /\ \A i \in 1 .. m - lo + 1 : queue[i] = lines[lo + i - 1]
      <3>1. /\ SubSeq(lines, lo, m) \in Seq(S)
            /\ Len(SubSeq(lines, lo, m)) = (IF lo <= m THEN m - lo + 1 ELSE 0)
            /\ \A i \in 1 .. m - lo + 1 : SubSeq(lines, lo, m)[i] = lines[lo + i - 1]
        BY <2>1, <2>2, SubSeqProperties
      <3> QED BY <1>2, <3>1 DEF lo
    <2>4. /\ m - lo + 1 = m - d /\ (IF lo <= m THEN m - lo + 1 ELSE 0) = m - d
          /\ \A i \in 1 .. m - d : lo + i - 1 = d + i
      BY <1>1, <1>2 DEF lo
    <2>5. \A i \in 1 .. m - d : queue[i] = lines[d + i]
      <3> TAKE i \in 1 .. m - d
      <3>1. i \in 1 .. m - lo + 1 /\ lo + i - 1 = d + i
        BY <2>4
      <3> QED BY <2>3, <3>1
    <2> QED BY <2>3, <2>4, <2>5 DEF q
  <1> HIDE DEF q
  <1>5. q \in Nat /\ q = Len(queue)
    BY <1>1, <1>2, <1>4 DEF q
  <1> DEFINE f == [i \in 0 .. q |-> IF d + i < n THEN Progress(lines, d + i)
                                    ELSE TakeLine(Progress(lines, n - 1), End)]
  <1>6. ASSUME NEW i \in 1 .. q PROVE f[i] = TakeLine(f[i - 1], queue[i])
    <2>1. /\ i \in 0 .. q /\ i - 1 \in 0 .. q /\ d + (i - 1) < n /\ d + (i - 1) \in Nat
          /\ (d + (i - 1)) + 1 = d + i /\ i \in 1 .. m - d
      BY <1>1, <1>2, <1>4
    <2>2. f[i - 1] = Progress(lines, d + (i - 1)) /\ queue[i] = lines[d + i]
      BY <1>4, <2>1
    <2>3. f[i] = IF d + i < n THEN Progress(lines, d + i)
                 ELSE TakeLine(Progress(lines, n - 1), End)
      BY <2>1
    <2> HIDE DEF f
    <2>4. CASE d + i < n
      <3>1. TakeLine(Progress(lines, d + (i - 1)), lines[(d + (i - 1)) + 1]) = Progress(lines, (d + (i - 1)) + 1)
        BY <1>3, <2>1, <2>4
      <3> QED BY <2>1, <2>2, <2>3, <2>4, <3>1
    <2>5. CASE ~(d + i < n)
      <3>1. d + i = n /\ d + (i - 1) = n - 1
        BY <1>1, <1>2, <1>4, <2>1, <2>5
      <3> QED BY <1>1, <2>2, <2>3, <2>5, <3>1
    <2> QED BY <2>4, <2>5
  <1>7. AfterLines(rx, queue) = f
    <2>1. f = [i \in 0 .. q |-> f[i]]
      OBVIOUS
    <2>2. f[0] = rx
      <3>1. 0 \in 0 .. q /\ d + 0 = d /\ d < n
        BY <1>2, <1>5
      <3> QED BY <1>2, <3>1
    <2> HIDE DEF f
    <2>3. Follows(f, rx, queue)
      BY <1>5, <1>6, <2>1, <2>2 DEF Follows
    <2> QED BY <1>5, <2>3, AfterTold
  <1> DEFINE ends == {i \in 1 .. q : EndsConfig(f[i - 1], queue[i])}
             end == CHOOSE i \in ends : \A j \in ends : i <= j
  <1>8. ASSUME NEW i \in 1 .. q PROVE EndsConfig(f[i - 1], queue[i]) <=> d + i = n
    <2>1. /\ i - 1 \in 0 .. q /\ d + (i - 1) < n /\ d + (i - 1) \in Nat /\ i \in 1 .. m - d
          /\ d + i \in 1 .. n
      BY <1>1, <1>2, <1>4
    <2>2. f[i - 1] = Progress(lines, d + (i - 1)) /\ queue[i] = lines[d + i]
      BY <1>4, <2>1
    <2> HIDE DEF f
    <2>3. CASE d + i = 1
      <3>1. d + (i - 1) = 0 /\ d + i # n
        BY <1>1, <2>1, <2>3
      <3>2. f[i - 1].started = FALSE
        BY <2>2, <3>1 DEF Progress, NewReceiver
      <3> QED BY <3>1, <3>2 DEF EndsConfig
    <2>4. CASE d + i # 1
      <3>1. d + (i - 1) # 0
        BY <1>2, <2>1, <2>4
      <3>2. f[i - 1] = [buf |-> NoLine, started |-> TRUE, pairs |-> Pairs(lines, d + (i - 1))]
        BY <2>2, <3>1 DEF Progress
      <3>3. f[i - 1].started = TRUE /\ f[i - 1].buf = NoLine
        BY <3>2
      <3>4. EndsConfig(f[i - 1], queue[i]) <=> queue[i].cut = FALSE /\ queue[i].text = "END"
        <4>1. Glued(f[i - 1].buf, queue[i]) = queue[i]
          BY <3>3, LineAlone
        <4>2. queue[i].cut = FALSE
          <5>1. queue[i] \in S
            BY <1>4, <1>5, ElementOfSeq
          <5>2. PICK t, v : queue[i] = Line(t, v)
            <6>1. queue[i] \in {Start, End} \/ \E k \in Keys : queue[i] = PairLine(cfg, k)
              BY <5>1 DEF S, LinesOf
            <6> QED BY <6>1, Zenon DEF Start, End, PairLine
          <5> QED BY <5>2, LineFields
        <4> QED BY <3>3, <4>1, <4>2 DEF EndsConfig
      <3>5. CASE d + i = n
        <4>1. queue[i] = End
          BY <1>1, <2>2, <3>5
        <4>2. queue[i].cut = FALSE /\ queue[i].text = "END"
          BY <4>1, LineFields DEF End
        <4> QED BY <3>4, <3>5, <4>2
      <3>6. CASE d + i # n
        <4>1. d + i \in 2 .. n - 1
          BY <1>1, <2>1, <2>4, <3>6
        <4>2. PICK k \in Keys : queue[i] = PairLine(cfg, k)
          BY <1>1, <2>2, <4>1
        <4>3. queue[i].text = k
          BY <4>2, LineFields DEF PairLine
        <4>4. k # "END"
          BY KeysListed
        <4> QED BY <3>4, <3>6, <4>3, <4>4
      <3> QED BY <3>5, <3>6
    <2> QED BY <2>3, <2>4
  <1>9. ASSUME m < n
        PROVE  Poll(rx, queue) = PollResult(Progress(lines, m), <<>>, "", NoConfig)
    <2>1. ends = {}
      <3>1. ASSUME NEW i \in 1 .. q PROVE ~EndsConfig(f[i - 1], queue[i])
        <4>1. d + i # n
          BY <1>1, <1>2, <1>4, <1>9
        <4> HIDE DEF f
        <4> QED BY <1>8, <4>1
      <3> HIDE DEF f
      <3> QED BY <3>1
    <2>2. f[q] = Progress(lines, m)
      <3>1. q \in 0 .. q /\ d + q = m /\ d + q < n
        BY <1>1, <1>2, <1>4, <1>5, <1>9
      <3> QED BY <3>1
    <2> HIDE DEF f
    <2> QED BY <1>5, <1>7, <2>1, <2>2 DEF Poll
  <1>10. ASSUME m = n
         PROVE  Poll(rx, queue) = PollResult(NewReceiver, <<>>, "CONFIG_OK", cfg)
    <2>1. q = n - d /\ q \in 1 .. q
      <3>1. n \in Nat /\ d \in Nat /\ d < n /\ q = n - d
        BY <1>1, <1>2, <1>4, <1>10
      <3> HIDE DEF n, q
      <3> QED BY <3>1
    <2>2. ends = {q}
      <3>1. \A i \in 1 .. q : d + i = n <=> i = q
        BY <1>1, <1>2, <2>1
      <3> HIDE DEF f
      <3> QED BY <1>8, <2>1, <3>1
    <2>3. end = q
      <3> HIDE DEF ends
      <3> QED BY <1>5, <2>2
    <2>4. f[q - 1] = Progress(lines, n - 1)
      <3>1. q - 1 \in 0 .. q /\ d + (q - 1) = n - 1 /\ n - 1 < n
        BY <1>1, <1>2, <2>1
      <3> QED BY <3>1
    <2>5. Progress(lines, n - 1).pairs = Pairs(lines, n - 1)
      <3>1. n - 1 # 0
        BY <1>1
      <3> QED BY <3>1 DEF Progress
    <2>6. ParseAndRespond(f[q - 1].pairs) = [answer |-> "CONFIG_OK", config |-> cfg]
      BY <1>a, <2>4, <2>5
    <2>7. SubSeq(queue, q + 1, q) = <<>>
      BY <1>5, SubSeqEmpty
    <2>8. ends # {}
      BY <2>2
    <2> HIDE DEF f
    <2>9. Poll(rx, queue) = PollResult(NewReceiver, SubSeq(queue, end + 1, q),
              ParseAndRespond(f[end - 1].pairs).answer, ParseAndRespond(f[end - 1].pairs).config)
      BY <1>5, <1>7, <2>8 DEF Poll
    <2> HIDE DEF end
    <2>10. Poll(rx, queue) = PollResult(NewReceiver, <<>>,
              ParseAndRespond(f[q - 1].pairs).answer, ParseAndRespond(f[q - 1].pairs).config)
      BY <2>3, <2>7, <2>9
    <2> QED BY <2>6, <2>10
  <1> QED BY <1>9, <1>10 DEF lines, n, Takes

-----------------------------------------------------------------------------
(* The inductive invariant of what becomes of a configuration.  What was   *)
(* promised is in flash, or in what the save still has to write; once a    *)
(* whole configuration was saved, every key has the value of one of them.  *)
(* An intact line holds the lines sent up to m: the receiver has seen the  *)
(* first d of them and the others wait, or the START went lost and none    *)
(* of them counts.                                                         *)
StoredUnder(block, value, k, c) ==
    value # Absent /\ (IF k \in Passwords THEN MaybeDecrypt(value, block) ELSE value) = c[k]
Todo == DOMAIN dev.todo
PromiseInFlash ==
    promised # NoConfig =>
        /\ promised \in Configs
        /\ \A k \in Keys :
            \/ StoredUnder(efuse, nvs[k], k, promised)
            \/ dev.phase = "saving" /\ \E i \in Todo : dev.todo[i].key = k
        /\ dev.phase = "saving" =>
            \A i \in Todo : StoredUnder(efuse, dev.todo[i].value, dev.todo[i].key, promised)
KeysInFlash ==
    saved = TRUE =>
        /\ \A k \in Keys : \E c \in Configs : StoredUnder(efuse, nvs[k], k, c)
        /\ dev.phase = "saving" =>
            \A i \in Todo : \E c \in Configs :
                StoredUnder(efuse, dev.todo[i].value, dev.todo[i].key, c)
RunsWhatIsStored == dev.handle = TRUE /\ dev.phase # "saving" => dev.cfg = Load(nvs, efuse)
OnlyCrashKeys ==
    dev.phase \in {"clearing", "panicking"} => \A i \in Todo : dev.todo[i].key \in CrashKeys
FlashFits == PromiseInFlash /\ KeysInFlash /\ RunsWhatIsStored /\ OnlyCrashKeys

HostTypeOK ==
    /\ host = [phase |-> host.phase, cfg |-> host.cfg, next |-> host.next, intact |-> host.intact]
    /\ host.phase \in {"idle", "sending", "awaiting"}
    /\ host.intact \in BOOLEAN
    /\ host.phase = "sending" => host.cfg \in Configs /\ host.next \in 1 .. Len(Lines)
    /\ host.phase = "sending" /\ host.next = 1 => host.intact = FALSE
    /\ host.intact = TRUE => host.cfg \in Configs
StartLost ==
    /\ dev.rx = [buf |-> NoLine, started |-> FALSE, pairs |-> dev.rx.pairs]
    /\ \E S : fifo \in Seq(S)
    /\ \A i \in 1 .. Len(fifo) : fifo[i].cut = FALSE /\ fifo[i].text # "START"
LinesWait(m) == \E d \in 0 .. m : Waits(dev.rx, fifo, Lines, d, m)
SerialFits ==
    host.intact = TRUE /\ dev.phase # "saving" =>
        \/ StartLost
        \/ \E m \in 1 .. Len(Lines) :
              (host.phase = "sending" => m = host.next - 1) /\ LinesWait(m)

ConfInv ==
    /\ BootInv
    /\ efuse \in Fuses /\ dev.handle \in BOOLEAN /\ saved \in BOOLEAN
    /\ FlashFits
    /\ NoKeyIsLost
    /\ HostTypeOK
    /\ SerialFits

-----------------------------------------------------------------------------
(* The configurations a person sends. *)
LEMMA ConfigsAreSendable ==
    ASSUME NEW c \in Configs
    PROVE  /\ c \in [Keys -> Seq(Plain)] /\ c # NoConfig
           /\ Sendable(c)
  <1>1. c \in Files /\ Validate(c)
    BY DEF Configs
  <1>2. c \in [Keys -> Seq(Plain)] /\ ValidPort(c["mqtt_port"])
    BY <1>1, ConfigAssumption DEF Plain
  <1>3. \A k \in Keys : c[k] \in Seq(Plain)
    BY <1>2
  <1>4. c["wifi_ssid"] # Absent
    <2>1. "wifi_ssid" \in Keys
      BY KeysListed
    <2>2. c["wifi_ssid"] \in Seq(Plain)
      BY <1>3, <2>1
    <2>3. ASSUME c["wifi_ssid"] = Absent PROVE FALSE
      <3>1. Absent \in Seq(Plain) /\ Len(Absent) = 1 /\ Absent[1] = -1
        BY <2>2, <2>3 DEF Absent
      <3>2. Absent[1] \in Plain
        BY <3>1, ElementOfSeq
      <3> QED BY <3>1, <3>2 DEF Plain
    <2> QED BY <2>3
  <1>5. c # NoConfig
    <2>1. "wifi_ssid" \in Keys
      BY KeysListed
    <2>2. NoConfig["wifi_ssid"] = Absent
      BY <2>1 DEF NoConfig
    <2> QED BY <1>4, <2>2
  <1> QED BY <1>2, <1>3, <1>5 DEF Sendable

(* What a save writes is the configuration. *)
LEMMA SaveWrites ==
    ASSUME NEW c \in Configs, NEW block \in Fuses, NEW nonce \in [Passwords -> Nonces]
    PROVE  LET writes == SaveOps(c, block, nonce)
           IN  /\ \A i \in DOMAIN writes : StoredUnder(block, writes[i].value, writes[i].key, c)
               /\ \A k \in Keys : \E i \in DOMAIN writes : writes[i].key = k
  <1> DEFINE V(k) == IF k \in Passwords THEN Encrypt(c[k], block, nonce[k]) ELSE c[k]
             writes == SaveOps(c, block, nonce)
             n == Len(KeyOrder)
  <1>1. writes = [i \in 1 .. n |-> NvsWrite(KeyOrder[i], V(KeyOrder[i]))]
    BY DEF SaveOps
  <1>2. c \in [Keys -> Seq(Plain)]
    BY ConfigsAreSendable
  <1>3. ASSUME NEW k \in Keys PROVE StoredUnder(block, V(k), k, c)
    <2>1. c[k] \in Seq(Plain)
      BY <1>2
    <2>2. CASE k \in Passwords
      <3>1. nonce[k] \in Nonces
        BY <2>2
      <3>2. NonceFits(nonce[k])
        BY <3>1, HardwareAssumption DEF NonceFits, Bytes
      <3>3. /\ MaybeDecrypt(Encrypt(c[k], block, nonce[k]), block) = c[k]
            /\ Encrypt(c[k], block, nonce[k]) # <<-1>>
        BY <2>1, <3>2, EncryptedComesBack
      <3> QED BY <2>2, <3>3 DEF StoredUnder, Absent
    <2>3. CASE k \notin Passwords
      <3>1. c[k] # Absent
        <4>1. ASSUME c[k] = Absent PROVE FALSE
          <5>1. Absent \in Seq(Plain) /\ Len(Absent) = 1 /\ Absent[1] = -1
            BY <2>1, <4>1 DEF Absent
          <5>2. Absent[1] \in Plain
            BY <5>1, ElementOfSeq
          <5> QED BY <5>1, <5>2 DEF Plain
        <4> QED BY <4>1
      <3> QED BY <2>3, <3>1 DEF StoredUnder
    <2> QED BY <2>2, <2>3
  <1>4. \A i \in 1 .. n : KeyOrder[i] \in Keys
    BY DEF Keys
  <1>5. \A k \in Keys : \E i \in 1 .. n : KeyOrder[i] = k
    BY DEF Keys
  <1> HIDE DEF V, writes, n
  <1>6. DOMAIN writes = 1 .. n /\ \A i \in 1 .. n : writes[i].key = KeyOrder[i] /\ writes[i].value = V(KeyOrder[i])
    BY <1>1 DEF NvsWrite
  <1>7. \A i \in DOMAIN writes : StoredUnder(block, writes[i].value, writes[i].key, c)
    BY <1>3, <1>4, <1>6
  <1>8. \A k \in Keys : \E i \in DOMAIN writes : writes[i].key = k
    BY <1>5, <1>6
  <1> QED BY <1>7, <1>8 DEF writes

-----------------------------------------------------------------------------
(* Steps that leave the flash alone.                                       *)

(* main goes on, outside of a save. *)
LEMMA FlashKeptByMove ==
    ASSUME FlashFits, NoKeyIsLost, UNCHANGED <<nvs, efuse, promised, saved>>,
           dev'.todo = dev.todo, dev'.cfg = dev.cfg, dev'.handle = dev.handle,
           dev'.phase = "saving" <=> dev.phase = "saving",
           dev'.phase \in {"clearing", "panicking"} => dev'.phase = dev.phase
    PROVE  FlashFits' /\ NoKeyIsLost'
  <1>1. PromiseInFlash'
    BY DEF FlashFits, PromiseInFlash, Todo, NoConfig
  <1>2. KeysInFlash'
    BY DEF FlashFits, KeysInFlash, Todo, Configs
  <1>3. RunsWhatIsStored'
    BY DEF FlashFits, RunsWhatIsStored, Load
  <1>4. OnlyCrashKeys'
    BY DEF FlashFits, OnlyCrashKeys, Todo
  <1>5. NoKeyIsLost'
    BY DEF NoKeyIsLost
  <1> QED BY <1>1, <1>2, <1>3, <1>4, <1>5 DEF FlashFits

(* A reset: what was promised is in flash, or is not promised any more. *)
LEMMA FlashKeptByReset ==
    ASSUME dev' = PoweredUp, UNCHANGED nvs,
           promised' # NoConfig =>
              promised' \in Configs /\ \A k \in Keys : StoredUnder(efuse', nvs[k], k, promised'),
           saved' = TRUE => \A k \in Keys : \E c \in Configs : StoredUnder(efuse', nvs[k], k, c)
    PROVE  FlashFits' /\ NoKeyIsLost'
  <1>1. dev'.phase = "boot" /\ dev'.handle = FALSE
    BY DEF PoweredUp
  <1>2. PromiseInFlash' /\ KeysInFlash'
    BY <1>1 DEF PromiseInFlash, KeysInFlash
  <1>3. RunsWhatIsStored' /\ OnlyCrashKeys' /\ NoKeyIsLost'
    BY <1>1 DEF RunsWhatIsStored, OnlyCrashKeys, NoKeyIsLost
  <1> QED BY <1>2, <1>3 DEF FlashFits

(* An ordinary reset, which a save does not survive as promised. *)
LEMMA FlashKeptByBreak ==
    ASSUME FlashFits, dev' = PoweredUp, UNCHANGED <<nvs, efuse>>, saved' = saved,
           promised' = IF dev.phase = "saving" THEN NoConfig ELSE promised
    PROVE  FlashFits' /\ NoKeyIsLost'
  <1>1. promised' # NoConfig => /\ promised' = promised /\ dev.phase # "saving"
    OBVIOUS
  <1>2. promised' # NoConfig =>
           promised' \in Configs /\ \A k \in Keys : StoredUnder(efuse', nvs[k], k, promised')
    BY <1>1 DEF FlashFits, PromiseInFlash
  <1>3. saved' = TRUE => \A k \in Keys : \E c \in Configs : StoredUnder(efuse', nvs[k], k, c)
    BY DEF FlashFits, KeysInFlash
  <1> QED BY <1>2, <1>3, FlashKeptByReset

(* The line and the receiver as they are. *)
LEMMA SerialKeptByMove ==
    ASSUME SerialFits, fifo' = fifo, dev'.rx = dev.rx, dev'.phase # "saving" => dev.phase # "saving",
           host'.intact = host.intact, host'.cfg = host.cfg,
           host'.phase = "sending" => host.phase = "sending" /\ host'.next = host.next
    PROVE  SerialFits'
  <1> SUFFICES ASSUME host.intact = TRUE, dev'.phase # "saving"
               PROVE  \/ StartLost'
                      \/ \E m \in 1 .. Len(Lines') :
                            (host'.phase = "sending" => m = host'.next - 1) /\ LinesWait(m)'
    BY DEF SerialFits
  <1>1. CASE StartLost
    BY <1>1 DEF StartLost
  <1>2. CASE \E m \in 1 .. Len(Lines) :
               (host.phase = "sending" => m = host.next - 1) /\ LinesWait(m)
    <2>1. Lines' = Lines
      BY DEF Lines
    <2>2. \A m : LinesWait(m)' <=> LinesWait(m)
      BY <2>1 DEF LinesWait
    <2> QED BY <1>2, <2>1, <2>2
  <1> QED BY <1>1, <1>2 DEF SerialFits

(* A reset empties both. *)
LEMMA SerialKeptByReset ==
    ASSUME dev' = PoweredUp, fifo' = <<>>
    PROVE  SerialFits'
  <1>1. dev'.rx = [buf |-> NoLine, started |-> FALSE, pairs |-> <<>>]
    BY DEF PoweredUp, NewReceiver
  <1>2. fifo' \in Seq({}) /\ Len(fifo') = 0
    OBVIOUS
  <1>3. StartLost'
    BY <1>1, <1>2 DEF StartLost
  <1> QED BY <1>3 DEF SerialFits

(* A new receiver on the same line: it has seen no START and may see none. *)
LEMMA LinesWaiting ==
    ASSUME NEW cfg, NEW m \in 1 .. Len(ConfigLines(cfg)), NEW d \in 0 .. m,
           NEW rx, NEW buffer, Waits(rx, buffer, ConfigLines(cfg), d, m)
    PROVE  /\ buffer \in Seq(LinesOf(cfg)) /\ Len(buffer) = m - d
           /\ \A i \in 1 .. m - d : buffer[i] = ConfigLines(cfg)[d + i]
  <1> DEFINE lines == ConfigLines(cfg)
             n == Len(lines)
             S == LinesOf(cfg)
             lo == d + 1
  <1>1. lines \in Seq(S) /\ n \in Nat
    BY LinesSent
  <1>2. m \in 1 .. n /\ d \in 0 .. m /\ buffer = SubSeq(lines, lo, m)
    BY DEF Waits
  <1> HIDE DEF lines, n, S, lo
  <1>3. lo \in Int /\ m \in Int /\ \A i \in lo .. m : i \in 1 .. n
    BY <1>1, <1>2 DEF lo
  <1>4. \A i \in lo .. m : lines[i] \in S
    <2>1. \A i \in 1 .. n : lines[i] \in S
      BY <1>1, ElementOfSeq DEF n
    <2> QED BY <1>3, <2>1
  <1>5. /\ SubSeq(lines, lo, m) \in Seq(S)
        /\ Len(SubSeq(lines, lo, m)) = (IF lo <= m THEN m - lo + 1 ELSE 0)
        /\ \A i \in 1 .. m - lo + 1 : SubSeq(lines, lo, m)[i] = lines[lo + i - 1]
    BY <1>3, <1>4, SubSeqProperties
  <1>6. /\ m - lo + 1 = m - d /\ (IF lo <= m THEN m - lo + 1 ELSE 0) = m - d
        /\ \A i \in 1 .. m - d : lo + i - 1 = d + i
    BY <1>1, <1>2 DEF lo
  <1>7. \A i \in 1 .. m - d : buffer[i] = lines[d + i]
    <2> TAKE i \in 1 .. m - d
    <2>1. i \in 1 .. m - lo + 1 /\ lo + i - 1 = d + i
      BY <1>6
    <2> QED BY <1>2, <1>5, <2>1
  <1> QED BY <1>2, <1>5, <1>6, <1>7 DEF S, lines

(* Lines other than the first are no START, and none is cut. *)
LEMMA NoSecondStart ==
    ASSUME NEW cfg, NEW i \in 1 .. Len(ConfigLines(cfg))
    PROVE  /\ ConfigLines(cfg)[i].cut = FALSE
           /\ i # 1 => ConfigLines(cfg)[i].text # "START"
  <1> DEFINE lines == ConfigLines(cfg)
             n == Len(lines)
             line == lines[i]
  <1>1. /\ n \in Nat /\ lines[1] = Start /\ lines[n] = End
        /\ \A j \in 2 .. n - 1 : \E k \in Keys : lines[j] = PairLine(cfg, k)
    BY LinesSent
  <1>2. i \in 1 .. n
    OBVIOUS
  <1> HIDE DEF lines, n
  <1>3. CASE i = 1
    BY <1>1, <1>3, LineFields DEF Start, lines
  <1>4. CASE i = n /\ i # 1
    <2>1. line = Line("END", <<>>)
      BY <1>1, <1>4 DEF End
    <2> HIDE DEF line
    <2>2. line.cut = FALSE /\ line.text = "END"
      BY <2>1, LineFields
    <2> QED BY <2>2 DEF line, lines
  <1>5. CASE i # n /\ i # 1
    <2>1. i \in 2 .. n - 1
      BY <1>1, <1>2, <1>5
    <2>2. PICK k \in Keys : line = Line(k, cfg[k])
      BY <1>1, <2>1 DEF PairLine
    <2> HIDE DEF line
    <2>3. line.cut = FALSE /\ line.text = k
      BY <2>2, LineFields
    <2>4. k # "START"
      BY KeysListed
    <2> QED BY <2>3, <2>4 DEF line, lines
  <1> QED BY <1>3, <1>4, <1>5

(* A receiver is made anew: what it had seen is lost, and nothing of it is *)
(* taken for a configuration (SerialConfigReceiver::new).                  *)
LEMMA SerialKeptByNewReceiver ==
    ASSUME SerialFits, fifo' = fifo, dev'.rx = NewReceiver, dev.phase # "saving", host' = host
    PROVE  SerialFits'
  <1> SUFFICES ASSUME host.intact = TRUE
               PROVE  \/ StartLost'
                      \/ \E m \in 1 .. Len(Lines') :
                            (host'.phase = "sending" => m = host'.next - 1) /\ LinesWait(m)'
    BY DEF SerialFits
  <1>0. dev'.rx = [buf |-> NoLine, started |-> FALSE, pairs |-> <<>>]
    BY DEF NewReceiver
  <1>1. CASE StartLost
    BY <1>0, <1>1 DEF StartLost
  <1>2. CASE \E m \in 1 .. Len(Lines) :
               (host.phase = "sending" => m = host.next - 1) /\ LinesWait(m)
    <2>1. PICK m \in 1 .. Len(Lines) :
             (host.phase = "sending" => m = host.next - 1) /\ LinesWait(m)
      BY <1>2
    <2>2. PICK d \in 0 .. m : Waits(dev.rx, fifo, Lines, d, m)
      BY <2>1 DEF LinesWait
    <2>3. Lines' = Lines
      BY DEF Lines
    <2>4. CASE d = 0
      <3>1. Waits(dev'.rx, fifo', Lines', d, m)
        BY <2>2, <2>3, <2>4 DEF Waits, Progress
      <3>2. LinesWait(m)'
        BY <3>1 DEF LinesWait
      <3> QED BY <2>1, <2>3, <3>2
    <2>5. CASE d # 0
      <3>1. /\ fifo \in Seq(LinesOf(host.cfg)) /\ Len(fifo) = m - d
            /\ \A i \in 1 .. m - d : fifo[i] = Lines[d + i]
        BY <2>1, <2>2, LinesWaiting DEF Lines
      <3>2. \A i \in 1 .. m - d : d + i \in 1 .. Len(Lines) /\ d + i # 1
        <4>1. Len(Lines) \in Nat
          BY LinesSent DEF Lines
        <4> HIDE DEF Lines
        <4> QED BY <2>1, <2>2, <2>5, <4>1
      <3>3. \A i \in 1 .. Len(fifo) : fifo[i].cut = FALSE /\ fifo[i].text # "START"
        <4> TAKE i \in 1 .. Len(fifo)
        <4>1. d + i \in 1 .. Len(Lines) /\ d + i # 1 /\ fifo[i] = Lines[d + i]
          BY <3>1, <3>2
        <4>2. Lines[d + i].cut = FALSE /\ Lines[d + i].text # "START"
          BY <4>1, NoSecondStart DEF Lines
        <4> QED BY <4>1, <4>2
      <3>4. StartLost'
        BY <1>0, <3>1, <3>3 DEF StartLost
      <3> QED BY <3>4
    <2> QED BY <2>4, <2>5
  <1> QED BY <1>1, <1>2 DEF SerialFits

(* The next line of the host. *)
LEMMA SerialKeptBySend ==
    ASSUME ConfInv, SendLine
    PROVE  HostTypeOK' /\ SerialFits'
  <1> DEFINE n == Len(Lines)
             p == host.next
             line == Lines[p]
             fits == Len(fifo) < FifoLines
             was == IF p = 1 THEN Untouched ELSE host.intact
  <1>0. /\ HostTypeOK /\ SerialFits /\ host.phase = "sending" /\ p \in 1 .. n
        /\ host.cfg \in Configs /\ dev' = dev /\ dev.phase # "saving"
    BY DEF ConfInv, SendLine, HostTypeOK, Polls
  <1>1. host' = [host EXCEPT !.next = p + 1, !.intact = was /\ fits,
                             !.phase = IF p = n THEN "awaiting" ELSE @]
    BY DEF SendLine
  <1>2. fits => fifo' = Append(fifo, line)
    BY DEF SendLine
  <1>3. n \in Nat /\ n >= 2
    BY LinesSent DEF Lines
  <1>4. /\ host' = [phase |-> host'.phase, cfg |-> host'.cfg, next |-> host'.next, intact |-> host'.intact]
        /\ host'.phase = (IF p = n THEN "awaiting" ELSE "sending") /\ host'.cfg = host.cfg
        /\ host'.next = p + 1
    BY <1>0, <1>1 DEF HostTypeOK
  <1>5. host'.intact = (was /\ fits)
    BY <1>0, <1>1 DEF HostTypeOK
  <1>6. Lines' = Lines
    BY <1>4 DEF Lines
  <1> HIDE DEF fits
  <1>7. HostTypeOK'
    <2>1. host'.intact \in BOOLEAN
      BY <1>0, <1>5 DEF HostTypeOK, Untouched
    <2>2. p # n => p + 1 \in 1 .. n /\ p + 1 # 1
      BY <1>0, <1>3
    <2> HIDE DEF n
    <2>3. Len(Lines') = n
      BY <1>6 DEF n
    <2>4. host'.phase = "sending" => host'.cfg \in Configs /\ host'.next \in 1 .. Len(Lines')
      BY <1>0, <1>4, <2>2, <2>3
    <2>5. host'.next # 1
      BY <1>0, <1>3, <1>4
    <2> QED BY <1>0, <1>4, <2>1, <2>4, <2>5 DEF HostTypeOK, Configs
  <1>8. ASSUME host'.intact = TRUE
        PROVE  \/ StartLost'
               \/ \E m \in 1 .. Len(Lines') :
                     (host'.phase = "sending" => m = host'.next - 1) /\ LinesWait(m)'
    <2>0. fits /\ was
      BY <1>5, <1>8
    <2>1. fifo' = Append(fifo, line)
      BY <1>2, <2>0
    <2>2. line.cut = FALSE /\ (p # 1 => line.text # "START")
      BY <1>0, NoSecondStart DEF Lines
    <2>3. CASE StartLost /\ p # 1
      <3>1. PICK S : fifo \in Seq(S)
        BY <2>3 DEF StartLost
      <3> HIDE DEF line
      <3>2. fifo \in Seq(S \cup {line}) /\ line \in S \cup {line} /\ Len(fifo) \in Nat
        BY <3>1, SeqMonotonic
      <3>3. /\ fifo' \in Seq(S \cup {line}) /\ Len(fifo') = Len(fifo) + 1
            /\ \A i \in 1 .. Len(fifo) + 1 : fifo'[i] = IF i = Len(fifo) + 1 THEN line ELSE fifo[i]
        BY <2>1, <3>2
      <3>4. \A i \in 1 .. Len(fifo') : fifo'[i].cut = FALSE /\ fifo'[i].text # "START"
        <4> TAKE i \in 1 .. Len(fifo')
        <4>1. CASE i = Len(fifo) + 1
          BY <2>2, <2>3, <3>3, <4>1
        <4>2. CASE i # Len(fifo) + 1
          <5>1. i \in 1 .. Len(fifo) /\ fifo'[i] = fifo[i]
            BY <3>2, <3>3, <4>2
          <5> QED BY <2>3, <5>1 DEF StartLost
        <4> QED BY <4>1, <4>2
      <3>5. StartLost'
        BY <1>0, <2>3, <3>3, <3>4 DEF StartLost
      <3> QED BY <3>5
    <2>4. ASSUME NEW d \in 0 .. p - 1, d < n, fifo = SubSeq(Lines, d + 1, p - 1),
                 dev.rx = Progress(Lines, d)
          PROVE  \E m \in 1 .. Len(Lines') :
                     (host'.phase = "sending" => m = host'.next - 1) /\ LinesWait(m)'
      <3>1. fifo' = SubSeq(Lines, d + 1, p)
        <4>1. Lines \in Seq(LinesOf(host.cfg))
          BY LinesSent DEF Lines
        <4>2. d + 1 \in 1 .. n /\ p \in d + 1 .. n
          BY <1>0, <1>3, <2>4
        <4> HIDE DEF Lines
        <4>3. SubSeq(Lines, d + 1, p) = SubSeq(Lines, d + 1, p - 1) \o <<line>>
          BY <4>1, <4>2, SubSeqRecursiveSecond
        <4>4. Append(fifo, line) = fifo \o <<line>>
          <5>1. fifo \in Seq(LinesOf(host.cfg))
            <6>1. \A i \in d + 1 .. p - 1 : i \in 1 .. Len(Lines)
              BY <1>0, <1>3, <2>4
            <6>2. \A i \in d + 1 .. p - 1 : Lines[i] \in LinesOf(host.cfg)
              BY <4>1, <6>1, ElementOfSeq
            <6>3. d + 1 \in Int /\ p - 1 \in Int
              BY <1>0, <1>3, <2>4
            <6> QED BY <2>4, <6>2, <6>3, SubSeqProperties
          <5>2. line \in LinesOf(host.cfg)
            BY <1>0, <4>1, ElementOfSeq
          <5> QED BY <5>1, <5>2, AppendIsConcat
        <4> QED BY <2>1, <2>4, <4>3, <4>4
      <3>2. Waits(dev'.rx, fifo', Lines', d, p)
        BY <1>0, <1>6, <2>4, <3>1 DEF Waits
      <3>3. d \in 0 .. p /\ p \in 1 .. Len(Lines') /\ host'.next - 1 = p
        BY <1>0, <1>3, <1>4, <1>6, <2>4
      <3>4. PICK m : m = p
        OBVIOUS
      <3>5. LinesWait(m)'
        BY <3>2, <3>3, <3>4 DEF LinesWait
      <3> QED BY <3>3, <3>4, <3>5
    <2>5. CASE p = 1
      <3>1. dev.rx = NewReceiver /\ fifo = <<>>
        BY <2>0, <2>5 DEF Untouched
      <3>2. SubSeq(Lines, 1, 0) = <<>>
        BY SubSeqEmpty
      <3>3. dev.rx = Progress(Lines, 0) /\ fifo = SubSeq(Lines, 0 + 1, p - 1) /\ 0 < n /\ 0 \in 0 .. p - 1
        BY <1>3, <2>5, <3>1, <3>2 DEF Progress
      <3> QED BY <2>4, <3>3
    <2>6. CASE p # 1 /\ \E m \in 1 .. n :
               (host.phase = "sending" => m = host.next - 1) /\ LinesWait(m)
      <3>1. PICK d \in 0 .. p - 1 : Waits(dev.rx, fifo, Lines, d, p - 1)
        BY <1>0, <2>6 DEF LinesWait
      <3> QED BY <2>4, <3>1 DEF Waits
    <2>7. p # 1 => host.intact = TRUE
      BY <1>0, <2>0 DEF HostTypeOK
    <2> QED BY <1>0, <2>3, <2>5, <2>6, <2>7 DEF SerialFits
  <1> QED BY <1>7, <1>8 DEF SerialFits

(* The poll: what comes of the lines that wait. *)
LEMMA PollOnIntactLine ==
    ASSUME ConfInv, Polls, host.intact = TRUE
    PROVE  LET r == Poll(dev.rx, fifo)
           IN  /\ r.left = <<>>
               /\ \/ /\ r.config = NoConfig
                     /\ \/ r.rx = [buf |-> NoLine, started |-> FALSE, pairs |-> r.rx.pairs]
                        \/ \E m \in 1 .. Len(Lines) :
                              /\ host.phase = "sending" => m = host.next - 1
                              /\ Waits(r.rx, <<>>, Lines, m, m)
                  \/ r.config = host.cfg /\ r.config # NoConfig /\ r.rx = NewReceiver
  <1> DEFINE r == Poll(dev.rx, fifo)
             n == Len(Lines)
  <1>0. host.cfg \in Configs /\ Sendable(host.cfg) /\ host.cfg # NoConfig /\ dev.phase # "saving"
    BY ConfigsAreSendable DEF ConfInv, HostTypeOK, Polls
  <1>1. CASE StartLost
    <2>1. PICK S : fifo \in Seq(S)
      BY <1>1 DEF StartLost
    <2>2. r = PollResult(dev.rx, <<>>, "", NoConfig)
      BY <1>1, <2>1, PollMissesAll DEF StartLost
    <2> HIDE DEF r
    <2>3. r.left = <<>> /\ r.config = NoConfig /\ r.rx = dev.rx
      BY <2>2 DEF PollResult
    <2>4. r.rx = [buf |-> NoLine, started |-> FALSE, pairs |-> r.rx.pairs]
      BY <1>1, <2>3 DEF StartLost
    <2> QED BY <2>3, <2>4 DEF r
  <1>2. CASE \E m \in 1 .. n : (host.phase = "sending" => m = host.next - 1) /\ LinesWait(m)
    <2>a. PICK m \in 1 .. n : (host.phase = "sending" => m = host.next - 1) /\ LinesWait(m)
      BY <1>2
    <2>1. PICK d \in 0 .. m : Waits(dev.rx, fifo, Lines, d, m)
      BY <2>a DEF LinesWait
    <2>2. /\ m < n => r = PollResult(Progress(Lines, m), <<>>, "", NoConfig)
          /\ m = n => r = PollResult(NewReceiver, <<>>, "CONFIG_OK", host.cfg)
      <3>1. \A cfg, rx, buffer : Sendable(cfg) /\ m \in 1 .. Len(ConfigLines(cfg))
                /\ Waits(rx, buffer, ConfigLines(cfg), d, m) => Takes(Poll(rx, buffer), cfg, m)
        BY PollTakesOn
      <3>2. Takes(Poll(dev.rx, fifo), host.cfg, m)
        BY <1>0, <2>1, <3>1 DEF Lines
      <3> QED BY <3>2 DEF Takes, Lines
    <2>3. n \in Nat
      BY LinesSent DEF Lines
    <2> HIDE DEF r
    <2>4. CASE m < n
      <3>1. r.left = <<>> /\ r.config = NoConfig /\ r.rx = Progress(Lines, m)
        <4>1. r = PollResult(Progress(Lines, m), <<>>, "", NoConfig)
          BY <2>2, <2>4
        <4> QED BY <4>1 DEF PollResult
      <3>2. SubSeq(Lines, m + 1, m) = <<>>
        BY <2>3, SubSeqEmpty
      <3>3. Waits(r.rx, <<>>, Lines, m, m)
        BY <2>4, <3>1, <3>2 DEF Waits
      <3> QED BY <2>a, <3>1, <3>3 DEF r
    <2>5. CASE m = n
      <3>1. r.left = <<>> /\ r.config = host.cfg /\ r.rx = NewReceiver
        <4>1. r = PollResult(NewReceiver, <<>>, "CONFIG_OK", host.cfg)
          BY <2>2, <2>5
        <4> QED BY <4>1 DEF PollResult
      <3> QED BY <1>0, <3>1 DEF r
    <2> HIDE DEF n
    <2> QED BY <2>1, <2>3, <2>4, <2>5
  <1>3. StartLost \/ \E m \in 1 .. n : (host.phase = "sending" => m = host.next - 1) /\ LinesWait(m)
    BY <1>0 DEF ConfInv, SerialFits
  <1> QED BY <1>1, <1>2, <1>3

(* What a poll leaves on the serial line and in the receiver (PollSerial). *)
LEMMA SerialKeptByPoll ==
    ASSUME ConfInv, PollSerial
    PROVE  SerialFits'
  <1> SUFFICES ASSUME host'.intact = TRUE, dev'.phase # "saving"
               PROVE  \/ StartLost'
                      \/ \E m \in 1 .. Len(Lines') :
                            (host'.phase = "sending" => m = host'.next - 1) /\ LinesWait(m)'
    BY DEF SerialFits
  <1> DEFINE r == Poll(dev.rx, fifo)
  <1>0. Polls /\ host' = host /\ host.intact = TRUE /\ IsDev(dev) /\ Lines' = Lines
    BY DEF ConfInv, BootInv, BootTypeOK, PollSerial, world, Lines
  <1>1. /\ r.left = <<>>
        /\ \/ /\ r.config = NoConfig
              /\ \/ r.rx = [buf |-> NoLine, started |-> FALSE, pairs |-> r.rx.pairs]
                 \/ \E m \in 1 .. Len(Lines) :
                       /\ host.phase = "sending" => m = host.next - 1
                       /\ Waits(r.rx, <<>>, Lines, m, m)
           \/ r.config = host.cfg /\ r.config # NoConfig /\ r.rx = NewReceiver
    BY <1>0, PollOnIntactLine
  <1>2. /\ fifo' = r.left
        /\ IF r.config = NoConfig THEN dev' = [dev EXCEPT !.rx = r.rx] ELSE Accept(r.config, r.rx)
    BY DEF PollSerial
  <1> HIDE DEF r
  <1>3. dev'.rx = r.rx
    <2>1. CASE r.config = NoConfig
      BY <1>0, <1>2, <2>1 DEF IsDev
    <2>2. CASE r.config # NoConfig /\ dev.handle
      <3>1. dev'.phase = "saving"
        BY <1>0, <1>2, <2>2 DEF IsDev, Accept
      <3> QED BY <3>1
    <2>3. CASE r.config # NoConfig /\ ~dev.handle
      BY <1>0, <1>2, <2>3 DEF IsDev, Accept
    <2> QED BY <2>1, <2>2, <2>3
  <1>4. fifo' \in Seq({}) /\ Len(fifo') = 0
    BY <1>1, <1>2
  <1>5. ASSUME r.rx = [buf |-> NoLine, started |-> FALSE, pairs |-> r.rx.pairs]
        PROVE  StartLost'
    BY <1>3, <1>4, <1>5 DEF StartLost
  <1>6. ASSUME NEW m \in 1 .. Len(Lines), host.phase = "sending" => m = host.next - 1,
               Waits(r.rx, <<>>, Lines, m, m)
        PROVE  (host'.phase = "sending" => m = host'.next - 1) /\ LinesWait(m)'
    <2>1. Waits(dev'.rx, fifo', Lines', m, m)
      BY <1>0, <1>1, <1>2, <1>3, <1>6
    <2>2. m \in 0 .. m
      <3>1. Len(Lines) \in Nat
        BY LinesSent DEF Lines
      <3> QED BY <3>1
    <2> QED BY <1>0, <1>6, <2>1, <2>2 DEF LinesWait
  <1>7. CASE r.rx = NewReceiver
    <2>1. r.rx = [buf |-> NoLine, started |-> FALSE, pairs |-> <<>>]
      BY <1>7 DEF NewReceiver
    <2> QED BY <1>5, <2>1
  <1> QED BY <1>0, <1>1, <1>5, <1>6, <1>7

(* A poll accepts nothing but the configuration that was sent (PollSerial, *)
(* MainLoop::tick).                                                        *)
LEMMA FlashKeptByPoll ==
    ASSUME ConfInv, PollSerial
    PROVE  FlashFits' /\ NoKeyIsLost'
  <1> DEFINE r == Poll(dev.rx, fifo)
             Taken == r.config # NoConfig /\ dev.handle
  <1>0. /\ Polls /\ FlashFits /\ NoKeyIsLost /\ IsDev(dev) /\ UNCHANGED <<nvs, efuse>>
        /\ dev.phase \notin {"saving", "clearing", "panicking"} /\ efuse \in Fuses
        /\ host.intact \in BOOLEAN
    BY DEF ConfInv, BootInv, BootTypeOK, HostTypeOK, PollSerial, Polls, store
  <1>1. /\ IF r.config = NoConfig THEN dev' = [dev EXCEPT !.rx = r.rx] ELSE Accept(r.config, r.rx)
        /\ IF r.config = NoConfig \/ ~dev.handle THEN UNCHANGED <<promised, saved>>
           ELSE IF host.intact THEN promised' = host.cfg /\ saved' = saved
           ELSE promised' = NoConfig /\ saved' = FALSE
    BY DEF PollSerial
  <1>2. CASE ~Taken
    <2> HIDE DEF r
    <2>1. UNCHANGED <<promised, saved>>
      BY <1>1, <1>2
    <2>2. /\ dev'.todo = dev.todo /\ dev'.cfg = dev.cfg /\ dev'.handle = dev.handle
          /\ dev'.phase = dev.phase \/ dev'.phase = "connecting"
      BY <1>0, <1>1, <1>2 DEF IsDev, Accept
    <2>3. (dev'.phase = "saving" <=> dev.phase = "saving")
          /\ (dev'.phase \in {"clearing", "panicking"} => dev'.phase = dev.phase)
      BY <1>0, <2>2
    <2> QED BY <1>0, <2>1, <2>2, <2>3, FlashKeptByMove
  <1>3. CASE Taken
    <2>1. PICK nonce \in [Passwords -> Nonces] :
            dev' = [dev EXCEPT !.phase = "saving", !.todo = SaveOps(r.config, efuse, nonce)]
      BY <1>1, <1>3 DEF Accept
    <2>2. /\ dev'.phase = "saving" /\ dev'.todo = SaveOps(r.config, efuse, nonce)
          /\ dev'.cfg = dev.cfg /\ dev'.handle = dev.handle
      <3> HIDE DEF r
      <3> QED BY <1>0, <2>1 DEF IsDev
    <2>3. RunsWhatIsStored' /\ OnlyCrashKeys'
      BY <2>2 DEF RunsWhatIsStored, OnlyCrashKeys
    <2>4. CASE host.intact = TRUE
      <3>1. r.config = host.cfg /\ host.cfg \in Configs
        BY <1>0, <1>3, <2>4, PollOnIntactLine DEF ConfInv, HostTypeOK
      <3>2. promised' = host.cfg /\ saved' = saved
        BY <1>1, <1>3, <2>4
      <3> HIDE DEF r
      <3> DEFINE writes == SaveOps(host.cfg, efuse, nonce)
      <3>3. dev'.todo = writes
        BY <2>2, <3>1
      <3>4. /\ \A i \in DOMAIN writes : StoredUnder(efuse, writes[i].value, writes[i].key, host.cfg)
            /\ \A k \in Keys : \E i \in DOMAIN writes : writes[i].key = k
        BY <1>0, <3>1, SaveWrites
      <3> HIDE DEF writes
      <3>5. PromiseInFlash'
        BY <1>0, <2>2, <3>1, <3>2, <3>3, <3>4 DEF PromiseInFlash, Todo, Configs
      <3>6. KeysInFlash'
        BY <1>0, <2>2, <3>1, <3>2, <3>3, <3>4 DEF FlashFits, KeysInFlash, Todo, Configs
      <3>7. NoKeyIsLost'
        BY <1>0, <2>2, <3>2 DEF NoKeyIsLost, Configs
      <3> QED BY <2>3, <3>5, <3>6, <3>7 DEF FlashFits
    <2>5. CASE host.intact = FALSE
      <3>1. promised' = NoConfig /\ saved' = FALSE
        BY <1>1, <1>3, <2>5
      <3>2. PromiseInFlash' /\ KeysInFlash' /\ NoKeyIsLost'
        BY <3>1 DEF PromiseInFlash, KeysInFlash, NoKeyIsLost, NoConfig
      <3> QED BY <2>3, <3>2 DEF FlashFits
    <2> QED BY <1>0, <2>4, <2>5
  <1> QED BY <1>2, <1>3

-----------------------------------------------------------------------------
(* Steps that write to the flash, or read it.                              *)

(* Writes of a crash record are planned (HandOver, Panic).                 *)
LEMMA FlashKeptByPlan ==
    ASSUME FlashFits, NoKeyIsLost, UNCHANGED <<nvs, efuse, promised, saved>>,
           dev'.cfg = dev.cfg, dev'.handle = dev.handle,
           dev.phase # "saving", dev'.phase # "saving",
           \A i \in DOMAIN dev'.todo : dev'.todo[i].key \in CrashKeys
    PROVE  FlashFits' /\ NoKeyIsLost'
  <1>1. PromiseInFlash'
    BY DEF FlashFits, PromiseInFlash, Todo, NoConfig, Configs
  <1>2. KeysInFlash'
    BY DEF FlashFits, KeysInFlash, Todo, Configs
  <1>3. RunsWhatIsStored'
    BY DEF FlashFits, RunsWhatIsStored, Load
  <1>4. OnlyCrashKeys'
    BY DEF OnlyCrashKeys, Todo
  <1>5. NoKeyIsLost'
    BY DEF NoKeyIsLost
  <1> QED BY <1>1, <1>2, <1>3, <1>4, <1>5 DEF FlashFits

(* What is stored of a configuration is loaded. *)
LEMMA StoredIsLoaded ==
    ASSUME NEW block, NEW flash, NEW c, NEW k \in Keys, StoredUnder(block, flash[k], k, c)
    PROVE  Load(flash, block)[k] = c[k]
  BY DEF StoredUnder, Load

(* The configuration in use is the one in flash (AppConfig::load).         *)
LEMMA FlashKeptByLoad ==
    ASSUME FlashFits, LoadConfig, IsDev(dev), dev.todo = <<>>
    PROVE  FlashFits' /\ NoKeyIsLost'
  <1>1. /\ UNCHANGED <<nvs, efuse, promised, saved>> /\ dev.phase = "boot"
        /\ dev'.phase = "loaded" /\ dev'.cfg = Load(nvs, efuse) /\ dev'.todo = <<>>
    BY DEF LoadConfig, store, ghosts, IsDev
  <1>2. PromiseInFlash'
    BY <1>1 DEF FlashFits, PromiseInFlash, Todo, NoConfig, Configs
  <1>3. KeysInFlash'
    BY <1>1 DEF FlashFits, KeysInFlash, Todo, Configs
  <1>4. RunsWhatIsStored' /\ OnlyCrashKeys'
    BY <1>1 DEF RunsWhatIsStored, OnlyCrashKeys, Load
  <1>5. NoKeyIsLost'
    <2>1. SUFFICES ASSUME saved' = TRUE, NEW k \in Keys PROVE \E c \in Configs : dev'.cfg[k] = c[k]
      BY DEF NoKeyIsLost, Configs
    <2>2. PICK c \in Configs : StoredUnder(efuse, nvs[k], k, c)
      BY <1>1, <2>1 DEF FlashFits, KeysInFlash
    <2>3. Load(nvs, efuse)[k] = c[k]
      BY <2>2, StoredIsLoaded
    <2> QED BY <1>1, <2>3
  <1> QED BY <1>2, <1>3, <1>4, <1>5 DEF FlashFits

(* The rest of what is to be written. *)
LEMMA RestOfTodo ==
    ASSUME BootInv, dev.todo # <<>>, dev'.todo = Tail(dev.todo)
    PROVE  /\ \A i \in Todo' : i + 1 \in Todo /\ dev'.todo[i] = dev.todo[i + 1]
           /\ \A i \in Todo : i = 1 \/ (i - 1 \in Todo' /\ dev'.todo[i - 1] = dev.todo[i])
           /\ 1 \in Todo /\ Head(dev.todo) = dev.todo[1]
           /\ dev.phase \in {"saving", "clearing", "panicking"}
  <1>1. PICK values : dev.todo \in Seq(Writes(values))
    BY DEF BootInv, BootTypeOK
  <1>2. dev.phase \in {"saving", "clearing", "panicking"}
    BY DEF BootInv, NothingToWrite
  <1> DEFINE s == dev.todo
             n == Len(s)
  <1>3. n \in Nat /\ n # 0 /\ DOMAIN s = 1 .. n
    BY <1>1
  <1>4. /\ Tail(s) \in Seq(Writes(values)) /\ Len(Tail(s)) = n - 1
        /\ \A i \in 1 .. n - 1 : Tail(s)[i] = s[i + 1]
    BY <1>1, HeadTailProperties
  <1>5. DOMAIN Tail(s) = 1 .. n - 1
    BY <1>3, <1>4
  <1>6. \A i \in 1 .. n - 1 : i + 1 \in 1 .. n
    BY <1>3
  <1>7. \A i \in 1 .. n : i = 1 \/ (i - 1 \in 1 .. n - 1 /\ (i - 1) + 1 = i)
    BY <1>3
  <1>8. Head(s) = s[1] /\ 1 \in 1 .. n
    BY <1>1, <1>3
  <1> HIDE DEF n
  <1>9. \A i \in Todo' : i + 1 \in Todo /\ dev'.todo[i] = dev.todo[i + 1]
    BY <1>3, <1>4, <1>5, <1>6 DEF Todo
  <1>10. \A i \in Todo : i = 1 \/ (i - 1 \in Todo' /\ dev'.todo[i - 1] = dev.todo[i])
    BY <1>3, <1>4, <1>5, <1>7 DEF Todo
  <1> QED BY <1>2, <1>3, <1>8, <1>9, <1>10 DEF Todo

(* A write that went through, of a save or of a crash record (nvs_set).    *)
LEMMA FlashKeptByWrite ==
    ASSUME ConfInv, FlashStep
    PROVE  FlashFits' /\ NoKeyIsLost'
  <1> DEFINE op == Head(dev.todo)
  <1>0. /\ BootInv /\ FlashFits /\ NoKeyIsLost /\ IsDev(dev) /\ dev.todo # <<>>
        /\ UNCHANGED <<efuse, promised, saved>> /\ nvs' = [nvs EXCEPT ![op.key] = op.value]
        /\ nvs = [k \in Keys \cup CrashKeys |-> nvs[k]]
    BY DEF ConfInv, BootInv, BootTypeOK, FlashStep, ghosts
  <1>1. /\ dev'.todo = Tail(dev.todo) /\ dev'.phase = dev.phase /\ dev'.cfg = dev.cfg
        /\ dev'.handle = dev.handle
    BY <1>0 DEF FlashStep, IsDev
  <1>2. /\ \A i \in Todo' : i + 1 \in Todo /\ dev'.todo[i] = dev.todo[i + 1]
        /\ \A i \in Todo : i = 1 \/ (i - 1 \in Todo' /\ dev'.todo[i - 1] = dev.todo[i])
        /\ 1 \in Todo /\ op = dev.todo[1]
        /\ dev.phase \in {"saving", "clearing", "panicking"}
    BY <1>0, <1>1, RestOfTodo
  <1> HIDE DEF op
  <1>3. \A k \in Keys : nvs'[k] = IF k = op.key THEN op.value ELSE nvs[k]
    BY <1>0
  <1>4. NoKeyIsLost'
    BY <1>0, <1>1 DEF NoKeyIsLost, Configs
  <1>5. CASE dev.phase = "saving"
    <2>1. RunsWhatIsStored' /\ OnlyCrashKeys'
      BY <1>1, <1>5 DEF RunsWhatIsStored, OnlyCrashKeys
    <2>2. PromiseInFlash'
      <3> SUFFICES ASSUME promised # NoConfig
                   PROVE  /\ promised \in Configs
                          /\ \A k \in Keys : \/ StoredUnder(efuse, nvs'[k], k, promised)
                                             \/ \E i \in Todo' : dev'.todo[i].key = k
                          /\ \A i \in Todo' :
                               StoredUnder(efuse, dev'.todo[i].value, dev'.todo[i].key, promised)
        BY <1>0, <1>1, <1>5 DEF PromiseInFlash, NoConfig, Configs
      <3>1. /\ promised \in Configs
            /\ \A k \in Keys : \/ StoredUnder(efuse, nvs[k], k, promised)
                               \/ \E i \in Todo : dev.todo[i].key = k
            /\ \A i \in Todo : StoredUnder(efuse, dev.todo[i].value, dev.todo[i].key, promised)
        BY <1>0, <1>5 DEF FlashFits, PromiseInFlash
      <3>2. StoredUnder(efuse, op.value, op.key, promised)
        BY <1>2, <3>1
      <3>3. ASSUME NEW k \in Keys
            PROVE  \/ StoredUnder(efuse, nvs'[k], k, promised)
                   \/ \E i \in Todo' : dev'.todo[i].key = k
        <4>1. CASE k = op.key
          BY <1>3, <3>2, <4>1
        <4>2. CASE k # op.key
          <5>1. nvs'[k] = nvs[k]
            BY <1>3, <4>2
          <5>2. CASE StoredUnder(efuse, nvs[k], k, promised)
            BY <5>1, <5>2
          <5>3. CASE \E i \in Todo : dev.todo[i].key = k
            BY <1>2, <4>2, <5>3
          <5> QED BY <3>1, <5>2, <5>3
        <4> QED BY <4>1, <4>2
      <3> QED BY <1>2, <3>1, <3>3
    <2>3. KeysInFlash'
      <3> SUFFICES ASSUME saved = TRUE
                   PROVE  /\ \A k \in Keys : \E c \in Configs : StoredUnder(efuse, nvs'[k], k, c)
                          /\ \A i \in Todo' : \E c \in Configs :
                               StoredUnder(efuse, dev'.todo[i].value, dev'.todo[i].key, c)
        BY <1>0, <1>1, <1>5 DEF KeysInFlash, Configs
      <3>1. /\ \A k \in Keys : \E c \in Configs : StoredUnder(efuse, nvs[k], k, c)
            /\ \A i \in Todo : \E c \in Configs :
                 StoredUnder(efuse, dev.todo[i].value, dev.todo[i].key, c)
        BY <1>0, <1>5 DEF FlashFits, KeysInFlash
      <3>2. PICK c \in Configs : StoredUnder(efuse, op.value, op.key, c)
        BY <1>2, <3>1
      <3>3. \A k \in Keys : \E b \in Configs : StoredUnder(efuse, nvs'[k], k, b)
        BY <1>3, <3>1, <3>2
      <3> QED BY <1>2, <3>1, <3>3
    <2> QED BY <1>4, <2>1, <2>2, <2>3 DEF FlashFits
  <1>6. CASE dev.phase \in {"clearing", "panicking"}
    <2>1. \A i \in Todo : dev.todo[i].key \in CrashKeys
      BY <1>0, <1>6 DEF FlashFits, OnlyCrashKeys
    <2>2. op.key \notin Keys
      BY <1>2, <2>1, KeysApart DEF CrashKeys
    <2>3. \A k \in Keys : nvs'[k] = nvs[k]
      BY <1>3, <2>2
    <2>4. OnlyCrashKeys'
      BY <1>1, <1>2, <2>1 DEF OnlyCrashKeys
    <2>5. PromiseInFlash'
      BY <1>0, <1>1, <1>6, <2>3 DEF FlashFits, PromiseInFlash, NoConfig, Configs
    <2>6. KeysInFlash'
      BY <1>0, <1>1, <1>6, <2>3 DEF FlashFits, KeysInFlash, Configs
    <2>7. Load(nvs', efuse') = Load(nvs, efuse)
      BY <1>0, <2>3 DEF Load
    <2>8. RunsWhatIsStored'
      <3>1. dev'.handle = TRUE => dev'.cfg = Load(nvs, efuse)
        BY <1>0, <1>1, <1>6 DEF FlashFits, RunsWhatIsStored
      <3> QED BY <2>7, <3>1 DEF RunsWhatIsStored
    <2> QED BY <1>4, <2>4, <2>5, <2>6, <2>8 DEF FlashFits
  <1> QED BY <1>2, <1>5, <1>6

(* A write that failed: the others go on without it (nvs_set).             *)
LEMMA FlashKeptByError ==
    ASSUME ConfInv, FlashError
    PROVE  FlashFits' /\ NoKeyIsLost'
  <1>0. /\ BootInv /\ FlashFits /\ NoKeyIsLost /\ IsDev(dev) /\ dev.todo # <<>>
        /\ UNCHANGED <<nvs, efuse, saved>>
        /\ promised' = IF dev.phase = "saving" THEN NoConfig ELSE promised
    BY DEF ConfInv, BootInv, BootTypeOK, FlashError, store
  <1>1. /\ dev'.todo = Tail(dev.todo) /\ dev'.phase = dev.phase /\ dev'.cfg = dev.cfg
        /\ dev'.handle = dev.handle
    BY <1>0 DEF FlashError, IsDev
  <1>2. \A i \in Todo' : i + 1 \in Todo /\ dev'.todo[i] = dev.todo[i + 1]
    BY <1>0, <1>1, RestOfTodo
  <1>3. NoKeyIsLost'
    BY <1>0, <1>1 DEF NoKeyIsLost, Configs
  <1>4. PromiseInFlash'
    BY <1>0, <1>1 DEF FlashFits, PromiseInFlash, NoConfig, Configs
  <1>5. KeysInFlash'
    BY <1>0, <1>1, <1>2 DEF FlashFits, KeysInFlash, Configs
  <1>6. RunsWhatIsStored'
    BY <1>0, <1>1 DEF FlashFits, RunsWhatIsStored, Load
  <1>7. OnlyCrashKeys'
    BY <1>0, <1>1, <1>2 DEF FlashFits, OnlyCrashKeys
  <1> QED BY <1>3, <1>4, <1>5, <1>6, <1>7 DEF FlashFits

(* A save has written all its keys (AppConfig::save).                      *)
LEMMA FlashKeptByDone ==
    ASSUME ConfInv, FlashDone
    PROVE  FlashFits' /\ NoKeyIsLost' /\ saved' \in BOOLEAN
  <1>0. /\ FlashFits /\ NoKeyIsLost /\ IsDev(dev) /\ dev.todo = <<>> /\ saved \in BOOLEAN
        /\ UNCHANGED <<nvs, efuse, promised>>
        /\ saved' = (saved \/ (dev.phase = "saving" /\ promised # NoConfig))
    BY DEF ConfInv, BootInv, BootTypeOK, FlashDone, store
  <1>1. CASE dev.phase = "clearing"
    <2>1. /\ dev'.phase = "wifi" /\ dev'.cfg = dev.cfg /\ dev'.handle = dev.handle
          /\ dev'.todo = <<>>
      BY <1>0, <1>1 DEF FlashDone, Enter, IsDev
    <2>2. saved' = saved
      BY <1>0, <1>1
    <2>3. \A i \in DOMAIN dev'.todo : dev'.todo[i].key \in CrashKeys
      BY <2>1
    <2> QED BY <1>0, <1>1, <2>1, <2>2, <2>3, FlashKeptByPlan
  <1>2. CASE dev.phase # "clearing"
    <2>1. dev' = PoweredUp
      BY <1>2 DEF FlashDone, Reset
    <2>2. Todo = {}
      BY <1>0 DEF Todo
    <2>3. promised # NoConfig =>
             promised \in Configs /\ \A k \in Keys : StoredUnder(efuse, nvs[k], k, promised)
      BY <1>0, <2>2 DEF FlashFits, PromiseInFlash
    <2>4. saved' = TRUE => \A k \in Keys : \E c \in Configs : StoredUnder(efuse, nvs[k], k, c)
      <3>1. CASE saved = TRUE
        BY <1>0, <3>1 DEF FlashFits, KeysInFlash
      <3>2. CASE saved = FALSE
        BY <1>0, <2>3, <3>2
      <3> QED BY <1>0, <3>1, <3>2
    <2>5. saved' \in BOOLEAN
      BY <1>0
    <2> QED BY <1>0, <2>1, <2>3, <2>4, <2>5, FlashKeptByReset
  <1> QED BY <1>1, <1>2

-----------------------------------------------------------------------------
(* The invariant holds at first, every step keeps it.                      *)
LEMMA HostKept ==
    ASSUME HostTypeOK, host' = host
    PROVE  HostTypeOK'
  BY DEF HostTypeOK, Lines, Configs

(* The invariant holds of a device as delivered (main).                    *)
LEMMA InitConfFits == Init => ConfInv
  <1> SUFFICES ASSUME Init PROVE ConfInv
    OBVIOUS
  <1>1. BootInv
    BY InitBootFits
  <1>2. efuse \in Fuses
    BY HardwareAssumption DEF Init, Fuses, Bytes
  <1>3. dev.handle = FALSE /\ dev.phase = "boot" /\ promised = NoConfig /\ saved = FALSE
    BY DEF Init, PoweredUp
  <1>4. FlashFits /\ NoKeyIsLost
    BY <1>3 DEF FlashFits, PromiseInFlash, KeysInFlash, RunsWhatIsStored, OnlyCrashKeys, NoKeyIsLost
  <1>5. host = [phase |-> "idle", cfg |-> NoConfig, next |-> 1, intact |-> FALSE]
    BY DEF Init, Idle
  <1>6. HostTypeOK /\ SerialFits
    BY <1>5 DEF HostTypeOK, SerialFits
  <1> QED BY <1>1, <1>2, <1>3, <1>4, <1>6 DEF ConfInv

(* A step in which main is reset. *)
LEMMA ConfKeptByBreak ==
    ASSUME ConfInv, BootInv', Reset, UNCHANGED <<nvs, efuse, host>>, saved' = saved,
           promised' = IF dev.phase = "saving" THEN NoConfig ELSE promised
    PROVE  ConfInv'
  <1>1. dev' = PoweredUp /\ fifo' = <<>> /\ dev'.handle = FALSE
    BY DEF Reset, PoweredUp
  <1>2. FlashFits' /\ NoKeyIsLost'
    BY <1>1, FlashKeptByBreak DEF ConfInv
  <1>3. SerialFits' /\ HostTypeOK'
    BY <1>1, SerialKeptByReset, HostKept DEF ConfInv
  <1> QED BY <1>1, <1>2, <1>3 DEF ConfInv

(* A step in which main goes on and reads no line. *)
LEMMA ConfKeptByMove ==
    ASSUME ConfInv, BootInv', UNCHANGED <<nvs, efuse, host, fifo, promised, saved>>,
           dev'.todo = dev.todo, dev'.cfg = dev.cfg, dev'.handle = dev.handle, dev'.rx = dev.rx,
           dev'.phase = "saving" <=> dev.phase = "saving",
           dev'.phase \in {"clearing", "panicking"} => dev'.phase = dev.phase
    PROVE  ConfInv'
  <1>1. FlashFits' /\ NoKeyIsLost'
    BY FlashKeptByMove DEF ConfInv
  <1>2. SerialFits' /\ HostTypeOK'
    BY SerialKeptByMove, HostKept DEF ConfInv
  <1> QED BY <1>1, <1>2 DEF ConfInv

(* Every step keeps the invariant (main, poll, save, load and the tools).  *)
LEMMA NextConfFits ==
    ASSUME ConfInv, [Next]_vars
    PROVE  ConfInv'
  <1>0. /\ BootInv /\ BootInv' /\ IsDev(dev) /\ FlashFits /\ NoKeyIsLost /\ HostTypeOK /\ SerialFits
        /\ efuse \in Fuses /\ dev.handle \in BOOLEAN /\ saved \in BOOLEAN
    BY NextBootFits DEF ConfInv, BootInv, BootTypeOK
  <1>1. CASE LoadConfig
    <2>1. UNCHANGED <<efuse, host, fifo, saved>> /\ dev.phase = "boot" /\ dev.todo = <<>>
      BY <1>0, <1>1 DEF LoadConfig, BootInv, NothingToWrite, store, serial, world, ghosts
    <2>2. dev'.rx = dev.rx /\ dev'.handle = TRUE
      BY <1>0, <1>1 DEF LoadConfig, IsDev
    <2>3. FlashFits' /\ NoKeyIsLost'
      BY <1>0, <1>1, <2>1, FlashKeptByLoad
    <2>4. SerialFits' /\ HostTypeOK'
      BY <1>0, <2>1, <2>2, SerialKeptByMove, HostKept
    <2> QED BY <1>0, <2>1, <2>2, <2>3, <2>4 DEF ConfInv
  <1>2. CASE WaitForConfig \/ NvsUnavailable \/ AwaitWifi \/ (Connect /\ ~Reset)
    <2>1. /\ UNCHANGED <<nvs, efuse, host, fifo, promised, saved>>
          /\ dev'.todo = dev.todo /\ dev'.cfg = dev.cfg /\ dev'.handle = dev.handle
          /\ dev'.rx = dev.rx
          /\ dev.phase # "saving" /\ dev'.phase \notin {"saving", "clearing", "panicking"}
      <3>1. CASE WaitForConfig
        BY <1>0, <3>1 DEF WaitForConfig, Enter, IsDev, store, serial, world, ghosts
      <3>2. CASE NvsUnavailable
        BY <1>0, <3>2 DEF NvsUnavailable, Enter, IsDev, store, serial, ghosts
      <3>3. CASE AwaitWifi
        BY <1>0, <3>3 DEF AwaitWifi, IsDev, store, serial, world, ghosts
      <3>4. CASE Connect /\ ~Reset
        BY <1>0, <3>4 DEF Connect, Connected, ConnectFails, IsDev, store, world
      <3> QED BY <1>2, <3>1, <3>2, <3>3, <3>4
    <2> QED BY <1>0, <2>1, ConfKeptByMove
  <1>3. CASE HandOver
    <2>1. /\ UNCHANGED <<nvs, efuse, host, fifo, promised, saved>>
          /\ dev.phase # "saving" /\ dev'.phase = "clearing" /\ dev'.rx = NewReceiver
          /\ dev'.cfg = dev.cfg /\ dev'.handle = dev.handle
          /\ dev'.todo = ClearCrashOps \/ dev'.todo = <<>>
      BY <1>0, <1>3 DEF HandOver, CanHandOver, IsDev, store, serial, world, ghosts
    <2>2. \A i \in DOMAIN dev'.todo : dev'.todo[i].key \in CrashKeys
      BY <2>1 DEF ClearCrashOps, NvsWrite, CrashKeys
    <2>3. FlashFits' /\ NoKeyIsLost'
      BY <1>0, <2>1, <2>2, FlashKeptByPlan
    <2>4. SerialFits' /\ HostTypeOK'
      BY <1>0, <2>1, SerialKeptByNewReceiver, HostKept
    <2> QED BY <1>0, <2>1, <2>3, <2>4 DEF ConfInv
  <1>4. CASE CloseWindow
    <2>1. /\ UNCHANGED <<nvs, efuse, host, fifo, promised, saved>>
          /\ dev.phase = "window" /\ dev'.phase = "connecting" /\ dev'.rx = NewReceiver
          /\ dev'.cfg = dev.cfg /\ dev'.handle = dev.handle /\ dev'.todo = dev.todo
      BY <1>0, <1>4 DEF CloseWindow, IsDev, store, serial, world, ghosts
    <2>2. FlashFits' /\ NoKeyIsLost'
      BY <1>0, <2>1, FlashKeptByMove
    <2>3. SerialFits' /\ HostTypeOK'
      BY <1>0, <2>1, SerialKeptByNewReceiver, HostKept
    <2> QED BY <1>0, <2>1, <2>2, <2>3 DEF ConfInv
  <1>5. CASE FlashStep \/ FlashError
    <2>1. /\ UNCHANGED <<efuse, host, fifo, saved>>
          /\ dev'.rx = dev.rx /\ dev'.handle = dev.handle /\ dev'.phase = dev.phase
      BY <1>0, <1>5 DEF FlashStep, FlashError, IsDev, store, serial, world, ghosts
    <2>2. FlashFits' /\ NoKeyIsLost'
      BY <1>5, FlashKeptByWrite, FlashKeptByError
    <2>3. SerialFits' /\ HostTypeOK'
      BY <1>0, <2>1, SerialKeptByMove, HostKept
    <2> QED BY <1>0, <2>1, <2>2, <2>3 DEF ConfInv
  <1>6. CASE FlashDone
    <2>1. UNCHANGED <<efuse, host>>
      BY <1>6 DEF FlashDone, store, world
    <2>2. FlashFits' /\ NoKeyIsLost' /\ saved' \in BOOLEAN
      BY <1>6, FlashKeptByDone
    <2>3. SerialFits' /\ dev'.handle \in BOOLEAN
      <3>1. CASE dev.phase = "clearing"
        <4>1. dev'.rx = dev.rx /\ fifo' = fifo /\ dev'.handle = dev.handle
          BY <1>0, <1>6, <3>1 DEF FlashDone, Enter, IsDev
        <4> QED BY <1>0, <2>1, <3>1, <4>1, SerialKeptByMove
      <3>2. CASE dev.phase # "clearing"
        <4>1. dev' = PoweredUp /\ fifo' = <<>> /\ dev'.handle = FALSE
          BY <1>6, <3>2 DEF FlashDone, Reset, PoweredUp
        <4> QED BY <4>1, SerialKeptByReset
      <3> QED BY <3>1, <3>2
    <2>4. HostTypeOK'
      BY <1>0, <2>1, HostKept
    <2> QED BY <1>0, <2>1, <2>2, <2>3, <2>4 DEF ConfInv
  <1>7. CASE Connect /\ Reset
    <2>1. UNCHANGED <<nvs, efuse, host, promised, saved>> /\ dev.phase # "saving"
      BY <1>7 DEF Connect, store, world
    <2> QED BY <1>0, <1>7, <2>1, ConfKeptByBreak
  <1>8. CASE WatchdogBites \/ WifiFails
    <2>1. Reset /\ UNCHANGED <<nvs, efuse, host, promised, saved>> /\ dev.phase # "saving"
      BY <1>8 DEF WatchdogBites, WifiFails, store, world, ghosts
    <2> QED BY <1>0, <2>1, ConfKeptByBreak
  <1>9. CASE PowerLoss
    <2>1. /\ Reset /\ UNCHANGED <<nvs, efuse, host, saved>>
          /\ promised' = IF dev.phase = "saving" THEN NoConfig ELSE promised
      BY <1>9 DEF PowerLoss, store
    <2> QED BY <1>0, <2>1, ConfKeptByBreak
  <1>10. CASE Panic
    <2>1. UNCHANGED <<nvs, efuse, host, saved>>
      BY <1>10 DEF Panic, store
    <2>2. PICK message \in Messages, heapLeft \in BOOLEAN :
            IF NvsPtrSet /\ heapLeft /\ nvs["magic"] = Absent
            THEN /\ dev' = [dev EXCEPT !.phase = "panicking", !.todo = WriteCrashOps(message)]
                 /\ UNCHANGED <<fifo, promised>>
            ELSE Reset /\ promised' = IF dev.phase = "saving" THEN NoConfig ELSE promised
      BY <1>10 DEF Panic
    <2>3. CASE NvsPtrSet /\ heapLeft /\ nvs["magic"] = Absent
      <3>1. /\ dev'.phase = "panicking" /\ dev'.todo = WriteCrashOps(message)
            /\ dev'.cfg = dev.cfg /\ dev'.handle = dev.handle /\ dev'.rx = dev.rx
            /\ dev.phase = "loaded" /\ UNCHANGED <<fifo, promised>>
        BY <1>0, <2>2, <2>3 DEF IsDev, NvsPtrSet
      <3>2. \A i \in DOMAIN dev'.todo : dev'.todo[i].key \in CrashKeys
        BY <3>1 DEF WriteCrashOps, NvsWrite, CrashKeys
      <3>3. FlashFits' /\ NoKeyIsLost'
        BY <1>0, <2>1, <3>1, <3>2, FlashKeptByPlan
      <3>4. SerialFits' /\ HostTypeOK'
        BY <1>0, <2>1, <3>1, SerialKeptByMove, HostKept
      <3> QED BY <1>0, <2>1, <3>1, <3>3, <3>4 DEF ConfInv
    <2>4. CASE ~(NvsPtrSet /\ heapLeft /\ nvs["magic"] = Absent)
      BY <1>0, <2>1, <2>2, <2>4, ConfKeptByBreak
    <2> QED BY <2>3, <2>4
  <1>11. CASE PollSerial
    <2>1. UNCHANGED <<efuse, host>>
      BY <1>11 DEF PollSerial, store, world
    <2>2. dev'.handle = dev.handle
      BY <1>0, <1>11 DEF PollSerial, Accept, IsDev
    <2>3. saved' \in BOOLEAN
      BY <1>0, <1>11 DEF PollSerial
    <2>4. FlashFits' /\ NoKeyIsLost' /\ SerialFits' /\ HostTypeOK'
      BY <1>0, <1>11, <2>1, FlashKeptByPoll, SerialKeptByPoll, HostKept
    <2> QED BY <1>0, <2>1, <2>2, <2>3, <2>4 DEF ConfInv
  <1>12. CASE StartFlash
    <2>1. PICK c \in Files, reset \in BOOLEAN :
            /\ Validate(c)
            /\ host' = [phase |-> "sending", cfg |-> c, next |-> 1, intact |-> FALSE]
            /\ IF reset THEN Reset /\ promised' = IF dev.phase = "saving" THEN NoConfig ELSE promised
               ELSE UNCHANGED <<dev, fifo, promised>>
      BY <1>12 DEF StartFlash
    <2>2. UNCHANGED <<nvs, efuse, saved>>
      BY <1>12 DEF StartFlash, store
    <2>3. SerialFits'
      BY <2>1 DEF SerialFits
    <2>4. HostTypeOK'
      <3>1. c \in Configs'
        BY <2>1 DEF Configs
      <3>2. 1 \in 1 .. Len(Lines')
        <4>1. Lines' = ConfigLines(c)
          BY <2>1 DEF Lines
        <4>2. Len(ConfigLines(c)) \in Nat /\ Len(ConfigLines(c)) >= 2
          BY LinesSent
        <4> QED BY <4>1, <4>2
      <3> QED BY <2>1, <3>1, <3>2 DEF HostTypeOK
    <2>5. FlashFits' /\ NoKeyIsLost' /\ dev'.handle \in BOOLEAN
      <3>1. CASE reset
        <4>1. /\ dev' = PoweredUp /\ dev'.handle = FALSE
              /\ promised' = IF dev.phase = "saving" THEN NoConfig ELSE promised
          BY <2>1, <3>1 DEF Reset, PoweredUp
        <4> QED BY <1>0, <2>2, <4>1, FlashKeptByBreak
      <3>2. CASE ~reset
        BY <1>0, <2>1, <2>2, <3>2, FlashKeptByMove
      <3> QED BY <3>1, <3>2
    <2> QED BY <1>0, <2>2, <2>3, <2>4, <2>5 DEF ConfInv
  <1>13. CASE SendLine
    <2>1. UNCHANGED <<nvs, efuse, dev, promised, saved>>
      BY <1>13 DEF SendLine, store, ghosts
    <2>2. FlashFits' /\ NoKeyIsLost'
      BY <1>0, <2>1, FlashKeptByMove
    <2>3. HostTypeOK' /\ SerialFits'
      BY <1>13, SerialKeptBySend
    <2> QED BY <1>0, <2>1, <2>2, <2>3 DEF ConfInv
  <1>14. CASE EndFlash
    <2>1. UNCHANGED <<nvs, efuse, dev, fifo, promised, saved>>
      BY <1>14 DEF EndFlash, store, ghosts
    <2>2. host' = [phase |-> "idle", cfg |-> host.cfg, next |-> 1, intact |-> host.intact]
      BY <1>0, <1>14 DEF EndFlash, HostTypeOK
    <2>3. FlashFits' /\ NoKeyIsLost'
      BY <1>0, <2>1, FlashKeptByMove
    <2>4. SerialFits'
      BY <1>0, <2>1, <2>2, SerialKeptByMove
    <2>5. HostTypeOK'
      BY <1>0, <2>2 DEF HostTypeOK, Configs
    <2> QED BY <1>0, <2>1, <2>3, <2>4, <2>5 DEF ConfInv
  <1>15. CASE Provision
    <2>1. /\ efuse' = NewKey /\ Reset /\ promised' = NoConfig /\ saved' = FALSE
          /\ UNCHANGED <<nvs, host>>
      BY <1>15 DEF Provision
    <2>2. dev' = PoweredUp /\ fifo' = <<>> /\ dev'.handle = FALSE
      BY <2>1 DEF Reset, PoweredUp
    <2>3. FlashFits' /\ NoKeyIsLost'
      BY <2>1, <2>2, FlashKeptByReset
    <2>4. SerialFits' /\ HostTypeOK'
      BY <1>0, <2>1, <2>2, SerialKeptByReset, HostKept
    <2>5. efuse' \in Fuses
      BY <2>1, HardwareAssumption DEF Fuses, Bytes
    <2> QED BY <1>0, <2>1, <2>2, <2>3, <2>4, <2>5 DEF ConfInv
  <1>16. CASE NetworkDrops \/ NetworkReturns \/ UNCHANGED vars
    <2>1. UNCHANGED <<nvs, efuse, dev, host, fifo, promised, saved>>
      BY <1>16 DEF NetworkDrops, NetworkReturns, vars, store, serial, world, ghosts
    <2> QED BY <1>0, <2>1, ConfKeptByMove
  <1> QED BY <1>1, <1>2, <1>3, <1>4, <1>5, <1>6, <1>7, <1>8, <1>9, <1>10, <1>11, <1>12, <1>13,
             <1>14, <1>15, <1>16 DEF Next, Firmware, Person, Faults

(* A configuration that arrived whole is what the device runs with after   *)
(* the reset, and none that was saved loses a key to one that did not      *)
(* (SerialConfigReceiver::poll, AppConfig::save, AppConfig::load).         *)
THEOREM ConfigurationIsKept == Spec => []ConfigurationKept
  <1>1. ConfInv => ConfigurationKept
    <2> SUFFICES ASSUME ConfInv PROVE ConfigurationKept
      OBVIOUS
    <2>1. PromiseKept
      <3> SUFFICES ASSUME promised # NoConfig, dev.handle, dev.phase # "saving"
                   PROVE  dev.cfg = promised
        BY DEF PromiseKept
      <3>1. promised \in Configs /\ \A k \in Keys : StoredUnder(efuse, nvs[k], k, promised)
        BY DEF ConfInv, FlashFits, PromiseInFlash
      <3>2. dev.cfg = Load(nvs, efuse)
        BY DEF ConfInv, FlashFits, RunsWhatIsStored
      <3>3. promised = [k \in Keys |-> promised[k]]
        BY <3>1, ConfigsAreSendable DEF Sendable
      <3>4. \A k \in Keys : Load(nvs, efuse)[k] = promised[k]
        <4> TAKE k \in Keys
        <4>1. StoredUnder(efuse, nvs[k], k, promised)
          BY <3>1
        <4> QED BY <4>1, StoredIsLoaded
      <3>5. Load(nvs, efuse) = [k \in Keys |-> Load(nvs, efuse)[k]]
        BY DEF Load
      <3> QED BY <3>2, <3>3, <3>4, <3>5
    <2> QED BY <2>1 DEF ConfInv, ConfigurationKept
  <1> QED BY <1>1, InitConfFits, NextConfFits, PTL DEF Spec
=============================================================================
