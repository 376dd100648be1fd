----------------------------- MODULE AppConfig ------------------------------
(***************************************************************************)
(* The configuration of the device: its keys in flash (NVS), what is       *)
(* loaded from them, the writes that save it, and the receiver that takes  *)
(* it from the serial line.                                                *)
(*                                                                         *)
(* A configuration maps the keys to texts.  A line on the wire is a marker *)
(* (START, END) or a pair; cut says that its line end was lost.            *)
(***************************************************************************)
EXTENDS Crypto, FiniteSets

KeyOrder == <<"wifi_ssid", "wifi_pass", "mqtt_host", "mqtt_port", "mqtt_user", "mqtt_pass", "device_id">>
Keys == {KeyOrder[i] : i \in 1 .. Len(KeyOrder)}
Passwords == {"wifi_pass", "mqtt_pass"}
Credentials == {"mqtt_user", "mqtt_pass"}

PLACEHOLDER_SSID == <<90>>
PLACEHOLDER_WIFI_PASS == <<91>>
Default == [k \in Keys |->
    CASE k = "wifi_ssid" -> PLACEHOLDER_SSID
      [] k = "wifi_pass" -> PLACEHOLDER_WIFI_PASS
      [] k = "mqtt_host" -> <<92>>
      [] k = "mqtt_port" -> <<93>>
      [] k \in Credentials -> <<>>
      [] k = "device_id" -> <<94>>]
IsPlaceholder(cfg) ==
    cfg["wifi_ssid"] = PLACEHOLDER_SSID \/ cfg["wifi_pass"] = PLACEHOLDER_WIFI_PASS

Absent == <<-1>>
EmptyNvs == [k \in Keys |-> Absent]

Load(nvs, efuse) ==
    [k \in Keys |->
        IF nvs[k] = Absent THEN Default[k]
        ELSE IF k \in Passwords THEN MaybeDecrypt(nvs[k], efuse) ELSE nvs[k]]

(* save: one write after the other, each password under a nonce of its own. *)
NvsWrite(key, value) == [key |-> key, value |-> value]
SaveOps(cfg, efuse, nonce) ==
    [i \in 1 .. Len(KeyOrder) |->
        LET key == KeyOrder[i]
        IN  NvsWrite(key, IF key \in Passwords THEN Encrypt(cfg[key], efuse, nonce[key]) ELSE cfg[key])]
-----------------------------------------------------------------------------
(* config-flash refuses a configuration file that is not filled in: the    *)
(* tool's own placeholders, an empty id, port 0.                           *)
ToolPlaceholder == [k \in Keys |->
    CASE k = "wifi_ssid" -> <<80>> [] k = "wifi_pass" -> <<81>> [] k = "mqtt_host" -> Default[k]
      [] k = "mqtt_port" -> <<0>> [] OTHER -> <<>>]
Validate(cfg) ==
    /\ \A k \in Keys \ Credentials : cfg[k] # ToolPlaceholder[k] /\ cfg[k] # <<>>
    /\ Len(cfg["device_id"]) <= 64

(* The lines config-flash sends; empty credentials are left out. *)
Line(text, value) == [text |-> text, value |-> value, cut |-> FALSE]
PairLine(cfg, key) == Line(key, cfg[key])
IfFilledIn(cfg, key) == IF cfg[key] = <<>> THEN <<>> ELSE <<PairLine(cfg, key)>>
ConfigLines(cfg) ==
    <<Line("START", <<>>), PairLine(cfg, "wifi_ssid"), PairLine(cfg, "wifi_pass"),
      PairLine(cfg, "mqtt_host"), PairLine(cfg, "mqtt_port")>>
      \o IfFilledIn(cfg, "mqtt_user") \o IfFilledIn(cfg, "mqtt_pass")
      \o <<PairLine(cfg, "device_id"), Line("END", <<>>)>>

(* The receiver: line_buf, started and kv_pairs. *)
NoLine == Line("", <<>>)
NewReceiver == [buf |-> NoLine, started |-> FALSE, pairs |-> <<>>]
(* What follows a line without an end sticks to it. *)
Glued(buf, line) ==
    IF buf = NoLine THEN line
    ELSE [text |-> IF buf.text \in Keys THEN buf.text ELSE "unknown",
          value |-> buf.value \o <<61>> \o line.value, cut |-> line.cut]

NoConfig == [k \in Keys |-> Absent]
ValidPort(text) == Len(text) = 1
LastPair(pairs, key) ==
    LET at == {i \in 1 .. Len(pairs) : pairs[i].key = key}
    IN  pairs[CHOOSE i \in at : \A j \in at : j <= i].value
(* parse_and_respond: the answer on the line and the configuration. *)
ParseAndRespond(pairs) ==
    IF \E i \in 1 .. Len(pairs) : pairs[i].key = "mqtt_port" /\ ~ValidPort(pairs[i].value)
    THEN [answer |-> "CONFIG_ERROR", config |-> NoConfig]
    ELSE [answer |-> "CONFIG_OK",
          config |-> [k \in Keys |->
            IF \E i \in 1 .. Len(pairs) : pairs[i].key = k THEN LastPair(pairs, k) ELSE Default[k]]]

(* One line of poll, without the answer at END. *)
TakeLine(rx, line) ==
    LET whole == Glued(rx.buf, line)
        taken == [rx EXCEPT !.buf = NoLine]
    IN  IF whole.cut THEN [rx EXCEPT !.buf = whole]
        ELSE IF ~rx.started
        THEN IF whole.text = "START" THEN [taken EXCEPT !.started = TRUE, !.pairs = <<>>] ELSE taken
        ELSE IF whole.text \in Keys
        THEN [taken EXCEPT !.pairs = Append(@, NvsWrite(whole.text, whole.value))]
        ELSE taken
EndsConfig(rx, line) == rx.started /\ ~line.cut /\ Glued(rx.buf, line).text = "END"

(* poll: the lines of the FIFO up to the END of a configuration. *)
PollResult(rx, left, answer, config) == [rx |-> rx, left |-> left, answer |-> answer, config |-> config]
AfterLines(rx, lines) ==
    LET After[i \in 0 .. Len(lines)] ==
            IF i = 0 THEN rx
            ELSE CHOOSE r \in {TakeLine(b, lines[i]) : b \in {After[i - 1]}} : TRUE
    IN  After
Poll(rx, fifo) ==
    LET After == AfterLines(rx, fifo)
        ends == {i \in 1 .. Len(fifo) : EndsConfig(After[i - 1], fifo[i])}
        end == CHOOSE i \in ends : \A j \in ends : i <= j
        parsed == ParseAndRespond(After[end - 1].pairs)
    IN  IF ends = {} THEN PollResult(After[Len(fifo)], <<>>, "", NoConfig)
        ELSE PollResult(NewReceiver, SubSeq(fifo, end + 1, Len(fifo)), parsed.answer, parsed.config)
=============================================================================
