------------------------------- MODULE MCBoot -------------------------------
(* The template, a configuration with a user of the broker and a password  *)
(* of whole blocks, and one without a user.                                *)
EXTENDS Boot

Configuration(ssid, password, user, secret) == [k \in Keys |->
    CASE k = "wifi_ssid" -> ssid [] k = "wifi_pass" -> password
      [] k = "mqtt_host" -> <<20>> [] k = "mqtt_port" -> <<21>>
      [] k = "mqtt_user" -> user [] k = "mqtt_pass" -> secret
      [] k = "device_id" -> <<22>>]
MCFiles == {ToolPlaceholder, Configuration(<<1>>, <<2, 3, 4>>, <<5>>, <<6, 7>>),
            Configuration(<<11>>, <<12>>, <<>>, <<>>)}
MCNonces == {<<8>>}
MCFactoryKey == <<0, 0, 0, 0>>
MCNewKey == <<7, 17, 27, 37>>
MCMessages == {{"stack overflow", "overflow"}, {"out of memory"}}
=============================================================================
