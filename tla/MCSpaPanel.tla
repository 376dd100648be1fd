----------------------------- MODULE MCSpaPanel -----------------------------
(* Values for SpaPanel: a spa of each scale, cold weather and strong pumps *)
(* so that the heating cycle is a few seconds long.                        *)
EXTENDS SpaPanel

MCSpas ==
    {DefaultSpa(104 * Unit, Temperature(40 * Unit, "Celsius"),
                Temperature(26 * Unit, "Celsius"), "Celsius"),
     DefaultSpa(104 * Unit, Temperature(104 * Unit, "Fahrenheit"),
                Temperature(80 * Unit, "Fahrenheit"), "Fahrenheit")}
MCPanelTemps == {Number(v) : v \in {39500, 40000, 103000, 104000}}
MCTopics ==
    {Name("pump", 1), Name("pump", 6), Name("light", 3), <<"blower">>, <<"hold_mode">>,
     <<"heat_mode">>, <<"temp_range">>, <<"set_temperature">>, <<"set_time">>, <<"soak_mode">>,
     <<"sniff">>, <<"reboot">>}
Text(sub, text) == [sub |-> sub, text |-> text]
(* Quarters of a degree, the caps, hours and minutes past the end, a timer *)
(* too long, a preference, a sub-topic nobody knows.                       *)
MCWebTexts ==
    {Text(<<"set_temperature">>, Number(v)) : v \in {40250, 41000, 108000, 108500, 300000}}
      \cup {Text(<<"set_time">>, JsonTime(24, 0, TRUE)),
            Text(<<"set_time">>, Time(0, 60)), Text(Name("timer", 1), Number(120000)),
            Text(<<"set_preference">>, NamedPreference(0, 1)), Text(<<"set_preference">>, Word("no")),
            Text(<<"sniff">>, FrameCount(10)), Text(<<"pump7">>, Word("true")),
            Text(Name("pump", 1), Empty)}
=============================================================================
