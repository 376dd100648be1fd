------------------------------- MODULE MCHome -------------------------------
(* Values for Home: a ring with room for one event more than the spa has   *)
(* components, a spa of each scale.                                        *)
EXTENDS Home

MCFields == <<Name("pump", 1), <<"circ_pump">>, Name("light", 2)>>
MCSpas ==
    {[on |-> [c \in Components |-> FALSE], temp |-> 38 * Unit, set |-> 38 * Unit,
      scale |-> "Celsius", range |-> "High"],
     [on |-> [c \in Components |-> c = Name("pump", 1)], temp |-> 100 * Unit, set |-> 100 * Unit,
      scale |-> "Fahrenheit", range |-> "High"]}
MCWaterTemps == [Celsius |-> {38500}, Fahrenheit |-> {101 * Unit}]
MCConfigs ==
    {[pumps |-> 0, lights |-> 2, blower |-> FALSE, mister |-> FALSE],
     [pumps |-> 9, lights |-> 9, blower |-> TRUE, mister |-> TRUE]}
MCOperated == {<<"thermostat">>, Name("light", 2)}
=============================================================================
