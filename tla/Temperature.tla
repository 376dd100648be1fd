---------------------------- MODULE Temperature ----------------------------
(***************************************************************************)
(* Temperature of launa-protocol: a value and its scale.  The code's f32   *)
(* is a fixed-point number in thousandths of a degree; division rounds     *)
(* towards minus infinity.                                                 *)
(***************************************************************************)
EXTENDS Integers

Scales == {"Fahrenheit", "Celsius"}
Unit == 1000
Temperature(value, scale) == [value |-> value, scale |-> scale]

(* A Celsius byte counts half degrees, a Fahrenheit byte whole ones. *)
FromWire(raw, scale) ==
    Temperature(IF scale = "Celsius" THEN raw * (Unit \div 2) ELSE raw * Unit, scale)

(* to_wire rounds to the nearest byte.  255 itself does not come back: the *)
(* half that is added for the rounding takes it past the limit.            *)
NegativeError == -1
OverflowError == 256
ToWireUnlimited(t) ==
    ((IF t.scale = "Celsius" THEN 2 * t.value ELSE t.value) + Unit \div 2) \div Unit
ToWire(t) ==
    LET rounded == (IF t.scale = "Celsius" THEN 2 * t.value ELSE t.value) + Unit \div 2
    IN  CASE rounded < 0 -> NegativeError
          [] rounded > 255 * Unit -> OverflowError
          [] OTHER -> rounded \div Unit

ToCelsius(t) ==
    IF t.scale = "Celsius" THEN t.value ELSE ((t.value - 32 * Unit) * 5) \div 9
ToFahrenheit(t) ==
    IF t.scale = "Fahrenheit" THEN t.value ELSE (t.value * 9) \div 5 + 32 * Unit
Convert(t, scale) ==
    Temperature(IF scale = "Celsius" THEN ToCelsius(t) ELSE ToFahrenheit(t), scale)
=============================================================================
