------------------------------ MODULE SpaState ------------------------------
(***************************************************************************)
(* The water side of the spa simulator: SpaState, the toggles of its items *)
(* and one second of its thermal model.                                    *)
(*                                                                         *)
(* All comparisons of the code are made in Fahrenheit, so temperatures are *)
(* kept in thousandths of a degree Fahrenheit; only the target keeps the   *)
(* scale it was sent in, because the status frame encodes it back.  The    *)
(* items are those of Protocol: hold mode, the pumps, and the switches for *)
(* lights and blower.  The clock of the display is left out.               *)
(***************************************************************************)
EXTENDS Protocol, Temperature

CONSTANTS
    Ambient,        \* ambient_temp
    PumpHeat,       \* pump_heat_contribution
    Overshoot       \* physics_overshoot

ASSUME PhysicsAssumption ==
    Ambient \in Nat /\ PumpHeat \in Nat /\ Overshoot \in Nat

(* Toggle items the controller does not track. *)
HeatingModeItem == UntrackedItem + 1
TempRangeItem == UntrackedItem + 2

DefaultSpa(current, high, low, scale) ==
    [items |-> [i \in TrackedItems |-> 0], mode |-> "Ready", range |-> "High",
     set |-> high, setHigh |-> high, setLow |-> low, scale |-> scale,
     temp |-> current, heating |-> FALSE, circ |-> TRUE]

CyclePump(p) == (p + 1) % 3
CycleHeatingMode(mode) ==
    CASE mode = "Ready" -> "Rest"
      [] mode = "Rest" -> "ReadyInRest"
      [] mode = "ReadyInRest" -> "Ready"
FlipTempRange(range) == IF range = "High" THEN "Low" ELSE "High"

(* set_target_temp: the target belongs to the range it was set in. *)
SetTargetTemp(s, t) ==
    IF s.range = "High" THEN [s EXCEPT !.set = t, !.setHigh = t]
                        ELSE [s EXCEPT !.set = t, !.setLow = t]

SwitchRange(s) ==
    LET saved == SetTargetTemp(s, s.set)
        range == FlipTempRange(s.range)
    IN  [saved EXCEPT !.range = range,
                      !.set = IF range = "High" THEN saved.setHigh ELSE saved.setLow]

(* apply_toggle_by_code.  Mister, aux and the other codes do nothing. *)
ApplyToggle(s, item) ==
    CASE item \in Pumps -> [s EXCEPT !.items[item] = CyclePump(@)]
      [] item \in TrackedItems \ Pumps -> [s EXCEPT !.items[item] = 1 - @]
      [] item = HeatingModeItem -> [s EXCEPT !.mode = CycleHeatingMode(@)]
      [] item = TempRangeItem -> SwitchRange(s)
      [] OTHER -> s

-----------------------------------------------------------------------------
(* simulate_physics.                                                       *)

Larger(a, b) == IF a > b THEN a ELSE b
Smaller(a, b) == IF a < b THEN a ELSE b

RunningPumps(s) ==
    Cardinality({i \in Pumps : s.items[i] # 0}) + (IF s.circ THEN 1 ELSE 0)
Flow(s) == RunningPumps(s) > 0

Hysteresis == IF Overshoot > 0 THEN Overshoot \div 2 ELSE Unit \div 2
SetPoint(s) == ToFahrenheit(s.set)
LowerTarget(s) == SetPoint(s) - Hysteresis
(* Where heating stops: overshoot_target, or upper_target without one. *)
HeatTarget(s) == SetPoint(s) + (IF Overshoot > 0 THEN Overshoot ELSE Hysteresis)

Epsilon == Unit \div 100
HeatStep(temp, target) ==
    LET delta == Larger(target - temp, 0)
    IN  IF delta <= Epsilon THEN temp
        ELSE Smaller(temp + delta \div 80 + Larger(200, delta \div 100), target)
CoolStep(temp) ==
    LET delta == temp - Ambient
    IN  IF delta <= Epsilon THEN temp
        ELSE Larger(temp - Larger(delta \div 40, 25), Ambient)

(* The heater runs through the second that starts if there is flow and the *)
(* water is not above the target already.                                  *)
StillHeats(s) == s.heating /\ Flow(s) /\ s.temp <= HeatTarget(s)
ReachesTarget(s) ==
    StillHeats(s) /\ HeatStep(s.temp, HeatTarget(s)) >= HeatTarget(s) - Epsilon
TempAfter(s) ==
    LET moved == CASE ReachesTarget(s) -> HeatTarget(s)
                   [] StillHeats(s) -> HeatStep(s.temp, HeatTarget(s))
                   [] OTHER -> IF s.temp > Ambient THEN CoolStep(s.temp) ELSE s.temp
    IN  moved + PumpHeat * RunningPumps(s)

(* heating_overshot is forgotten as soon as the water is above the target, *)
(* and both branches of the restart ask for the lower target.              *)
RestartsOnlyHot(s) == Flow(s) /\ s.heating /\ TempAfter(s) < LowerTarget(s)
Restarts(s) == Flow(s) /\ TempAfter(s) < LowerTarget(s)
SimulatePhysics(s) ==
    [s EXCEPT !.temp = TempAfter(s),
              !.heating = (StillHeats(s) /\ ~ReachesTarget(s)) \/ Restarts(s)]

(* What a status frame shows of the spa, in the controller's terms. *)
StatusOf(s) == [items |-> s.items, temp |-> ToWire(s.set)]
=============================================================================
