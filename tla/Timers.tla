------------------------------- MODULE Timers -------------------------------
(***************************************************************************)
(* PumpTimerManager and HoldModeTimer of launa-core.  A pump timer that is *)
(* due asks for one toggle of its pump; the hold mode timer asks for one   *)
(* toggle of hold mode and stays quiet until hold mode has been left.      *)
(* Times are ages, as in CommandTracker.                                   *)
(***************************************************************************)
EXTENDS Protocol

CONSTANTS
    Durations,          \* pump timer durations a user may ask for
    DefaultDuration,    \* DEFAULT_PUMP_DURATION_MS
    HoldTimeout         \* DEFAULT_HOLD_MODE_TIMEOUT_MS

ASSUME TimerAssumption ==
    /\ Durations \subseteq Nat
    /\ DefaultDuration \in Nat
    /\ HoldTimeout \in Nat \ {0}

Ages(max) == {None} \cup 0 .. max

(* The age of a time stamp one unit of time later. *)
Older(age, max) == IF age = None \/ age >= max THEN age ELSE age + 1

PumpTimers ==
    {t \in [startedAt : {None} \cup Nat, duration : Durations \cup {DefaultDuration}] :
        t.startedAt \in Ages(t.duration)}
NewPumpTimer == [startedAt |-> None, duration |-> DefaultDuration]

StartTimer(timers, pump, duration) ==
    [timers EXCEPT ![pump] = [startedAt |-> 0, duration |-> duration]]

(* cancel_all keeps the durations. *)
CancelAll(timers) ==
    [i \in Pumps |-> [timers[i] EXCEPT !.startedAt = None]]

(* tick_all(now, pumps): the timers that ask for a toggle, and the timers  *)
(* afterwards.  A timer whose pump is reported off is cancelled.           *)
Expired(timers, status) ==
    {i \in Pumps : /\ timers[i].startedAt # None
                   /\ status.items[i] # 0
                   /\ timers[i].startedAt >= timers[i].duration}

NoCancelWhenOff(timers, status) ==
    [i \in Pumps |->
        IF i \in Expired(timers, status)
        THEN [timers[i] EXCEPT !.startedAt = None]
        ELSE timers[i]]

AfterTickAll(timers, status) ==
    [i \in Pumps |->
        IF status.items[i] = 0 \/ i \in Expired(timers, status)
        THEN [timers[i] EXCEPT !.startedAt = None]
        ELSE timers[i]]

OlderTimers(timers) ==
    [i \in Pumps |->
        [timers[i] EXCEPT !.startedAt = Older(@, timers[i].duration)]]

-----------------------------------------------------------------------------
HoldTimers == [enteredAt : Ages(HoldTimeout), fired : BOOLEAN]
NewHoldTimer == [enteredAt |-> None, fired |-> FALSE]

HoldFires(hold, isHold) ==
    /\ isHold
    /\ ~hold.fired
    /\ hold.enteredAt # None
    /\ hold.enteredAt >= HoldTimeout

AfterHoldTick(hold, isHold) ==
    CASE ~isHold -> NewHoldTimer
      [] HoldFires(hold, isHold) -> [enteredAt |-> None, fired |-> TRUE]
      [] isHold /\ ~hold.fired /\ hold.enteredAt = None ->
            [hold EXCEPT !.enteredAt = 0]
      [] OTHER -> hold

OlderHold(hold) == [hold EXCEPT !.enteredAt = Older(@, HoldTimeout)]
=============================================================================
