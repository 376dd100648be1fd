--------------------------- MODULE CommandTracker ---------------------------
(***************************************************************************)
(* CommandTracker of launa-core: the commands that were sent and whose     *)
(* effect has not been seen yet in a status update.  An entry whose effect *)
(* does not show within AckTimeout is sent again, MaxRetries times, and    *)
(* then given up.                                                          *)
(*                                                                         *)
(* A time stamp is kept as the age it has now, which stops growing at the  *)
(* threshold it is compared with: the code only ever asks whether          *)
(* elapsed >= threshold.                                                   *)
(***************************************************************************)
EXTENDS Protocol, FiniteSetsExt

CONSTANTS
    AckTimeout,     \* COMMAND_ACK_TIMEOUT_MS
    MaxRetries,     \* MAX_COMMAND_RETRIES
    MaxPending      \* MAX_PENDING_COMMANDS

ASSUME TrackerAssumption ==
    /\ AckTimeout \in Nat \ {0}
    /\ MaxRetries \in Nat
    /\ MaxPending \in Nat

(* ExpectedChange: an item leaves pre, or the set temperature becomes arg. *)
ExpectedChanges ==
    [kind : {"ToggleItem"}, arg : TrackedItems, pre : ItemStates]
      \cup [kind : {"SetTemperature"}, arg : Temps, pre : {None}]

PendingCommands ==
    [command : Commands, expected : ExpectedChanges,
     sentAt : 0 .. AckTimeout, retries : 0 .. MaxRetries]

(* ExpectedChange::from_command(cmd, pre_status): Some for these commands. *)
HasExpectedChange(cmd) ==
    \/ cmd.kind = "ToggleItem" /\ cmd.arg \in TrackedItems
    \/ cmd.kind = "SetTemperature"

FromCommand(cmd, status) ==
    [kind |-> cmd.kind, arg |-> cmd.arg,
     pre  |-> IF cmd.kind = "ToggleItem" THEN status.items[cmd.arg] ELSE None]

IsConfirmed(expected, status) ==
    IF expected.kind = "ToggleItem"
    THEN status.items[expected.arg] # expected.pre
    ELSE status.temp = expected.arg

-----------------------------------------------------------------------------
(* The enumerations of a finite set of indices in increasing order, and in *)
(* decreasing order.  Each is a set with exactly one element.              *)
Increasing(S) ==
    {f \in [1 .. Cardinality(S) -> S] :
        \A i, j \in 1 .. Cardinality(S) : i < j => f[i] < f[j]}
Decreasing(S) ==
    {f \in [1 .. Cardinality(S) -> S] :
        \A i, j \in 1 .. Cardinality(S) : i < j => f[i] > f[j]}

-----------------------------------------------------------------------------
(* track(cmd, pre_status, now).  A retry that is sent again finds its old  *)
(* entry and only restarts its clock.                                      *)
NeverSame(p, cmd, status) == {}
SameExpected(p, cmd, status) ==
    {i \in DOMAIN p : p[i].expected = FromCommand(cmd, status)}

NewPending(cmd, status) ==
    [command |-> cmd, expected |-> FromCommand(cmd, status),
     sentAt |-> 0, retries |-> 0]

Track(p, cmd, status) ==
    CASE ~HasExpectedChange(cmd) -> p
      [] HasExpectedChange(cmd) /\ SameExpected(p, cmd, status) # {} ->
            LET i == Min(SameExpected(p, cmd, status))
            IN  [p EXCEPT ![i].command = cmd, ![i].sentAt = 0]
      [] HasExpectedChange(cmd) /\ SameExpected(p, cmd, status) = {} ->
            IF Len(p) >= MaxPending THEN p ELSE Append(p, NewPending(cmd, status))

(* The command is sent but there is no room to watch for its effect. *)
TrackDrops(p, cmd, status) ==
    /\ HasExpectedChange(cmd)
    /\ SameExpected(p, cmd, status) = {}
    /\ Len(p) >= MaxPending

-----------------------------------------------------------------------------
(* verify(status, now).  Confirmed entries and entries out of retries are  *)
(* removed; the other overdue entries get one more attempt, listed from    *)
(* the last entry to the first.                                            *)
Overdue(p, status) ==
    {i \in DOMAIN p : ~IsConfirmed(p[i].expected, status) /\ p[i].sentAt >= AckTimeout}
ToRetry(p, status) == {i \in Overdue(p, status) : p[i].retries < MaxRetries}
GivenUp(p, status) == Overdue(p, status) \ ToRetry(p, status)
Survivors(p, status) ==
    {i \in DOMAIN p : ~IsConfirmed(p[i].expected, status)} \ GivenUp(p, status)

AfterVerify(p, status, i) ==
    IF i \in ToRetry(p, status)
    THEN [p[i] EXCEPT !.sentAt = 0, !.retries = @ + 1]
    ELSE p[i]

VerifyPending(p, status, keep) ==
    [k \in 1 .. Cardinality(Survivors(p, status)) |-> AfterVerify(p, status, keep[k])]
VerifyRetries(p, status, retry) ==
    [k \in 1 .. Cardinality(ToRetry(p, status)) |-> p[retry[k]].command]

(* The one result of verify. *)
Verify(p, status) ==
    {[pending |-> VerifyPending(p, status, keep),
      retries |-> VerifyRetries(p, status, retry),
      dropped |-> GivenUp(p, status) # {}] :
        keep \in Increasing(Survivors(p, status)),
        retry \in Decreasing(ToRetry(p, status))}
=============================================================================
