------------------------------- MODULE SpaApp -------------------------------
(***************************************************************************)
(* SpaApp of launa-core: the controller that owns the session with the     *)
(* spa, the command queue, the command tracker, the timers and the         *)
(* detection of a silent spa.  It is a synchronous object: every method is *)
(* one action, and out is the Vec<AppAction> the last call returned.       *)
(*                                                                         *)
(* The module is open: any frame of Frames may arrive and any command of   *)
(* UserCommands may be given at any time.  SpaBus closes it with a spa.    *)
(*                                                                         *)
(* Left out: the counters of the diagnostics, the fault text, the client   *)
(* hash rotation counter, and the two time stamps that are written and     *)
(* never read (last_unregistered_frame_time, last_registration_probe_time).*)
(***************************************************************************)
EXTENDS Registration, CommandTracker, Timers, SequencesExt

CONSTANTS
    MaxQueue,           \* MAX_COMMAND_QUEUE
    RegTimeout,         \* REGISTRATION_TIMEOUT_MS
    CtsLoss,            \* CTS_LOSS_THRESHOLD_MS
    ProbeInterval,      \* STALE_PROBE_INTERVAL_MS
    StaleThreshold,     \* STALE_THRESHOLD_MS
    DiagInterval,       \* DIAGNOSTICS_INTERVAL_MS
    PrevChannels,       \* channels set_previous_channel may be given
    Frames,             \* frames the environment may deliver
    UserCommands        \* commands the MQTT side may give

ASSUME SpaAppAssumption ==
    /\ MaxQueue \in Nat
    /\ RegTimeout \in Nat \ {0}
    /\ CtsLoss \in Nat \ {0}
    /\ ProbeInterval \in Nat \ {0}
    /\ StaleThreshold \in Nat \ {0}
    /\ ProbeInterval <= StaleThreshold
    /\ DiagInterval \in Nat \ {0}
    /\ PrevChannels \subseteq Channels
    /\ Frames \subseteq BusFrames
    /\ UserCommands \subseteq Commands

VARIABLES
    reg,            \* registration
    regStarted,     \* registration_started_at, as an age
    clientId,       \* client_id
    lastCts,        \* last_cts_time, as an age
    queue,          \* command_queue
    pending,        \* cmd_tracker.pending
    timers,         \* pump_timers
    hold,           \* hold_timer
    lastStatus,     \* last_status
    statusAge,      \* last_status_time, as an age
    probeAge,       \* last_probe_time, as an age
    diagAge,        \* last_diag_time, as an age
    bootAge,        \* time since boot_time
    wasStale,       \* was_stale
    noQueryAlert,   \* no_query_alert_sent
    out             \* the actions the last call returned

sessionVars == <<reg, regStarted, clientId, lastCts>>
commandVars == <<queue, pending, timers, hold>>
statusVars == <<lastStatus, statusAge, probeAge, wasStale>>
monitorVars == <<diagAge, bootAge, noQueryAlert>>
appVars == <<sessionVars, commandVars, statusVars, monitorVars, out>>

-----------------------------------------------------------------------------
(* Actions the controller asks its caller for.                             *)

SendFrame(f) == [act |-> "SendFrame", frame |-> f]
PublishState(recovering, state) ==
    [act |-> "PublishState", recovering |-> recovering, registration |-> state]
PublishStaleAvailability == [act |-> "PublishStaleAvailability"]
PublishAlert(message) == [act |-> "PublishAlert", message |-> message]
PublishDiagnostics == [act |-> "PublishDiagnostics"]

(* One increment of the tracker's dropped_count, not an AppAction. *)
RecordDropped == [act |-> "RecordDropped"]

When(cond, action) == IF cond THEN <<action>> ELSE <<>>

-----------------------------------------------------------------------------
(* with_client_hash, then set_previous_channel if the caller has one. *)
AppInit ==
    /\ reg \in {RegNew(prev) : prev \in PrevChannels \cup {None}}
    /\ regStarted = None
    /\ clientId = None
    /\ lastCts = None
    /\ queue = <<>>
    /\ pending = <<>>
    /\ timers = [i \in Pumps |-> NewPumpTimer]
    /\ hold = NewHoldTimer
    /\ lastStatus = NoStatus
    /\ statusAge = None
    /\ probeAge = None
    /\ diagAge = None
    /\ bootAge = 0
    /\ wasStale = FALSE
    /\ noQueryAlert = FALSE
    /\ out = <<>>

-----------------------------------------------------------------------------
(* process_frame while unregistered: only the registration handshake runs. *)
(* An answer to the spa starts the registration timeout.                   *)

StartedAfter(action) ==
    CASE action = "SendClientIdAck" -> None
      [] action \in {"SendNewClientResponse", "SendExistingClientRequest"} -> 0
      [] action = "None" -> regStarted

ClientIdNotKept(action, f) == clientId
ClientIdAfter(action, f) == IF action = "SendClientIdAck" THEN f.ch ELSE clientId

ProcessRegistration(f) ==
    LET step == RegProcess(reg, ParseRegistration(f))
    IN  /\ ~IsRegistered(reg)
        /\ reg' = step.sm
        /\ regStarted' = StartedAfter(step.action)
        /\ clientId' = ClientIdAfter(step.action, f)
        /\ out' = CASE step.action = "SendClientIdAck" ->
                            <<SendFrame(ClientIdAck(f.ch))>>
                    [] step.action = "SendExistingClientRequest" ->
                            <<SendFrame(ExistingClientRequest(reg.prev, OwnHash))>>
                    [] OTHER -> <<>>
        /\ UNCHANGED <<lastCts, commandVars, statusVars, monitorVars>>

(* process_frame, registered, a status update: the tracker, the pump       *)
(* timers and the hold timer queue their commands, in this order and       *)
(* without looking at MAX_COMMAND_QUEUE.                                   *)
ProcessStatus(f) ==
    /\ IsRegistered(reg)
    /\ DispatchFrame(f) = "StatusUpdate"
    /\ LET s == f.status
           isHold == s.items[HoldMode] = 1
       IN  /\ \E v \in Verify(pending, s), due \in Increasing(Expired(timers, s)) :
                 /\ pending' = v.pending
                 /\ queue' = queue \o v.retries
                               \o [k \in 1 .. Cardinality(Expired(timers, s)) |->
                                      Toggle(due[k])]
                               \o When(HoldFires(hold, isHold), Toggle(HoldMode))
                 /\ out' = When(v.dropped, RecordDropped)
                             \o <<PublishState(wasStale, reg.state)>>
           /\ timers' = AfterTickAll(timers, s)
           /\ hold' = AfterHoldTick(hold, isHold)
           /\ lastStatus' = s
    /\ statusAge' = 0
    /\ probeAge' = 0
    /\ wasStale' = FALSE
    /\ UNCHANGED <<sessionVars, monitorVars>>

(* process_frame, registered, a Ready frame.  Ours, or nobody's when       *)
(* client_id is None: the head of the queue is sent and tracked, or the    *)
(* spa is told there is nothing to send.                                   *)
ReadyIsOurs(f) == clientId = None \/ clientId = f.ch

ProcessReady(f) ==
    /\ IsRegistered(reg)
    /\ DispatchFrame(f) = "Ready"
    /\ ReadyIsOurs(f)
    /\ lastCts' = 0
    /\ IF queue # <<>>
       THEN /\ queue' = Tail(queue)
            /\ pending' = IF lastStatus = NoStatus THEN pending
                          ELSE Track(pending, Head(queue), lastStatus)
            /\ out' = <<SendFrame(CommandFrame(Head(queue)))>>
                        \o When(/\ lastStatus # NoStatus
                                /\ TrackDrops(pending, Head(queue), lastStatus),
                                RecordDropped)
       ELSE /\ out' = IF clientId = None THEN <<>>
                      ELSE <<SendFrame(NothingToSend(clientId))>>
            /\ UNCHANGED <<queue, pending>>
    /\ UNCHANGED <<reg, regStarted, clientId, timers, hold, statusVars, monitorVars>>

(* process_frame, registered, a channel assignment: taken over as it is.   *)
ProcessAssignment(f) ==
    /\ IsRegistered(reg)
    /\ DispatchFrame(f) = "Registration"
    /\ ParseRegistration(f).msg = "ClientIdAssignment"
    /\ clientId' = f.ch
    /\ out' = <<>>
    /\ UNCHANGED <<reg, regStarted, lastCts, commandVars, statusVars, monitorVars>>

(* process_frame, registered, any other frame. *)
IgnoreFrame(f) ==
    /\ IsRegistered(reg)
    /\ \/ DispatchFrame(f) = "Unknown"
       \/ DispatchFrame(f) = "Ready" /\ ~ReadyIsOurs(f)
       \/ /\ DispatchFrame(f) = "Registration"
          /\ ParseRegistration(f).msg # "ClientIdAssignment"
    /\ out' = <<>>
    /\ UNCHANGED <<sessionVars, commandVars, statusVars, monitorVars>>

ProcessFrame(f) ==
    \/ ProcessRegistration(f)
    \/ ProcessStatus(f)
    \/ ProcessReady(f)
    \/ ProcessAssignment(f)
    \/ IgnoreFrame(f)

-----------------------------------------------------------------------------
(* on_mqtt_command.                                                        *)

QueuedTemperatures == {i \in DOMAIN queue : queue[i].kind = "SetTemperature"}
QueuedToggles(cmd) == {i \in DOMAIN queue : cmd.kind = "ToggleItem" /\ queue[i] = cmd}

(* A set temperature replaces the queued one, in its place. *)
ReplaceTemperature(cmd) ==
    /\ cmd.kind = "SetTemperature"
    /\ QueuedTemperatures # {}
    /\ queue' = [queue EXCEPT ![Min(QueuedTemperatures)] = cmd]
    /\ out' = <<>>

(* A toggle of an item whose toggle is queued takes that one back. *)
CancelToggle(cmd) ==
    /\ QueuedToggles(cmd) # {}
    /\ queue' = RemoveAt(queue, Min(QueuedToggles(cmd)))
    /\ out' = <<>>

(* push_back unless the queue is full. *)
PushOneTooMany(q, cmd) == IF Len(q) > MaxQueue THEN q ELSE Append(q, cmd)
PushBack(q, cmd) == IF Len(q) >= MaxQueue THEN q ELSE Append(q, cmd)

(* Everything else is queued; a 24h time brings its clock preference along. *)
PushCommand(cmd) ==
    LET wantsClock == /\ cmd = Command("SetTime", 1)
                      /\ ClockPreference \notin ToSet(queue)
        q == IF wantsClock THEN PushBack(queue, ClockPreference) ELSE queue
    IN  /\ ~(cmd.kind = "SetTemperature" /\ QueuedTemperatures # {})
        /\ QueuedToggles(cmd) = {}
        /\ queue' = PushBack(q, cmd)
        /\ out' = When(wantsClock /\ Len(queue) >= MaxQueue, RecordDropped)
                    \o When(Len(q) >= MaxQueue, RecordDropped)

OnMqttCommand(cmd) ==
    /\ \/ ReplaceTemperature(cmd)
       \/ CancelToggle(cmd)
       \/ PushCommand(cmd)
    /\ UNCHANGED <<sessionVars, pending, timers, hold, statusVars, monitorVars>>

(* start_pump_timer: the toggle goes out at once, past the queue. *)
StartPumpTimer(pump, duration) ==
    /\ timers' = StartTimer(timers, pump, duration)
    /\ out' = <<SendFrame(CommandFrame(Toggle(pump)))>>
    /\ UNCHANGED <<sessionVars, queue, pending, hold, statusVars, monitorVars>>

(* force_publish *)
ForcePublish ==
    /\ out' = When(lastStatus # NoStatus, PublishState(FALSE, reg.state))
    /\ UNCHANGED <<sessionVars, commandVars, statusVars, monitorVars>>

-----------------------------------------------------------------------------
(* tick.  The checks run one after the other, each on what the one before  *)
(* has left.                                                               *)

TimedOutWhileRegistered == regStarted # None /\ regStarted >= RegTimeout
TimedOutNewClientOnly ==
    reg.state = "WaitingForAssignment" /\ regStarted # None /\ regStarted >= RegTimeout
RegistrationTimedOut == ~IsRegistered(reg) /\ regStarted # None /\ regStarted >= RegTimeout
StartedAfterTimeout == IF IsRegistered(reg) \/ RegistrationTimedOut THEN None ELSE regStarted
NoQuerySeen ==
    /\ ~IsRegistered(reg)
    /\ ~noQueryAlert
    /\ StartedAfterTimeout = None
    /\ bootAge >= StaleThreshold
CtsLost == /\ IsRegistered(reg)
           /\ ~wasStale
           /\ lastCts # None
           /\ lastCts >= CtsLoss
ProbeDue == /\ statusAge # None
            /\ statusAge >= ProbeInterval
            /\ probeAge = None \/ probeAge >= ProbeInterval
StaleOnlyRegistered ==
    IsRegistered(reg) /\ statusAge # None /\ statusAge >= StaleThreshold /\ ~wasStale
GoesStale == statusAge # None /\ statusAge >= StaleThreshold /\ ~wasStale
DiagDue == diagAge = None \/ diagAge >= DiagInterval

(* reset_registration_state(true).  The hold timer keeps running. *)
SessionReset == CtsLost \/ GoesStale

Tick ==
    /\ reg' = IF RegistrationTimedOut \/ SessionReset THEN RegReset(reg) ELSE reg
    /\ regStarted' = IF SessionReset THEN None ELSE StartedAfterTimeout
    /\ clientId' = IF SessionReset THEN None ELSE clientId
    /\ lastCts' = IF SessionReset THEN None ELSE lastCts
    /\ queue' = IF SessionReset THEN <<>> ELSE queue
    /\ pending' = IF SessionReset THEN <<>> ELSE pending
    /\ timers' = IF SessionReset THEN CancelAll(timers) ELSE timers
    /\ noQueryAlert' = (~IsRegistered(reg) /\ (noQueryAlert \/ NoQuerySeen))
    /\ probeAge' = IF ProbeDue THEN 0 ELSE probeAge
    /\ wasStale' = (wasStale \/ GoesStale)
    /\ diagAge' = IF DiagDue THEN 0 ELSE diagAge
    /\ out' = When(RegistrationTimedOut, PublishAlert("registration_timeout"))
                \o When(NoQuerySeen, PublishAlert("no_registration_query"))
                \o When(CtsLost, PublishAlert("cts_loss"))
                \o When(ProbeDue /\ clientId # None /\ ~CtsLost,
                        SendFrame(NothingToSend(clientId)))
                \o When(GoesStale, PublishAlert("spa_communication_lost"))
                \o When(GoesStale /\ lastStatus # NoStatus,
                        PublishState(FALSE, "WaitingForQuery"))
                \o When(GoesStale /\ lastStatus # NoStatus, PublishStaleAvailability)
                \o When(DiagDue, PublishDiagnostics)
    /\ UNCHANGED <<hold, lastStatus, statusAge, bootAge>>

-----------------------------------------------------------------------------
(* One unit of time passes. *)
Advance ==
    /\ regStarted' = Older(regStarted, RegTimeout)
    /\ lastCts' = Older(lastCts, CtsLoss)
    /\ pending' = [i \in DOMAIN pending |->
                      [pending[i] EXCEPT !.sentAt = Older(@, AckTimeout)]]
    /\ timers' = OlderTimers(timers)
    /\ hold' = OlderHold(hold)
    /\ statusAge' = Older(statusAge, StaleThreshold)
    /\ probeAge' = Older(probeAge, ProbeInterval)
    /\ diagAge' = Older(diagAge, DiagInterval)
    /\ bootAge' = Older(bootAge, StaleThreshold)
    /\ out' = <<>>
    /\ UNCHANGED <<reg, clientId, queue, lastStatus, wasStale, noQueryAlert>>

AppNext ==
    \/ \E f \in Frames : ProcessFrame(f)
    \/ \E cmd \in UserCommands : OnMqttCommand(cmd)
    \/ \E pump \in Pumps, duration \in Durations : StartPumpTimer(pump, duration)
    \/ ForcePublish
    \/ Tick
    \/ Advance

AppSpec == AppInit /\ [][AppNext]_appVars
-----------------------------------------------------------------------------
(* Types.  Frames that leave are commands or registration frames.          *)
SentFrames ==
    [type : {"0ABF"}, cmd : Commands]
      \cup [type : {"FEBF"}, sub : {4}, ch : Channels, hash : {OwnHash}]
      \cup [type : {"CHBF"}, sub : {3, 7}, ch : Channels, hash : {None}]

AppActions ==
    [act : {"SendFrame"}, frame : SentFrames]
      \cup [act : {"PublishState"}, recovering : BOOLEAN,
            registration : RegistrationStates]
      \cup [act : {"PublishAlert"},
            message : {"registration_timeout", "no_registration_query",
                       "cts_loss", "spa_communication_lost"}]
      \cup [act : {"PublishStaleAvailability", "PublishDiagnostics",
                   "RecordDropped"}]

(* The type invariant: every Option holds None or a value of its type, no  *)
(* age passes its threshold, no entry of the tracker has more than         *)
(* MAX_COMMAND_RETRIES retries.                                            *)
TypeOK ==
    /\ reg \in RegistrationMachines
    /\ regStarted \in Ages(RegTimeout)
    /\ clientId \in Channels \cup {None}
    /\ lastCts \in Ages(CtsLoss)
    /\ queue \in Seq(Commands)
    /\ pending \in Seq(PendingCommands)
    /\ timers \in [Pumps -> PumpTimers]
    /\ hold \in HoldTimers
    /\ lastStatus \in Statuses \cup {NoStatus}
    /\ statusAge \in Ages(StaleThreshold)
    /\ probeAge \in Ages(ProbeInterval)
    /\ diagAge \in Ages(DiagInterval)
    /\ bootAge \in 0 .. StaleThreshold
    /\ wasStale \in BOOLEAN
    /\ noQueryAlert \in BOOLEAN
    /\ out \in Seq(AppActions)

(* Nothing of a session outlives it: without registration there is no      *)
(* client id, no CTS time stamp and no command waiting for its effect, so  *)
(* that a spa that comes back is not sent the retries of commands given to *)
(* the session before (reset_registration_state, process_frame, tick).     *)
NothingOutlivesSession ==
    ~IsRegistered(reg) => clientId = None /\ lastCts = None /\ pending = <<>>

(* A device that registered as a new client knows its channel; only the    *)
(* existing-client path leaves client_id unset (process_frame).            *)
NewClientKnowsChannel ==
    IsRegistered(reg) /\ reg.prev = None => clientId # None

(* A handshake that waits for the spa always has its timeout running, on   *)
(* the fallback from existing client to new client too, so that it cannot  *)
(* wait forever (process_frame, tick).                                     *)
HandshakeHasDeadline ==
    reg.state \in {"WaitingForAssignment", "WaitingForExistingResponse"}
        => regStarted # None

(* Only a client that has a previous channel waits for an existing-client  *)
(* response, without which the fallback to a new client could register     *)
(* without a channel (RegistrationStateMachine::process).                  *)
ExistingHasChannel ==
    reg.state = "WaitingForExistingResponse" => reg.prev # None

(* The session: a lost one leaves nothing behind, a new client knows its   *)
(* channel and a handshake has its timeout running (process_frame, tick).  *)
SessionInv ==
    /\ NothingOutlivesSession
    /\ NewClientKnowsChannel
    /\ HandshakeHasDeadline
    /\ ExistingHasChannel

(* Whatever frames, commands and ticks come in whatever order, the state   *)
(* is typed and the session it is in is whole (process_frame, tick).       *)
AppInv == TypeOK /\ SessionInv

(* The tracker never waits twice for the same change and never for more    *)
(* than MAX_PENDING_COMMANDS: a retry that is sent again must find its old *)
(* entry, whatever statuses came in between (track, verify).               *)
PendingDistinct ==
    /\ Len(pending) <= MaxPending
    /\ \A i, j \in DOMAIN pending :
          i # j => pending[i].expected # pending[j].expected

(* Every entry of the tracker waits for the effect of the command it would *)
(* send again (track overwrites the command of an entry it finds).         *)
PendingMatchesCommand ==
    \A i \in DOMAIN pending :
        /\ pending[i].expected.kind = pending[i].command.kind
        /\ pending[i].expected.arg = pending[i].command.arg

(* The tracker is sound: it waits for each change once, within its limit,  *)
(* and for the effect of the very command it would send again, whatever    *)
(* retries and statuses came in between (track, verify).                   *)
PendingSound == PendingDistinct /\ PendingMatchesCommand

(* A running timer belongs to a pump that is on as far as the controller   *)
(* knows: the last status showed it on, or the timer was started since     *)
(* (tick_all cancels the timer of a pump that is off; statusAge stops at   *)
(* StaleThreshold).                                                        *)
TimerForRunningPump ==
    \A i \in Pumps :
        timers[i].startedAt # None /\ lastStatus # NoStatus /\ lastStatus.items[i] = 0
            => timers[i].startedAt <= statusAge \/ statusAge = StaleThreshold

Published(action) == \E i \in DOMAIN out' : out'[i] = action

(* What the controller may queue of its own accord: the commands that wait *)
(* overdue in the tracker and may be sent again, the toggles of expired    *)
(* timers.                                                                 *)
OwnCommands ==
    {pending[i].command : i \in {i \in DOMAIN pending :
                                    pending[i].sentAt >= AckTimeout /\ pending[i].retries < MaxRetries}}
      \cup {Toggle(i) : i \in {i \in Pumps : timers[i].startedAt # None
                                             /\ timers[i].startedAt >= timers[i].duration}}
      \cup {c \in {Toggle(HoldMode)} : hold.enteredAt # None /\ hold.enteredAt >= HoldTimeout}

(* Behind what waits, the user's commands up to MAX_COMMAND_QUEUE; beyond  *)
(* it nothing but one round of retries and expired timers.                 *)
QueueGrows ==
    /\ IsPrefix(queue, queue')
    /\ \/ Len(queue') <= MaxQueue
       \/ /\ Len(queue') <= Len(queue) + Len(pending) + NumPumps + 1
          /\ \A i \in Len(queue) + 1 .. Len(queue') : queue'[i] \in OwnCommands

(* The command queue is a queue: a command leaves it only at its head and  *)
(* by being sent, or cancelled by the same toggle, or with the session;    *)
(* and though retries and timers are queued without looking at the limit,  *)
(* only they pass it (process_frame, on_mqtt_command, tick).               *)
QueueDiscipline ==
    [][\/ QueueGrows
       \/ queue # <<>> /\ queue' = Tail(queue)
            /\ Published(SendFrame(CommandFrame(Head(queue))))
       \/ IsRegistered(reg) /\ ~IsRegistered(reg') /\ queue' = <<>>
       \/ wasStale' /\ ~wasStale /\ queue' = <<>>
       \/ \E i \in DOMAIN queue : /\ queue[i].kind = "ToggleItem"
                                  /\ queue' = RemoveAt(queue, i)
       \/ \E i \in DOMAIN queue, t \in Temps :
             /\ queue[i].kind = "SetTemperature"
             /\ queue' = [queue EXCEPT ![i] = SetTemperature(t)]]_appVars

-----------------------------------------------------------------------------
(* Liveness.  The main loop calls tick at least once a second and time     *)
(* passes; nothing is assumed of the spa or of the user.                   *)
AppFairness == WF_appVars(Tick) /\ WF_appVars(Advance)

(* A handshake ends, by registration or by its timeout, whatever frames    *)
(* arrive or fail to arrive.                                               *)
HandshakeEnds ==
    (reg.state \in {"WaitingForAssignment", "WaitingForExistingResponse"})
        ~> (reg.state \in {"WaitingForQuery", "Registered"})

(* A spa that falls silent is noticed. *)
SilenceNoticed ==
    (statusAge = StaleThreshold) ~> (wasStale \/ statusAge # StaleThreshold)
=============================================================================
