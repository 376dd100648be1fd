------------------------------ MODULE MqttTask ------------------------------
(***************************************************************************)
(* The firmware's MQTT side: mqtt_task, MqttClient, reconnect_with_backoff,*)
(* the WiFi task's signal, and the main loop as far as it feeds the task   *)
(* (execute_actions) and is fed by it (COMMAND_CHANNEL, OTA_CHANNEL).      *)
(*                                                                         *)
(* Tasks interleave at every await: one action per await of mqtt_task.     *)
(* A status is a value of Statuses.  Every write error of a publish is     *)
(* only logged by the code, so a publish either reaches the broker (the    *)
(* connection is up) or does not.  Left out: diagnostics, alerts, sniffed  *)
(* frames and logs, which use channels of their own and touch nothing      *)
(* else, the RSSI in the state, and the pump timer channel.                *)
(***************************************************************************)
EXTENDS Integers, Sequences, FiniteSets

CONSTANTS
    Statuses,       \* contents of a status update
    Inputs,         \* what users publish: commands and OTA requests
    NoValue,        \* None
    StateCap,       \* capacity of STATE_CHANNEL (4)
    CommandCap,     \* capacity of COMMAND_CHANNEL (4)
    MaxAttempts,    \* connection attempts before a reset (10; 30 on reconnect)
    MaxChanges,     \* bound on changes of the spa's and the app's state
    MaxInputs,      \* bound on messages from users
    MaxFaults       \* bound on faults of the network

(* Commands for the main loop, OTA requests, Home Assistant's birth message*)
Commands == {"temperature", "toggle", "reboot"}
OtaRequests == {"update", "test"}
HaOnline == "ha_online"
Messages == Commands \cup OtaRequests \cup {HaOnline}

ASSUME InputAssumption == Inputs \subseteq Messages
ASSUME CapAssumption == StateCap \in Nat \ {0} /\ CommandCap \in Nat \ {0}
ASSUME LimitAssumption ==
    /\ MaxAttempts \in Nat \ {0}
    /\ MaxChanges \in Nat /\ MaxInputs \in Nat /\ MaxFaults \in Nat
ASSUME NoValueAssumption == NoValue \notin Statuses

VARIABLES
    \* the main loop
    status,         \* SpaApp.last_status
    wasStale,       \* SpaApp.was_stale
    registered,     \* SpaApp.is_registered()
    sniffMode,      \* MainLoop.sniff_mode
    \* the channels between the tasks
    stateCh, cmdCh, otaCh,
    wifiSignal,     \* WIFI_RECONNECT_SIGNAL
    \* mqtt_task
    pc,             \* where the task awaits
    attempt,        \* attempts of the connection loop it is in
    resync,         \* the connection loop is reconnect_with_backoff
    msg,            \* the state message it publishes
    input,          \* the message it dispatches
    lastStatus, lastSniff, lastReg,     \* last_published_status and the like
    \* the connection and the broker
    sock,           \* the TCP connection as it really is
    session,        \* the broker holds a session of this device
    subs,           \* subscriptions of the session
    inbox,          \* messages on their way to the device
    avail,          \* the retained availability
    seen,           \* the state last published
    \* bounds
    changes, inputs, faults

mainVars == <<status, wasStale, registered, sniffMode>>
lastVars == <<lastStatus, lastSniff, lastReg>>
brokerVars == <<session, subs, inbox, avail, seen>>
bounds == <<changes, inputs, faults>>
taskVars == <<pc, attempt, resync, msg, input, lastVars>>
vars == <<mainVars, stateCh, cmdCh, otaCh, wifiSignal, taskVars, sock, brokerVars, bounds>>

Topics == <<"command", "ota", "ha_status">>
TopicOf(i) == CASE i \in Commands -> "command" [] i \in OtaRequests -> "ota" [] OTHER -> "ha_status"

State(s, sniff, reg) == [status |-> s, sniff |-> sniff, reg |-> reg]
StateMessages ==
    [status : Statuses, sniff : BOOLEAN, reg : BOOLEAN, recovering : BOOLEAN]

(* RAM after power on or software_reset; WiFi signals its first connection *)
(* too.                                                                    *)
Fresh ==
    /\ status' = NoValue /\ wasStale' = FALSE /\ registered' = FALSE /\ sniffMode' = FALSE
    /\ stateCh' = <<>> /\ cmdCh' = <<>> /\ otaCh' = <<>>
    /\ wifiSignal' = TRUE
    /\ pc' = "connect" /\ attempt' = 0 /\ resync' = FALSE
    /\ msg' = NoValue /\ input' = NoValue
    /\ lastStatus' = NoValue /\ lastSniff' = FALSE /\ lastReg' = FALSE

Init ==
    /\ status = NoValue /\ wasStale = FALSE /\ registered = FALSE /\ sniffMode = FALSE
    /\ stateCh = <<>> /\ cmdCh = <<>> /\ otaCh = <<>>
    /\ wifiSignal = TRUE
    /\ pc = "connect" /\ attempt = 0 /\ resync = FALSE
    /\ msg = NoValue /\ input = NoValue
    /\ lastStatus = NoValue /\ lastSniff = FALSE /\ lastReg = FALSE
    /\ sock = "none" /\ session = FALSE /\ subs = {} /\ inbox = <<>>
    /\ avail = NoValue /\ seen = NoValue
    /\ changes = 0 /\ inputs = 0 /\ faults = 0

-----------------------------------------------------------------------------
(* The main loop.  It starts when the MQTT task has connected once.        *)
Change == changes < MaxChanges /\ changes' = changes + 1
MainRuns == ~(pc \in {"connect", "online", "subscribe"} /\ ~resync)

(* execute_actions: PublishState is a try_send; when the channel is full   *)
(* the update is dropped.  PublishStaleAvailability does nothing.          *)
SendState(s, recovering, sniff, reg) ==
    stateCh' = IF Len(stateCh) < StateCap
               THEN Append(stateCh, [status |-> s, sniff |-> sniff, reg |-> reg,
                                     recovering |-> recovering])
               ELSE stateCh

(* process_frame with a status update *)
OnStatus(s) ==
    /\ MainRuns
    /\ status' = s
    /\ wasStale' = (wasStale /\ ~registered)
    /\ SendState(s, wasStale /\ registered, sniffMode, registered)
    /\ UNCHANGED <<registered, sniffMode, cmdCh, otaCh, wifiSignal, taskVars, sock, brokerVars,
                   inputs, faults>>

StatusChanges(s) ==
    /\ s # status
    /\ IF status = NoValue THEN UNCHANGED changes ELSE Change
    /\ OnStatus(s)
StatusRepeats == status # NoValue /\ OnStatus(status) /\ UNCHANGED changes

(* tick: the spa has been silent for 30 s *)
GoesStale ==
    /\ MainRuns
    /\ status # NoValue /\ ~wasStale
    /\ Change
    /\ wasStale' = TRUE
    /\ registered' = FALSE
    /\ SendState(status, FALSE, sniffMode, FALSE)
    /\ UNCHANGED <<status, sniffMode, cmdCh, otaCh, wifiSignal, taskVars, sock, brokerVars,
                   inputs, faults>>

(* The handshake completes, or registration is lost with the clear to      *)
(* send; no state is published.                                            *)
RegistrationChanges ==
    /\ MainRuns
    /\ Change
    /\ registered' = ~registered
    /\ UNCHANGED <<status, wasStale, sniffMode, stateCh, cmdCh, otaCh, wifiSignal, taskVars,
                   sock, brokerVars, inputs, faults>>

(* Sniff mode is switched on by a command or off by itself: force_publish. *)
SniffModeChanges ==
    /\ MainRuns
    /\ Change
    /\ sniffMode' = ~sniffMode
    /\ IF status # NoValue THEN SendState(status, FALSE, ~sniffMode, registered)
       ELSE UNCHANGED stateCh
    /\ UNCHANGED <<status, wasStale, registered, cmdCh, otaCh, wifiSignal, taskVars, sock,
                   brokerVars, inputs, faults>>

(* software_reset.  The broker is not told. *)
Reset ==
    /\ Fresh
    /\ sock' = "none"
    /\ inbox' = <<>>
    /\ UNCHANGED <<session, subs, avail, seen, bounds>>

(* handle_mqtt_command *)
HandleCommand ==
    /\ MainRuns
    /\ cmdCh # <<>>
    /\ IF Head(cmdCh) = "reboot"
       THEN Reset
       ELSE /\ cmdCh' = Tail(cmdCh)
            /\ UNCHANGED <<mainVars, stateCh, otaCh, wifiSignal, taskVars, sock, brokerVars,
                           bounds>>

(* handle_ota_request: an update always ends in a reset, a test does not.  *)
HandleOtaNoReset ==
    /\ MainRuns
    /\ otaCh # <<>>
    /\ otaCh' = Tail(otaCh)
    /\ UNCHANGED <<mainVars, stateCh, cmdCh, wifiSignal, taskVars, sock, brokerVars, bounds>>
HandleOta ==
    /\ MainRuns
    /\ otaCh # <<>>
    /\ IF Head(otaCh) = "update"
       THEN Reset
       ELSE /\ otaCh' = Tail(otaCh)
            /\ UNCHANGED <<mainVars, stateCh, cmdCh, wifiSignal, taskVars, sock, brokerVars,
                           bounds>>

-----------------------------------------------------------------------------
(* mqtt_task: connecting *)

(* What a packet written to the connection does at the broker. *)
PublishAvailability(value) == avail' = IF sock = "open" THEN value ELSE avail
PublishState(s, sniff, reg) ==
    seen' = IF sock = "open" THEN State(s, sniff, reg) ELSE seen

(* connect: the old transport is dropped and a new one is connected.  The  *)
(* broker takes a session of the same client over: its will is published   *)
(* and, the session being clean, its subscriptions are gone.               *)
ConnectOk ==
    /\ pc = "connect"
    /\ sock' = "open"
    /\ session' = TRUE
    /\ avail' = IF session THEN "offline" ELSE avail
    /\ subs' = {}
    /\ inbox' = <<>>
    /\ pc' = "online"
    /\ UNCHANGED <<mainVars, stateCh, cmdCh, otaCh, wifiSignal, attempt, resync, msg, input,
                   lastVars, seen, bounds>>

(* A failed attempt, then the back off; the last one resets the device.    *)
ConnectFails ==
    /\ pc = "connect"
    /\ faults < MaxFaults
    /\ faults' = faults + 1
    /\ IF attempt + 1 >= MaxAttempts
       THEN /\ Fresh
            /\ sock' = "none" /\ inbox' = <<>>
            /\ UNCHANGED <<session, subs, avail, seen, changes, inputs>>
       ELSE /\ attempt' = attempt + 1
            /\ sock' = "none" /\ inbox' = <<>>
            /\ UNCHANGED <<mainVars, stateCh, cmdCh, otaCh, wifiSignal, pc, resync, msg, input,
                           lastVars, session, subs, avail, seen, changes, inputs>>

(* post_connect_publish: availability and discovery *)
PostConnectPublish ==
    /\ pc = "online"
    /\ PublishAvailability("online")
    /\ pc' = "subscribe"
    /\ UNCHANGED <<mainVars, stateCh, cmdCh, otaCh, wifiSignal, attempt, resync, msg, input,
                   lastVars, sock, session, subs, inbox, seen, bounds>>

AfterSubscribe == IF resync THEN "resync" ELSE "serve"

(* subscribe_commands: one topic after the other, each waiting for its     *)
(* SUBACK.  Other packets that arrive meanwhile are skipped.               *)
Subscribe ==
    /\ pc = "subscribe"
    /\ sock = "open"
    /\ Cardinality(subs) < Len(Topics)
    /\ subs' = subs \cup {Topics[Cardinality(subs) + 1]}
    /\ inbox' = <<>>
    /\ pc' = IF Cardinality(subs) + 1 = Len(Topics) THEN AfterSubscribe ELSE pc
    /\ UNCHANGED <<mainVars, stateCh, cmdCh, otaCh, wifiSignal, attempt, resync, msg, input,
                   lastVars, sock, session, avail, seen, bounds>>

(* No SUBACK in time, a packet too large for the buffer, or no connection: *)
(* the error is logged and the remaining topics are left out.              *)
SubscribeFails ==
    /\ pc = "subscribe"
    /\ \/ sock # "open" /\ UNCHANGED faults
       \/ sock = "open" /\ faults < MaxFaults /\ faults' = faults + 1
    /\ pc' = AfterSubscribe
    /\ UNCHANGED <<mainVars, stateCh, cmdCh, otaCh, wifiSignal, attempt, resync, msg, input,
                   lastVars, sock, brokerVars, changes, inputs>>

(* reconnect_and_sync: the last state is published again. *)
NoRepublish ==
    /\ pc = "resync"
    /\ pc' = "serve"
    /\ UNCHANGED <<mainVars, stateCh, cmdCh, otaCh, wifiSignal, attempt, resync, msg, input,
                   lastVars, sock, brokerVars, bounds>>
RepublishLastState ==
    /\ pc = "resync"
    /\ IF lastStatus # NoValue THEN PublishState(lastStatus, lastSniff, lastReg)
       ELSE UNCHANGED seen
    /\ pc' = "serve"
    /\ UNCHANGED <<mainVars, stateCh, cmdCh, otaCh, wifiSignal, attempt, resync, msg, input,
                   lastVars, sock, session, subs, inbox, avail, bounds>>

Reconnect ==
    /\ pc' = "connect"
    /\ attempt' = 0
    /\ resync' = TRUE
    /\ UNCHANGED <<mainVars, stateCh, cmdCh, otaCh, msg, input, lastVars, sock, brokerVars,
                   bounds>>

-----------------------------------------------------------------------------
(* mqtt_task: the loop.  WiFi's signal comes first, then the state channel,*)
(* then the messages from the broker.                                      *)
TakeWifiSignal ==
    /\ pc = "serve"
    /\ wifiSignal
    /\ wifiSignal' = FALSE
    /\ Reconnect

(* A state message is taken.  Change detection compares it with what was   *)
(* published last, which a change of mode has erased.                      *)
ChangedIgnoresMode(m) == lastStatus # m.status
Changed(m) == lastStatus # m.status \/ lastSniff # m.sniff \/ lastReg # m.reg

TakeState ==
    /\ pc = "serve"
    /\ ~wifiSignal
    /\ stateCh # <<>>
    /\ msg' = Head(stateCh)
    /\ stateCh' = Tail(stateCh)
    /\ pc' = IF Head(stateCh).recovering \/ Changed(Head(stateCh))
             THEN "publishState" ELSE "publishAvailability"
    /\ lastStatus' = Head(stateCh).status
    /\ lastSniff' = Head(stateCh).sniff
    /\ lastReg' = Head(stateCh).reg
    /\ UNCHANGED <<mainVars, cmdCh, otaCh, wifiSignal, attempt, resync, input, sock, brokerVars,
                   bounds>>

PublishTakenState ==
    /\ pc = "publishState"
    /\ PublishState(msg.status, msg.sniff, msg.reg)
    /\ pc' = "publishAvailability"
    /\ UNCHANGED <<mainVars, stateCh, cmdCh, otaCh, wifiSignal, attempt, resync, msg, input,
                   lastVars, sock, session, subs, inbox, avail, bounds>>

(* is_stale, as mqtt_task calls recovering_from_stale, is announced stale; *)
(* everything else is announced online.                                    *)
PublishTakenAvailability ==
    /\ pc = "publishAvailability"
    /\ PublishAvailability(IF msg.recovering THEN "stale" ELSE "online")
    /\ msg' = NoValue
    /\ pc' = "serve"
    /\ UNCHANGED <<mainVars, stateCh, cmdCh, otaCh, wifiSignal, attempt, resync, input,
                   lastVars, sock, session, subs, inbox, seen, bounds>>

Receives == pc = "serve" /\ ~wifiSignal /\ stateCh = <<>>

(* recv yields a message, which is acknowledged and dispatched. *)
Receive ==
    /\ Receives
    /\ sock = "open" /\ inbox # <<>>
    /\ input' = Head(inbox)
    /\ inbox' = Tail(inbox)
    /\ pc' = "dispatch"
    /\ UNCHANGED <<mainVars, stateCh, cmdCh, otaCh, wifiSignal, attempt, resync, msg, lastVars,
                   sock, session, subs, avail, seen, bounds>>

(* The one-second timer of the select cancels recv while it writes the     *)
(* PUBACK: the packet has left the buffer and is dropped.                  *)
ReceiveCancelled ==
    /\ Receives
    /\ sock = "open" /\ inbox # <<>>
    /\ faults < MaxFaults /\ faults' = faults + 1
    /\ inbox' = Tail(inbox)
    /\ UNCHANGED <<mainVars, stateCh, cmdCh, otaCh, wifiSignal, taskVars, sock, session, subs,
                   avail, seen, changes, inputs>>

(* recv yields None: the connection was closed or a ping failed. *)
ConnectionLost ==
    /\ Receives
    /\ sock # "open"
    /\ UNCHANGED wifiSignal
    /\ Reconnect

(* A command waits for room in COMMAND_CHANNEL. *)
DispatchCommand ==
    /\ pc = "dispatch"
    /\ input \in Commands
    /\ Len(cmdCh) < CommandCap
    /\ cmdCh' = Append(cmdCh, input)
    /\ input' = NoValue
    /\ pc' = "serve"
    /\ UNCHANGED <<mainVars, stateCh, otaCh, wifiSignal, attempt, resync, msg, lastVars, sock,
                   brokerVars, bounds>>

(* The rate limiter drops commands, but for temperatures and reboots.  How *)
(* many came in its window is left open.                                   *)
RateLimited ==
    /\ pc = "dispatch"
    /\ input = "toggle"
    /\ input' = NoValue
    /\ pc' = "serve"
    /\ UNCHANGED <<mainVars, stateCh, cmdCh, otaCh, wifiSignal, attempt, resync, msg, lastVars,
                   sock, brokerVars, bounds>>

(* An OTA request is handed to the main loop, and the task does nothing    *)
(* any more.                                                               *)
DispatchOta ==
    /\ pc = "dispatch"
    /\ input \in OtaRequests
    /\ otaCh = <<>>
    /\ otaCh' = <<input>>
    /\ input' = NoValue
    /\ pc' = "parked"
    /\ UNCHANGED <<mainVars, stateCh, cmdCh, wifiSignal, attempt, resync, msg, lastVars, sock,
                   brokerVars, bounds>>

(* Home Assistant came online: discovery and availability once more. *)
DispatchHaOnline ==
    /\ pc = "dispatch"
    /\ input = HaOnline
    /\ PublishAvailability("online")
    /\ input' = NoValue
    /\ pc' = "serve"
    /\ UNCHANGED <<mainVars, stateCh, cmdCh, otaCh, wifiSignal, attempt, resync, msg, lastVars,
                   sock, session, subs, inbox, seen, bounds>>

-----------------------------------------------------------------------------
(* The network and the broker. *)

(* The connection breaks; neither side knows yet. *)
Break ==
    /\ sock = "open"
    /\ faults < MaxFaults /\ faults' = faults + 1
    /\ sock' = "broken"
    /\ inbox' = <<>>
    /\ UNCHANGED <<mainVars, stateCh, cmdCh, otaCh, wifiSignal, taskVars, session, subs, avail,
                   seen, changes, inputs>>

(* WiFi was lost and is back: connection_task signals. *)
WifiReconnects ==
    /\ faults < MaxFaults /\ faults' = faults + 1
    /\ sock # "none"
    /\ sock' = "broken"
    /\ inbox' = <<>>
    /\ wifiSignal' = TRUE
    /\ UNCHANGED <<mainVars, stateCh, cmdCh, otaCh, taskVars, session, subs, avail, seen,
                   changes, inputs>>

(* The broker's keep alive runs out and the will is published. *)
BrokerNotices ==
    /\ session
    /\ sock # "open" \/ pc = "parked"
    /\ session' = FALSE
    /\ sock' = IF sock = "open" THEN "broken" ELSE sock
    /\ subs' = {}
    /\ inbox' = <<>>
    /\ avail' = "offline"
    /\ UNCHANGED <<mainVars, stateCh, cmdCh, otaCh, wifiSignal, taskVars, seen, bounds>>

(* A user or Home Assistant publishes; the broker forwards it if it can.   *)
UserPublishes(i) ==
    /\ inputs < MaxInputs
    /\ inputs' = inputs + 1
    /\ inbox' = IF sock = "open" /\ session /\ TopicOf(i) \in subs
                THEN Append(inbox, i) ELSE inbox
    /\ UNCHANGED <<mainVars, stateCh, cmdCh, otaCh, wifiSignal, taskVars, sock, session, subs,
                   avail, seen, changes, faults>>

-----------------------------------------------------------------------------
Task ==
    \/ ConnectOk \/ PostConnectPublish \/ Subscribe \/ SubscribeFails \/ RepublishLastState
    \/ TakeWifiSignal \/ TakeState \/ PublishTakenState \/ PublishTakenAvailability
    \/ Receive \/ ConnectionLost
    \/ DispatchCommand \/ RateLimited \/ DispatchOta \/ DispatchHaOnline

Main ==
    \/ \E s \in Statuses : StatusChanges(s)
    \/ StatusRepeats
    \/ GoesStale \/ RegistrationChanges \/ SniffModeChanges
    \/ HandleCommand \/ HandleOta

Next ==
    \/ Task
    \/ Main
    \/ ConnectFails \/ ReceiveCancelled \/ Break \/ WifiReconnects \/ BrokerNotices
    \/ \E i \in Inputs : UserPublishes(i)

Spec == Init /\ [][Next]_vars

(* The executor runs every task that can run.  TCP retransmits until the   *)
(* broker answers or refuses, so a broken connection is noticed in the     *)
(* end.  The main loop handles what is in its channels.  The spa repeats   *)
(* its status about once a second, and the task, for which an iteration    *)
(* takes milliseconds, gets to the end of its loop in between.             *)
OutrunsSpa ==
    []<>(pc \in {"connect", "parked"} \/ (pc = "serve" /\ stateCh = <<>>))
Fairness ==
    /\ WF_vars(Task)
    /\ SF_vars(ConnectionLost)
    /\ WF_vars(StatusRepeats)
    /\ WF_vars(HandleCommand)
    /\ WF_vars(HandleOta)
    /\ OutrunsSpa
FairSpec == Spec /\ Fairness

-----------------------------------------------------------------------------
MainType ==
    /\ status \in Statuses \cup {NoValue}
    /\ wasStale \in BOOLEAN /\ registered \in BOOLEAN
    /\ sniffMode \in BOOLEAN /\ wifiSignal \in BOOLEAN
ChannelType ==
    /\ stateCh \in Seq(StateMessages) /\ Len(stateCh) <= StateCap
    /\ cmdCh \in Seq(Commands) /\ Len(cmdCh) <= CommandCap
    /\ otaCh \in Seq(OtaRequests) /\ Len(otaCh) <= 1
TaskType ==
    /\ pc \in {"connect", "online", "subscribe", "resync", "serve", "publishState",
               "publishAvailability", "dispatch", "parked"}
    /\ attempt \in 0 .. MaxAttempts - 1
    /\ resync \in BOOLEAN
    /\ msg \in StateMessages \cup {NoValue}
    /\ pc \in {"publishState", "publishAvailability"} => msg \in StateMessages
    /\ input \in Messages \cup {NoValue}
    /\ lastStatus \in Statuses \cup {NoValue}
    /\ lastSniff \in BOOLEAN /\ lastReg \in BOOLEAN
BrokerType ==
    /\ sock \in {"none", "open", "broken"}
    /\ session \in BOOLEAN
    /\ subs \subseteq {"command", "ota", "ha_status"}
    /\ inbox \in Seq(Messages)
    /\ avail \in {"online", "stale", "offline", NoValue}
    /\ seen \in [status : Statuses, sniff : BOOLEAN, reg : BOOLEAN] \cup {NoValue}
BoundType ==
    changes \in 0 .. MaxChanges /\ inputs \in 0 .. MaxInputs /\ faults \in 0 .. MaxFaults
TypeOK == MainType /\ ChannelType /\ TaskType /\ BrokerType /\ BoundType

(* Change detection never holds back what the broker has not seen: on a    *)
(* live connection the state the task remembers as published is the state  *)
(* last published, though publishes fail silently, connections break       *)
(* between any two packets, and modes change between any two messages      *)
(* (mqtt_task, reconnect_and_sync).                                        *)
LastPublishedWasSeen ==
    pc \in {"serve", "dispatch", "publishAvailability"} /\ sock = "open" /\ lastStatus # NoValue
        => seen = State(lastStatus, lastSniff, lastReg)

(* A device that serves a live connection is not announced offline: the    *)
(* will of a connection that was taken over never hides the birth message  *)
(* of the new one (connect, post_connect_publish).                         *)
ServingIsNotOffline ==
    pc \in {"serve", "dispatch", "publishState", "publishAvailability"} /\ sock = "open"
        => avail \in {"online", "stale"}

(* Whatever is dropped, fails or breaks, the task's memory agrees with the *)
(* broker: typed, within the capacity of the channels, what it remembers   *)
(* as published was seen, and a device it serves is not announced offline. *)
MqttInv == TypeOK /\ LastPublishedWasSeen /\ ServingIsNotOffline

(* The broker ends up with the present state, whatever was dropped by the  *)
(* full channel, suppressed as unchanged or lost with a connection, once   *)
(* the spa's state settles and its status is repeated.                     *)
StateArrives ==
    <>[](status # NoValue => seen = State(status, sniffMode, registered))

(* The task serves MQTT again and again: every connection loop and every   *)
(* OTA request it hands over ends (reconnect_with_backoff, mqtt_task,      *)
(* handle_ota_request).                                                    *)
KeepsServing == []<>(pc = "serve")
=============================================================================
