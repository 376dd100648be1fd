------------------------------ MODULE MCSpaApp ------------------------------
(* SpaApp with a bounded command queue: on_mqtt_command stops at MaxQueue  *)
(* but retries and timers do not, so the model stops at QueueBound.        *)
EXTENDS SpaApp

CONSTANT QueueBound

MCNext == AppNext /\ Len(queue') <= QueueBound
MCSpec == AppInit /\ [][MCNext]_appVars
MCFairSpec == MCSpec /\ AppFairness

(* Frames of the registration handshake and of the session. *)
SomeStatus == CHOOSE s \in Statuses : TRUE
SessionFrames ==
    {NewClientQuery, ShortAssignment(16), OtherFrame}
      \cup {ClientIdAssignment(c, h) : c \in Channels, h \in {OwnHash} \cup PeerHashes}
      \cup {ExistingClientResponse(c, h) : c \in Channels, h \in {OwnHash} \cup PeerHashes}
      \cup {ClearToSend(c) : c \in Channels}
      \cup {NothingToSend(16), ExistingClientRequest(17, 9), StatusFrame(SomeStatus)}
SessionCommands == {SetTemperature(80)}

(* One channel.  The tracker runs have hold mode off in every status, the *)
(* timer runs have every status.                                          *)
NewSession == {NewClientQuery, ClientIdAssignment(16, OwnHash), ClearToSend(16)}
TrackerFrames ==
    NewSession \cup {StatusFrame(s) : s \in {s \in Statuses : s.items[HoldMode] = 0}}
TrackerCommands == {Toggle(1), SetTemperature(80), SetTemperature(90)}
TimerFrames == NewSession \cup {StatusFrame(s) : s \in Statuses}
TimerCommands == {Toggle(HoldMode), Command("SetTime", 1)}
=============================================================================
